------------------------- MODULE BloxtreeRefinement -------------------------
(***************************************************************************)
(* One open handle of the engine implements VersionStore: the history of a *)
(* path is its rows from the newest id to the oldest, and the answer is    *)
(* the reply of the one process's last call.                               *)
(***************************************************************************)
EXTENDS Bloxtree

CONSTANT NoAnswer   \* see VersionStore

\* The hashes that `versions(path)` lists.
HistoryOf(x) ==
  LET n == Cardinality(RowsOf(x))
      At_(i) == CHOOSE r \in RowsOf(x) :
                  Cardinality({o \in RowsOf(x) : o.uuid > r.uuid}) = i - 1
  IN  [i \in 1..n |-> At_(i).hash]

AnswerOf(c) ==
  CASE c.reply = "unit"  -> NoAnswer
    [] c.reply = "none"  -> [of |-> c.target, hash |-> NoHash]
    [] c.reply = "found" -> [of |-> c.target, hash |-> c.hash]
    [] OTHER             -> [of |-> c.target, hash |-> c.reply]

Store == INSTANCE VersionStore WITH
           Missing  <- "error",
           history  <- [x \in Path |-> HistoryOf(x)],
           answer   <- AnswerOf(call[CHOOSE p \in Proc : TRUE])

\* Every behaviour of the engine with one open handle is a behaviour of the
\* abstract store: adds go on top, removals take what they were asked to,
\* a read of a path answers with its newest content and never fails.
ImplementsVersionStore == Store!Spec
=============================================================================
