---------------------------- MODULE VersionStore ----------------------------
(***************************************************************************)
(* What a store promises to its user, without ids, rows, blobs or steps:   *)
(* each path has a history of contents, newest first, and a read of a path *)
(* answers with the newest.                                                *)
(***************************************************************************)
EXTENDS Integers, Sequences, Functions

CONSTANTS
  Path,      \* the virtual paths
  Hash,      \* the contents
  NoHash,    \* the answer of a read of a path that has no version
  Missing,   \* the answer of a read of a content that is not stored
  NoAnswer   \* the last call was not a read, or has not answered yet

VARIABLES
  history,   \* for each path its contents, newest first
  answer     \* which paths the last read asked for, and what it was given

vars == <<history, answer>>

Answers == [of : SUBSET Path, hash : Hash \cup {NoHash, Missing}]

Init ==
  /\ history \in [Path -> Seq(Hash)]
  /\ answer = NoAnswer

Stored(h) == \E x \in Path : h \in Range(history[x])

Drop(s, i) == SubSeq(s, 1, i - 1) \o SubSeq(s, i + 1, Len(s))

\* A version of content h on top of the history of every path in ps.
Add(ps, h) ==
  /\ history' = [x \in Path |-> IF x \in ps THEN <<h>> \o history[x] ELSE history[x]]
  /\ answer' = NoAnswer

RemovePath(x) ==
  /\ history' = [history EXCEPT ![x] = <<>>]
  /\ answer' = NoAnswer

\* Of the versions with one content only the oldest can be removed alone.
RemoveVersion(x, i) ==
  /\ history[x][i] \notin {history[x][j] : j \in (i + 1)..Len(history[x])}
  /\ history' = [history EXCEPT ![x] = Drop(@, i)]
  /\ answer' = NoAnswer

Read(x) ==
  /\ answer' = [of |-> {x}, hash |-> IF history[x] = <<>> THEN NoHash ELSE Head(history[x])]
  /\ UNCHANGED history

\* A content that some path holds is found; another may or may not be.
ReadHash(h) ==
  /\ \/ answer' = [of |-> {}, hash |-> h]
     \/ ~Stored(h) /\ answer' = [of |-> {}, hash |-> Missing]
  /\ UNCHANGED history

\* A call begins, or is cut short.
Clear ==
  /\ answer' = NoAnswer
  /\ UNCHANGED history

Next ==
  \/ \E ps \in (SUBSET Path) \ {{}}, h \in Hash : Add(ps, h)
  \/ \E x \in Path : RemovePath(x) \/ Read(x)
  \/ \E x \in Path : \E i \in DOMAIN history[x] : RemoveVersion(x, i)
  \/ \E h \in Hash : ReadHash(h)
  \/ Clear

Spec == Init /\ [][Next]_vars
=============================================================================
