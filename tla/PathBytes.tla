------------------------------ MODULE PathBytes ------------------------------
(***************************************************************************)
(* Virtual paths as the strings of bytes that they are: which are valid    *)
(* (path.rs), the range of the index that a prefix selects (index.rs), and *)
(* the listing of one level of a folder (lib.rs) computed from that range. *)
(*                                                                         *)
(* FolderListing has the same listing over sequences of names, the level   *)
(* at which the file system is modelled.                                   *)
(***************************************************************************)
EXTENDS Integers, FiniteSets, SequencesExt

CONSTANT Byte  \* the bytes that occur in paths

\* UTF-8 has no byte above 244.
ASSUME ByteAssumption == Byte \subseteq 0..244

Slash == 47
\* The white space of one byte.
Blank == 9..13 \cup {32}

\* validate.
Valid(s) ==
  /\ s # <<>>
  /\ 0 \notin Range(s)
  /\ {s[1], s[Len(s)]} \cap (Blank \cup {Slash}) = {}

-----------------------------------------------------------------------------
(* The range of a prefix.                                                  *)

\* How the database orders two blobs: by the first byte in which they differ,
\* and a prefix before what it is a prefix of.
Less(s, t) ==
  \E i \in 1..Len(t) :
    /\ i <= Len(s) + 1
    /\ \A j \in 1..(i - 1) : s[j] = t[j]
    /\ i <= Len(s) => s[i] < t[i]

\* The end of prefix_range: the last byte incremented, by wrapping_add.
RangeEnd(p) ==
  IF p = <<>> THEN <<255>> ELSE [p EXCEPT ![Len(p)] = (@ + 1) % 256]

\* path >= start AND path < end.
InRange(s, p) == ~Less(s, p) /\ Less(s, RangeEnd(p))

-----------------------------------------------------------------------------
(* list_folder.                                                            *)

\* Fault: the prefix of a folder is its name.
NameAsPrefix(f) == f

\* The prefix of the paths in folder f; the root has the empty name.
FolderPrefix(f) == IF f = <<>> THEN f ELSE Append(f, Slash)

\* What follows the first n bytes of s and the slashes after them.
Rest(s, n) ==
  LET tail  == SubSeq(s, n + 1, Len(s))
      other == SelectInSeq(tail, LAMBDA b : b # Slash)
  IN  IF other = 0 THEN <<>> ELSE SubSeq(tail, other, Len(tail))

\* The bytes up to the first slash.
Component(s) ==
  LET i == SelectInSeq(s, LAMBDA b : b = Slash)
  IN  IF i = 0 THEN s ELSE SubSeq(s, 1, i - 1)

Line(path, kind) == [path |-> path, kind |-> kind]

\* For each component of the rows in folder f how many rows it has: more than
\* one, or none of the path itself, make it a common prefix.
ListFolder(rows, f) ==
  LET entries == {r \in rows : InRange(r.path, FolderPrefix(f))}
      full(r) == FolderPrefix(f) \o Component(Rest(r.path, Len(f)))
      leaf(r) == Component(Rest(r.path, Len(f))) = Rest(r.path, Len(f))
      of(c)   == {r \in entries : full(r) = c}
  IN  {Line(c, IF Cardinality(of(c)) > 1 \/ ~\E r \in of(c) : leaf(r)
               THEN "prefix" ELSE "path") : c \in {full(r) : r \in entries}}
=============================================================================
