--------------------------- MODULE BloxtreeReader ---------------------------
(***************************************************************************)
(* BloxtreeReader (reader.rs): a file that is hashed while it is read, and *)
(* whose hash is compared with the expected one where it ends.             *)
(*                                                                         *)
(* A content stands for its own hash, so the hasher is the sequence of     *)
(* bytes it was updated with.                                              *)
(***************************************************************************)
EXTENDS Integers, SequencesExt

CONSTANTS
  Content,  \* the contents of blobs: finite sequences
  Buffer    \* the sizes of the buffers that the reader is called with

ASSUME ReaderAssumption ==
  Content # {} /\ (\A c \in Content : c \in Seq(Range(c))) /\ Buffer \subseteq Nat

VARIABLE reader

Pieces == UNION {Prefixes(c) : c \in Content}

\* BloxtreeReader::new for a file of these bytes.
New(bytes, hash) ==
  [inner |-> bytes, hasher |-> <<>>, expected |-> hash, verified |-> FALSE]

\* How many bytes inner.read may put into a buffer of n: at least one, if the
\* file has one and the buffer has room for it.
Counts(n) ==
  {k \in 0..n : k <= Len(reader.inner) /\ (k = 0 <=> n = 0 \/ reader.inner = <<>>)}

Taken(k) == SubSeq(reader.inner, 1, k)

\* Fault: `&& self.verified`.
MismatchVerified(k) == k = 0 /\ reader.verified /\ reader.hasher # reader.expected

\* read returns HashMismatch, and changes nothing.
Mismatch(k) == k = 0 /\ ~reader.verified /\ reader.hasher # reader.expected

\* The reader after a read that returned k bytes.
Advance(k) ==
  IF k = 0 /\ ~reader.verified THEN [reader EXCEPT !.verified = TRUE]
  ELSE [reader EXCEPT !.inner = SubSeq(@, k + 1, Len(@)), !.hasher = @ \o Taken(k)]
=============================================================================
