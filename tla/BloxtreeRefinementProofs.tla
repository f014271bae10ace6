---------------------- MODULE BloxtreeRefinementProofs ----------------------
(***************************************************************************)
(* One open handle of the engine implements VersionStore, for any paths,   *)
(* contents, calls and bounds: every step maps to a step of the abstract   *)
(* store or to a stutter.                                                  *)
(***************************************************************************)
EXTENDS BloxtreeRefinement, BloxtreeReclaimProofs

-----------------------------------------------------------------------------
(* The rows of one path, in the order of their ids.                        *)

Newer(R, r) == {o \in R : o.uuid > r.uuid}
Rank(R, r) == Cardinality(Newer(R, r))

\* HistoryOf, for any set of rows.
Hist(R) ==
  [i \in 1..Cardinality(R) |-> (CHOOSE r \in R : Rank(R, r) = i - 1).hash]

\* The ids of different rows differ: the rows have an order.
Ordered(R) ==
  /\ IsFiniteSet(R)
  /\ \A r \in R : r.uuid \in Nat /\ r.hash \in Hash
  /\ \A r, s \in R : r.uuid = s.uuid => r = s

LEMMA RankType ==
  ASSUME NEW R, Ordered(R), NEW r \in R
  PROVE  Rank(R, r) \in 0..(Cardinality(R) - 1)
<1> DEFINE N == Newer(R, r)
<1>1. N \in SUBSET R /\ r \notin N
  BY DEF Newer, Ordered
<1>2. IsFiniteSet(R) /\ Cardinality(R) \in Nat
  BY FS_CardinalityType DEF Ordered
<1> HIDE DEF N
<1>3. IsFiniteSet(N) /\ Cardinality(N) <= Cardinality(R) /\ Cardinality(N) # Cardinality(R)
  BY <1>1, <1>2, FS_Subset
<1>4. Cardinality(N) \in Nat
  BY <1>3, FS_CardinalityType
<1> QED
  BY <1>2, <1>3, <1>4 DEF Rank, N

LEMMA RankOrder ==
  ASSUME NEW R, Ordered(R), NEW r \in R, NEW s \in R, r.uuid < s.uuid
  PROVE  Rank(R, s) < Rank(R, r)
<1> DEFINE M == Newer(R, s)
           N == Newer(R, r)
<1>0. \A o \in R : o.uuid \in Nat
  BY DEF Ordered
<1>1. M \in SUBSET N /\ s \in N /\ s \notin M /\ N \in SUBSET R
  BY <1>0 DEF Newer
<1> HIDE DEF M, N
<1>2. IsFiniteSet(N)
  BY <1>1, FS_Subset DEF Ordered
<1>3. IsFiniteSet(M) /\ Cardinality(M) <= Cardinality(N) /\ Cardinality(M) # Cardinality(N)
  BY <1>1, <1>2, FS_Subset
<1>4. Cardinality(M) \in Nat /\ Cardinality(N) \in Nat
  BY <1>2, <1>3, FS_CardinalityType
<1> QED
  BY <1>3, <1>4 DEF Rank, M, N

LEMMA RankInjective ==
  ASSUME NEW R, Ordered(R), NEW r \in R, NEW s \in R, Rank(R, r) = Rank(R, s)
  PROVE  r = s
<1>1. r.uuid \in Nat /\ s.uuid \in Nat
  BY DEF Ordered
<1>2. Rank(R, r) \in Nat /\ Rank(R, s) \in Nat
  BY RankType
<1>3. ~(r.uuid < s.uuid) /\ ~(s.uuid < r.uuid)
  BY <1>2, RankOrder
<1> QED
  BY <1>1, <1>3 DEF Ordered

\* Every place of the order is taken.
LEMMA RankSurjective ==
  ASSUME NEW R, Ordered(R), NEW i \in 1..Cardinality(R)
  PROVE  \E r \in R : Rank(R, r) = i - 1
<1> DEFINE n == Cardinality(R)
           T == 0..(n - 1)
           f == [r \in R |-> Rank(R, r)]
<1>1. n \in Nat /\ IsFiniteSet(R)
  BY FS_CardinalityType DEF Ordered
<1>2. IsFiniteSet(T) /\ Cardinality(T) = n
  <2>1. 0 \in Int /\ n - 1 \in Int
    BY <1>1
  <2>2. IsFiniteSet(T) /\ Cardinality(T) = IF 0 > n - 1 THEN 0 ELSE (n - 1) - 0 + 1
    BY <2>1, FS_Interval
  <2> HIDE DEF T
  <2> QED
    BY <1>1, <2>2
<1>3. f \in Injection(R, T)
  BY RankType, RankInjective DEF Injection, IsInjective
<1> HIDE DEF f, T
<1>4. f \in Surjection(R, T)
  BY <1>1, <1>2, <1>3, FS_Injection
<1>5. i - 1 \in T
  BY <1>1 DEF T
<1>6. PICK r \in R : f[r] = i - 1
  BY <1>4, <1>5 DEF Surjection
<1> QED
  BY <1>6 DEF f

\* A history lists the hash of each row at its place, and nothing else.
LEMMA HistPlaces ==
  ASSUME NEW R, Ordered(R)
  PROVE  /\ Hist(R) \in Seq(Hash)
         /\ Len(Hist(R)) = Cardinality(R)
         /\ \A r \in R : Hist(R)[Rank(R, r) + 1] = r.hash
<1> DEFINE n == Cardinality(R)
           At_(i) == CHOOSE r \in R : Rank(R, r) = i - 1
<1>1. n \in Nat
  BY FS_CardinalityType DEF Ordered
<1>2. \A i \in 1..n : At_(i) \in R /\ Rank(R, At_(i)) = i - 1
  BY RankSurjective
<1>3. Hist(R) = [i \in 1..n |-> At_(i).hash]
  BY DEF Hist
<1> HIDE DEF At_
<1>4. Hist(R) \in [1..n -> Hash]
  BY <1>2, <1>3 DEF Ordered
<1>5. ASSUME NEW r \in R PROVE Hist(R)[Rank(R, r) + 1] = r.hash
  <2>1. Rank(R, r) + 1 \in 1..n /\ (Rank(R, r) + 1) - 1 = Rank(R, r)
    BY <1>1, RankType
  <2>2. At_(Rank(R, r) + 1) = r
    BY <1>2, <2>1, RankInjective
  <2> QED
    BY <1>3, <2>1, <2>2
<1> QED
  BY <1>1, <1>4, <1>5, FunctionIsSeq

LEMMA HistUnique ==
  ASSUME NEW R, Ordered(R), NEW t \in Seq(Hash), Len(t) = Cardinality(R),
         \A r \in R : t[Rank(R, r) + 1] = r.hash
  PROVE  t = Hist(R)
<1>1. Hist(R) \in Seq(Hash) /\ Len(Hist(R)) = Len(t)
  BY HistPlaces
<1>2. ASSUME NEW i \in 1..Len(t) PROVE t[i] = Hist(R)[i]
  <2>1. PICK r \in R : Rank(R, r) = i - 1
    BY RankSurjective
  <2>2. Rank(R, r) + 1 = i
    BY <2>1
  <2> QED
    BY <2>2, HistPlaces
<1> QED
  BY <1>1, <1>2, SeqEqual

-----------------------------------------------------------------------------
(* What happens to a history when its rows change.                         *)

LEMMA HistEmpty ==
  ASSUME NEW R, Ordered(R)
  PROVE  Hist(R) = <<>> <=> R = {}
<1>1. Cardinality(R) = 0 <=> R = {}
  BY FS_EmptySet DEF Ordered
<1>2. Hist(R) \in Seq(Hash) /\ Len(Hist(R)) = Cardinality(R)
  BY HistPlaces
<1>3. Hist(R) = <<>> <=> Len(Hist(R)) = 0
  BY <1>2, EmptySeq
<1> QED
  BY <1>1, <1>2, <1>3

\* The newest row is the head.
LEMMA HistHead ==
  ASSUME NEW R, Ordered(R), NEW r \in R, \A o \in R : o.uuid <= r.uuid
  PROVE  Hist(R) # <<>> /\ Head(Hist(R)) = r.hash
<1>1. \A o \in R : o.uuid \in Nat
  BY DEF Ordered
<1>2. Newer(R, r) = {}
  BY <1>1 DEF Newer
<1>3. Rank(R, r) = 0
  BY <1>2, FS_EmptySet DEF Rank
<1>4. Hist(R)[Rank(R, r) + 1] = r.hash /\ Hist(R) \in Seq(Hash)
  BY HistPlaces
<1>5. Hist(R)[1] = r.hash
  BY <1>3, <1>4
<1>6. Hist(R) # <<>>
  BY HistEmpty
<1> QED
  BY <1>4, <1>5, <1>6

\* A row with a new id goes on top.
LEMMA HistAdd ==
  ASSUME NEW R, Ordered(R), NEW d, d.uuid \in Nat, d.hash \in Hash,
         \A o \in R : o.uuid < d.uuid
  PROVE  Ordered(R \cup {d}) /\ Hist(R \cup {d}) = <<d.hash>> \o Hist(R)
<1> DEFINE Q == R \cup {d}
           n == Cardinality(R)
           t == <<d.hash>> \o Hist(R)
<1>0. IsFiniteSet(R) /\ n \in Nat /\ \A o \in R : o.uuid \in Nat /\ o.hash \in Hash
  BY FS_CardinalityType DEF Ordered
<1>1. d \notin R
  BY <1>0
<1>2. IsFiniteSet(Q) /\ Cardinality(Q) = n + 1
  BY <1>0, <1>1, FS_AddElement
<1>3. Ordered(Q)
  BY <1>0, <1>2 DEF Ordered
<1>4. Rank(Q, d) = 0
  <2>1. Newer(Q, d) = {}
    BY <1>0 DEF Newer
  <2> QED
    BY <2>1, FS_EmptySet DEF Rank
<1>5. ASSUME NEW r \in R PROVE Rank(Q, r) = Rank(R, r) + 1
  <2> DEFINE N == Newer(R, r)
  <2>1. Newer(Q, r) = N \cup {d} /\ d \notin N /\ N \in SUBSET R
    BY <1>0, <1>1 DEF Newer
  <2> HIDE DEF N
  <2>2. Cardinality(N \cup {d}) = Cardinality(N) + 1
    BY <1>0, <2>1, FS_Subset, FS_AddElement
  <2> QED
    BY <2>1, <2>2 DEF Rank, N
<1>6. Hist(R) \in Seq(Hash) /\ Len(Hist(R)) = n /\ \A r \in R : Hist(R)[Rank(R, r) + 1] = r.hash
  BY HistPlaces
<1>7. /\ t \in Seq(Hash) /\ Len(t) = n + 1 /\ t[1] = d.hash
      /\ \A i \in 1..n : t[i + 1] = Hist(R)[i]
  BY <1>0, <1>6
<1>8. ASSUME NEW r \in Q PROVE t[Rank(Q, r) + 1] = r.hash
  <2>1. CASE r = d
    BY <1>4, <1>7, <2>1
  <2>2. CASE r \in R
    <3>1. Rank(R, r) + 1 \in 1..n
      BY <1>0, <2>2, RankType
    <3>2. t[(Rank(R, r) + 1) + 1] = Hist(R)[Rank(R, r) + 1]
      BY <1>7, <3>1
    <3> QED
      BY <1>5, <1>6, <2>2, <3>2
  <2> QED
    BY <2>1, <2>2
<1> HIDE DEF Q, t
<1>9. t = Hist(Q)
  BY <1>2, <1>3, <1>7, <1>8, HistUnique
<1> QED
  BY <1>3, <1>9 DEF Q, t

\* A row that goes leaves its place to the next.
LEMMA HistDrop ==
  ASSUME NEW R, Ordered(R), NEW d \in R
  PROVE  /\ Ordered(R \ {d})
         /\ Rank(R, d) + 1 \in 1..Len(Hist(R))
         /\ Hist(R \ {d}) = Store!Drop(Hist(R), Rank(R, d) + 1)
<1> DEFINE Q == R \ {d}
           n == Cardinality(R)
           s == Hist(R)
           k == Rank(R, d) + 1
           t == Store!Drop(s, k)
<1>0. IsFiniteSet(R) /\ n \in Nat /\ \A o \in R : o.uuid \in Nat /\ o.hash \in Hash
  BY FS_CardinalityType DEF Ordered
<1>1. IsFiniteSet(Q) /\ Cardinality(Q) = n - 1
  BY <1>0, FS_RemoveElement
<1>2. Ordered(Q)
  BY <1>0, <1>1 DEF Ordered
<1>3. s \in Seq(Hash) /\ Len(s) = n /\ \A r \in R : s[Rank(R, r) + 1] = r.hash
  BY HistPlaces
<1>4. k \in 1..n
  BY <1>0, RankType
<1>5. \A r \in Q : Rank(R, r) \in 0..(n - 1)
  BY RankType
<1>6. ASSUME NEW r \in Q
      PROVE  IF Rank(R, r) + 1 < k THEN Rank(Q, r) = Rank(R, r)
             ELSE Rank(Q, r) = Rank(R, r) - 1 /\ Rank(R, r) + 1 > k
  <2> DEFINE N == Newer(R, r)
  <2>1. N \in SUBSET R /\ Newer(Q, r) = N \ {d}
    BY DEF Newer
  <2>2. r.uuid # d.uuid /\ r.uuid \in Nat /\ d.uuid \in Nat
    BY <1>0 DEF Ordered
  <2>3. d \in N <=> r.uuid < d.uuid
    BY <2>2 DEF Newer
  <2>4. /\ r.uuid < d.uuid => Rank(R, d) < Rank(R, r)
        /\ d.uuid < r.uuid => Rank(R, r) < Rank(R, d)
    BY RankOrder
  <2> HIDE DEF N
  <2>5. IsFiniteSet(N)
    BY <1>0, <2>1, FS_Subset
  <2>6. Cardinality(N \ {d}) = IF d \in N THEN Cardinality(N) - 1 ELSE Cardinality(N)
    BY <2>5, FS_RemoveElement
  <2>7. Rank(Q, r) = IF d \in N THEN Rank(R, r) - 1 ELSE Rank(R, r)
    BY <2>1, <2>6 DEF Rank, N
  <2>8. Rank(R, r) \in Nat /\ Rank(R, d) \in Nat
    BY RankType
  <2> QED
    BY <2>2, <2>3, <2>4, <2>7, <2>8
<1>7. /\ t \in Seq(Hash) /\ Len(t) = n - 1
      /\ \A i \in 1..(n - 1) : t[i] = IF i < k THEN s[i] ELSE s[i + 1]
  <2> DEFINE a == SubSeq(s, 1, k - 1)
             b == SubSeq(s, k + 1, n)
  <2>1. k \in Nat /\ k >= 1 /\ k <= n
    BY <1>0, <1>4
  <2> HIDE DEF k, s
  <2>2. a \in Seq(Hash) /\ Len(a) = k - 1 /\ \A i \in 1..(k - 1) : a[i] = s[i]
    BY <1>0, <1>3, <2>1
  <2>3. b \in Seq(Hash) /\ Len(b) = n - k /\ \A i \in 1..(n - k) : b[i] = s[k + i]
    BY <1>0, <1>3, <2>1
  <2>4. t = a \o b
    BY <1>3 DEF Store!Drop
  <2> HIDE DEF a, b, t, n
  <2>5. t \in Seq(Hash) /\ Len(t) = n - 1
    <3>1. t \in Seq(Hash) /\ Len(t) = Len(a) + Len(b)
      BY <2>2, <2>3, <2>4, ConcatProperties
    <3> QED
      BY <1>0, <2>1, <2>2, <2>3, <3>1
  <2>6. ASSUME NEW i \in 1..(n - 1) PROVE t[i] = IF i < k THEN s[i] ELSE s[i + 1]
    <3>1. CASE i < k
      BY <1>0, <2>1, <2>2, <2>3, <2>4, <3>1
    <3>2. CASE i >= k
      <4>1. i - (k - 1) \in 1..(n - k) /\ k + (i - (k - 1)) = i + 1
        BY <1>0, <2>1, <3>2
      <4>2. t[i] = b[i - (k - 1)]
        BY <1>0, <2>1, <2>2, <2>3, <2>4, <3>2, <4>1
      <4> QED
        BY <2>1, <2>3, <3>2, <4>1, <4>2
    <3> QED
      BY <2>1, <3>1, <3>2
  <2> QED
    BY <1>0, <2>1, <2>5, <2>6
<1>8. ASSUME NEW r \in Q PROVE t[Rank(Q, r) + 1] = r.hash
  <2>1. Rank(R, r) \in 0..(n - 1) /\ r \in R
    BY <1>5
  <2>2. s[Rank(R, r) + 1] = r.hash
    BY <1>3, <2>1
  <2> HIDE DEF k, s, t
  <2>3. CASE Rank(R, r) + 1 < k
    <3> HIDE DEF n
    <3>0. Rank(Q, r) = Rank(R, r)
      BY <1>6, <2>3
    <3>1. Rank(Q, r) + 1 \in 1..(n - 1) /\ Rank(Q, r) + 1 < k /\ Rank(Q, r) = Rank(R, r)
      BY <1>0, <1>4, <2>1, <2>3, <3>0
    <3> QED
      BY <1>7, <2>2, <3>1
  <2>4. CASE ~(Rank(R, r) + 1 < k)
    <3>1. /\ Rank(Q, r) + 1 \in 1..(n - 1) /\ ~(Rank(Q, r) + 1 < k)
          /\ (Rank(Q, r) + 1) + 1 = Rank(R, r) + 1
      BY <1>0, <1>4, <1>6, <2>1, <2>4
    <3> QED
      BY <1>7, <2>2, <3>1
  <2> QED
    BY <2>3, <2>4
<1> HIDE DEF Q, t, k, s
<1>9. t = Hist(Q)
  BY <1>1, <1>2, <1>7, <1>8, HistUnique
<1> QED
  BY <1>2, <1>3, <1>4, <1>9 DEF Q, t, k, s

LEMMA HistRange ==
  ASSUME NEW R, Ordered(R), NEW h \in Range(Hist(R))
  PROVE  \E r \in R : r.hash = h
<1>1. Hist(R) \in Seq(Hash) /\ Len(Hist(R)) = Cardinality(R)
  BY HistPlaces
<1>2. PICK i \in 1..Cardinality(R) : Hist(R)[i] = h
  BY <1>1 DEF Range
<1>3. PICK r \in R : Rank(R, r) = i - 1
  BY RankSurjective
<1>4. Rank(R, r) + 1 = i
  BY <1>3
<1> QED
  BY <1>2, <1>4, HistPlaces

-----------------------------------------------------------------------------
(* What holds while only one process has the store open.                   *)

Keyed(R) == \A r, s \in R : r.uuid = s.uuid => r.hash = s.hash

\* Nothing has changed since the one process looked.
Solo ==
  /\ Keyed(rows)
  /\ \A q \in Proc :
       /\ call[q].pc = "insert" => \A r \in rows : r.uuid < call[q].uuid
       /\ call[q].pc \in Reading =>
            \E x \in Path : /\ call[q].target = {x}
                            /\ \E r \in Latest(x) : r.hash = call[q].hash
       /\ call[q].pc = "trim_delete" => \E x \in Path : call[q].target = {x}
       /\ call[q].pc # "idle" => call[q].reply = "unit"

LEMMA SoloInit == Init => Solo
<1> SUFFICES ASSUME Init PROVE Solo
  OBVIOUS
<1>1. Keyed(rows)
  BY DEF Init, Keyed
<1>2. \A q \in Proc : call[q].pc = "idle"
  BY DEF Init, NoCall
<1> QED
  BY <1>1, <1>2 DEF Solo, Reading

\* A step that adds no row and leaves no claim about the rows.
LEMMA SoloByCall ==
  ASSUME Solo, NEW p, Proc = {p}, rows' \in SUBSET rows,
         call'[p].pc # "insert", call'[p].pc \notin Reading,
         call'[p].pc = "trim_delete" => \E x \in Path : call'[p].target = {x},
         call'[p].pc # "idle" => call'[p].reply = "unit"
  PROVE  Solo'
<1>1. Keyed(rows)'
  BY DEF Solo, Keyed
<1> QED
  BY <1>1 DEF Solo

\* No step but those of reads leaves an answer.
LEMMA Silent ==
  ASSUME TypeInv, Solo, NEW p \in Proc,
         \/ AddReader(p) \/ Persist(p) \/ NowV7(p) \/ InsertEntries(p)
         \/ RemovePath(p) \/ RemoveVersion(p) \/ RemoveFolder(p) \/ TrimPath(p)
         \/ RemoveNext(p) \/ DeleteAll(p) \/ TrimDelete(p) \/ Count(p) \/ Unlink(p)
         \/ Interrupt(p)
  PROVE  call'[p].reply = "unit"
<1>1. call \in [Proc -> Call] /\ call[p] \in Call
  BY DEF TypeInv, TypeOK
<1>2. ASSUME NEW c, Goto(p, c) PROVE call'[p] = c
  BY <1>1, <1>2 DEF Goto
<1>3. NoCall.reply = "unit" /\ NoCall \in Call
  BY NoCallType DEF NoCall, LoadedCall
<1>4. CASE AddReader(p) \/ RemovePath(p) \/ RemoveVersion(p) \/ TrimPath(p)
           \/ InsertEntries(p) \/ Interrupt(p)
  <2>1. CASE AddReader(p)
    <3>1. PICK ps \in (SUBSET Path) \ {{}}, h \in Hash :
            Goto(p, [NoCall EXCEPT !.pc = IF h \in blobs THEN "uuid" ELSE "persist",
                                   !.target = ps, !.hash = h])
      BY <2>1 DEF AddReader
    <3> QED
      BY <1>1, <3>1 DEF Goto, NoCall
  <2>2. CASE RemovePath(p)
    <3>1. PICK x \in Path : SelectHashes(p, [NoCall EXCEPT !.target = {x}, !.todo = <<x>>])
      BY <2>2 DEF RemovePath
    <3>2. PICK hs : Goto(p, [[NoCall EXCEPT !.target = {x}, !.todo = <<x>>]
                               EXCEPT !.pc = "delete_all", !.deleted = hs])
      BY <3>1 DEF SelectHashes
    <3> QED
      BY <1>2, <3>2 DEF NoCall
  <2>3. CASE RemoveVersion(p)
    <3>1. PICK x \in Path, h \in Hash :
            Goto(p, IF OldestMatch(x, h) = {} THEN NoCall
                    ELSE [NoCall EXCEPT !.pc = "count", !.deleted = <<h>>])
      BY <2>3 DEF RemoveVersion
    <3> QED
      BY <1>1, <3>1 DEF Goto, NoCall
  <2>4. CASE TrimPath(p)
    <3>1. PICK x \in Path, k \in 1..MaxKeep : \E s \in Orderings(RowsOf(x)) :
            Goto(p, IF Len(s) <= k THEN NoCall
                    ELSE [NoCall EXCEPT !.pc = "trim_delete", !.target = {x}, !.keep = k,
                            !.victims = [i \in 1..(Len(s) - k) |-> s[k + i].hash]])
      BY <2>4 DEF TrimPath
    <3> QED
      BY <1>1, <3>1 DEF Goto, NoCall
  <2>5. CASE InsertEntries(p) \/ Interrupt(p)
    BY <1>2, <1>3, <2>5 DEF InsertEntries, Interrupt
  <2> QED
    BY <1>4, <2>1, <2>2, <2>3, <2>4, <2>5
<1>5. CASE RemoveFolder(p)
  <2>1. PICK f \in Folders : \E s \in Listings(f) :
          Goto(p, Continue([NoCall EXCEPT !.target = f, !.todo = s]))
    BY <1>5 DEF RemoveFolder
  <2>2. PICK s \in Listings(f) : Goto(p, Continue([NoCall EXCEPT !.target = f, !.todo = s]))
    BY <2>1
  <2>3. call'[p] = Continue([NoCall EXCEPT !.target = f, !.todo = s])
    BY <1>2, <2>2
  <2> QED
    BY <2>3 DEF Continue, NoCall
<1>6. CASE Persist(p) \/ NowV7(p) \/ RemoveNext(p) \/ DeleteAll(p) \/ TrimDelete(p)
           \/ Count(p) \/ Unlink(p)
  <2>0. call[p].reply = "unit"
    BY <1>6 DEF Persist, NowV7, RemoveNext, DeleteAll, TrimDelete, Count, Unlink, At, Solo
  <2>1. CASE Persist(p) \/ NowV7(p) \/ RemoveNext(p)
    <3>1. CASE Persist(p)
      <4>1. call'[p] = [call[p] EXCEPT !.pc = "uuid"]
        BY <1>2, <3>1 DEF Persist
      <4> QED
        BY <1>1, <2>0, <4>1 DEF Call
    <3>2. CASE NowV7(p)
      BY <1>1, <2>0, <3>2 DEF NowV7, Goto, Call
    <3>3. CASE RemoveNext(p)
      <4>1. PICK hs : Goto(p, [call[p] EXCEPT !.pc = "delete_all", !.deleted = hs])
        BY <3>3 DEF RemoveNext, SelectHashes
      <4>2. call'[p] = [call[p] EXCEPT !.pc = "delete_all", !.deleted = hs]
        BY <1>2, <4>1
      <4> QED
        BY <1>1, <2>0, <4>2 DEF Call
    <3> QED
      BY <2>1, <3>1, <3>2, <3>3
  <2>2. CASE DeleteAll(p)
    <3> DEFINE c == [call[p] EXCEPT !.todo = Tail(@)]
    <3>1. c.reply = "unit"
      BY <1>1, <2>0 DEF Call
    <3>2. call'[p] = Continue(c)
      BY <1>2, <2>2 DEF DeleteAll
    <3> QED
      BY <1>1, <3>1, <3>2 DEF Continue, NoCall, Call
  <2>3. CASE TrimDelete(p)
    <3> DEFINE h    == Head(call[p].victims)
               gone == UNION {OldestMatch(x, h) : x \in call[p].target}
               c    == [call[p] EXCEPT !.victims = Tail(@),
                          !.deleted = IF gone = {} THEN @ ELSE Append(@, h)]
    <3>1. c.reply = "unit"
      BY <1>1, <2>0 DEF Call
    <3>2. Goto(p, IF c.victims # <<>> THEN c ELSE Continue(c))
      BY <2>3 DEF TrimDelete
    <3>3. /\ [c EXCEPT !.pc = "count"].reply = c.reply
          /\ [c EXCEPT !.pc = "folder"].reply = c.reply
      BY <1>1 DEF Call
    <3> HIDE DEF c
    <3>4. Continue(c).reply = "unit"
      BY <1>3, <3>1, <3>3 DEF Continue
    <3>5. call'[p] = c \/ call'[p] = Continue(c)
      BY <1>1, <3>2 DEF Goto
    <3> QED
      BY <3>1, <3>4, <3>5
  <2>4. CASE Count(p) \/ Unlink(p)
    <3> DEFINE c == [call[p] EXCEPT !.deleted = Tail(@)]
    <3>1. c.reply = "unit"
      BY <1>1, <2>0 DEF Call
    <3>2. call'[p] = Continue(c) \/ call'[p] = [call[p] EXCEPT !.pc = "unlink"]
      BY <1>2, <2>4 DEF Count, Unlink
    <3>3. /\ [c EXCEPT !.pc = "count"].reply = c.reply
          /\ [c EXCEPT !.pc = "folder"].reply = c.reply
          /\ [call[p] EXCEPT !.pc = "unlink"].reply = "unit"
      BY <1>1, <2>0 DEF Call
    <3> HIDE DEF c
    <3>4. Continue(c).reply = "unit"
      BY <1>3, <3>1, <3>3 DEF Continue
    <3> QED
      BY <3>2, <3>3, <3>4
  <2> QED
    BY <1>6, <2>1, <2>2, <2>3, <2>4
<1> QED
  BY <1>4, <1>5, <1>6

\* Where a trim and a read under way come from.
LEMMA TrimTarget ==
  ASSUME TypeInv, Solo, NEW p \in Proc, TrimPath(p) \/ TrimDelete(p),
         call'[p].pc = "trim_delete"
  PROVE  \E x \in Path : call'[p].target = {x}
<1>1. call \in [Proc -> Call] /\ call[p] \in Call
  BY DEF TypeInv, TypeOK
<1>2. CASE TrimPath(p)
  <2>1. PICK x \in Path, k \in 1..MaxKeep : \E s \in Orderings(RowsOf(x)) :
          Goto(p, IF Len(s) <= k THEN NoCall
                  ELSE [NoCall EXCEPT !.pc = "trim_delete", !.target = {x}, !.keep = k,
                          !.victims = [i \in 1..(Len(s) - k) |-> s[k + i].hash]])
    BY <1>2 DEF TrimPath
  <2>2. call'[p].pc = "trim_delete" => call'[p].target = {x}
    BY <1>1, <2>1 DEF Goto, NoCall
  <2> QED
    BY <2>2
<1>3. CASE TrimDelete(p)
  <2> DEFINE h    == Head(call[p].victims)
             gone == UNION {OldestMatch(x, h) : x \in call[p].target}
             c    == [call[p] EXCEPT !.victims = Tail(@),
                        !.deleted = IF gone = {} THEN @ ELSE Append(@, h)]
  <2>1. Goto(p, IF c.victims # <<>> THEN c ELSE Continue(c))
    BY <1>3 DEF TrimDelete
  <2>2. c.target = call[p].target /\ "pc" \in DOMAIN c
    BY <1>1 DEF Call
  <2> HIDE DEF c
  <2>3. Continue(c).pc # "trim_delete"
    BY <2>2, ContinuePc
  <2>4. call'[p] = c
    BY <1>1, <2>1, <2>3 DEF Goto
  <2>5. call[p].pc = "trim_delete"
    BY <1>3 DEF TrimDelete, At
  <2> QED
    BY <2>2, <2>4, <2>5 DEF Solo
<1> QED
  BY <1>2, <1>3

\* What get_latest finds.
LEMMA LookedUp ==
  ASSUME TypeInv, NEW p \in Proc, GetLatest(p)
  PROVE  \E x \in Path :
           /\ call'[p].target = {x}
           /\ \/ /\ RowsOf(x) = {} /\ call'[p].hash = NoHash
                 /\ call'[p].reply = "none" /\ call'[p].pc = "idle"
              \/ /\ \E r \in Latest(x) : r.hash = call'[p].hash
                 /\ call'[p].reply = "unit" /\ call'[p].pc \in {"open", "stat"}
<1>1. call \in [Proc -> Call]
  BY DEF TypeInv, TypeOK
<1>2. PICK op \in {"get", "stat"}, x \in Path :
        \/ RowsOf(x) = {} /\ Return(p, "none", {x}, NoHash)
        \/ \E r \in Latest(x) :
             Goto(p, [NoCall EXCEPT !.pc = IF op = "get" THEN "open" ELSE "stat",
                                    !.target = {x}, !.hash = r.hash])
  BY DEF GetLatest
<1>3. CASE RowsOf(x) = {} /\ Return(p, "none", {x}, NoHash)
  BY <1>1, <1>3 DEF Return, Goto, NoCall
<1>4. ASSUME NEW r \in Latest(x),
             Goto(p, [NoCall EXCEPT !.pc = IF op = "get" THEN "open" ELSE "stat",
                                    !.target = {x}, !.hash = r.hash])
      PROVE  /\ call'[p].target = {x}
             /\ r.hash = call'[p].hash
             /\ call'[p].reply = "unit" /\ call'[p].pc \in {"open", "stat"}
  BY <1>1, <1>4 DEF Goto, NoCall
<1> QED
  BY <1>2, <1>3, <1>4

\* While there is one process, a read finds the blob and the row of the version
\* that it looked up.
LEMMA Found ==
  ASSUME TypeInv, Consistent, Solo, NEW p \in Proc, call[p].pc \in Reading
  PROVE  call[p].hash \in blobs /\ Refs(call[p].hash) # {}
<1>1. PICK x \in Path : \E r \in Latest(x) : r.hash = call[p].hash
  BY DEF Solo
<1>2. PICK r \in rows : r.hash = call[p].hash
  BY <1>1 DEF Latest, RowsOf
<1> QED
  BY <1>2 DEF Refs, Consistent, NoDangling

LEMMA SoloStep ==
  ASSUME NEW p, Proc = {p}
  PROVE  TypeInv /\ Consistent /\ Fresh /\ Solo /\ [Next]_vars => Solo'
<1> SUFFICES ASSUME TypeInv, Consistent, Fresh, Solo, [Next]_vars PROVE Solo'
  OBVIOUS
<1>0. p \in Proc /\ call \in [Proc -> Call] /\ call[p] \in Call
  BY DEF TypeInv, TypeOK
<1>1. CASE UNCHANGED vars
  BY <1>1 DEF vars, Solo, Keyed, Latest, RowsOf
<1>2. CASE AddReader(p) \/ Persist(p)
  <2>1. rows' = rows /\ call'[p].pc \in {"persist", "uuid"} /\ call'[p].reply = "unit"
    BY <1>0, <1>2, StartPc, StepPc, Silent DEF AddReader, Persist
  <2> QED
    BY <2>1, SoloByCall DEF Reading
<1>3. CASE NowV7(p)
  <2>1. /\ rows' = rows /\ call'[p].pc = "insert" /\ call'[p].reply = "unit"
        /\ call'[p].uuid = clock + 1
    BY <1>0, <1>3, StepPc, Silent DEF NowV7, Goto, Call
  <2>2. \A r \in rows : r.uuid < clock + 1
    <3>1. clock \in Nat /\ \A r \in rows : r.uuid \in Nat
      BY DEF TypeInv, TypeOK, Row
    <3> QED
      BY <3>1 DEF Fresh
  <2> QED
    BY <2>1, <2>2 DEF Solo, Keyed, Reading
<1>4. CASE InsertEntries(p)
  <2>1. call'[p].pc = "idle"
    BY <1>0, <1>4, StepPc
  <2>2. \A r \in rows' : r \in rows \/ (r.uuid = call[p].uuid /\ r.hash = call[p].hash)
    BY <1>4 DEF InsertEntries
  <2>3. \A r \in rows : r.uuid # call[p].uuid
    BY <1>0, <1>4 DEF InsertEntries, At, Fresh
  <2>4. Keyed(rows)'
    BY <2>2, <2>3 DEF Solo, Keyed
  <2> QED
    BY <2>1, <2>4 DEF Solo, Reading
<1>5. CASE RemovePath(p) \/ RemoveVersion(p) \/ RemoveFolder(p) \/ TrimPath(p)
           \/ RemoveNext(p) \/ DeleteAll(p) \/ TrimDelete(p) \/ Count(p) \/ Unlink(p)
           \/ Interrupt(p)
  <2>1. rows' \in SUBSET rows
    BY <1>5 DEF RemovePath, SelectHashes, RemoveVersion, RemoveFolder, TrimPath, RemoveNext,
       DeleteAll, TrimDelete, Count, Unlink, Interrupt
  <2>2. call'[p].reply = "unit"
    BY <1>0, <1>5, Silent
  <2>3. /\ call'[p].pc \notin Reading /\ call'[p].pc # "insert"
        /\ call'[p].pc = "trim_delete" => TrimPath(p) \/ TrimDelete(p)
    BY <1>0, <1>5, StartPc, StepPc DEF Reading
  <2>4. call'[p].pc = "trim_delete" => \E x \in Path : call'[p].target = {x}
    BY <1>0, <2>3, TrimTarget
  <2> QED
    BY <2>1, <2>2, <2>3, <2>4, SoloByCall
<1>6. CASE GetLatest(p)
  <2>1. rows' = rows
    BY <1>6 DEF GetLatest
  <2>2. /\ call'[p].pc \in {"idle", "open", "stat"}
        /\ call'[p].pc # "idle" =>
             /\ call'[p].reply = "unit"
             /\ \E x \in Path : call'[p].target = {x} /\ \E r \in Latest(x) : r.hash = call'[p].hash
    BY <1>0, <1>6, LookedUp
  <2>3. \A x : Latest(x)' = Latest(x)
    BY <2>1 DEF Latest, RowsOf
  <2> QED
    BY <2>1, <2>2, <2>3 DEF Solo, Keyed, Reading
<1>7. CASE StatBlob(p)
  <2>1. call[p].hash \in blobs /\ call[p].pc = "stat"
    BY <1>0, <1>7, Found DEF StatBlob, At, Reading
  <2>2. rows' = rows /\ call'[p] = [call[p] EXCEPT !.pc = "stat_count"]
    BY <1>0, <1>7, <2>1 DEF StatBlob, Goto
  <2>3. /\ call'[p].pc = "stat_count" /\ call'[p].reply = call[p].reply
        /\ call'[p].target = call[p].target /\ call'[p].hash = call[p].hash
    BY <1>0, <2>2 DEF Call
  <2>4. \A x : Latest(x)' = Latest(x)
    BY <2>2 DEF Latest, RowsOf
  <2>5. /\ call[p].reply = "unit"
        /\ \E x \in Path : call[p].target = {x} /\ \E r \in Latest(x) : r.hash = call[p].hash
    BY <1>0, <2>1 DEF Solo, Reading
  <2> QED
    BY <2>2, <2>3, <2>4, <2>5 DEF Solo, Keyed, Reading
<1>8. CASE GetReaderByHash(p) \/ OpenBlob(p) \/ StatCount(p)
  <2>1. rows' = rows /\ call'[p].pc = "idle"
    BY <1>0, <1>8, StartPc, StepPc DEF GetReaderByHash, OpenBlob, StatCount
  <2> QED
    BY <2>1, SoloByCall DEF Reading
<1> QED
  BY <1>1, <1>2, <1>3, <1>4, <1>5, <1>6, <1>7, <1>8 DEF Next, Start, Step

-----------------------------------------------------------------------------
(* The steps of the engine and those of the store.                         *)

LEMMA HistoryIs == \A x : HistoryOf(x) = Hist(RowsOf(x))
BY DEF HistoryOf, Hist, Rank, Newer

LEMMA HistoryBecomes == \A x : HistoryOf(x)' = Hist(RowsOf(x)')
BY DEF HistoryOf, Hist, Rank, Newer

LEMMA RowsOrdered ==
  ASSUME TypeInv, Solo, NEW x
  PROVE  Ordered(RowsOf(x))
<1>1. IsFiniteSet(RowsOf(x)) /\ RowsOf(x) \subseteq Row
  BY RowsOfFinite
<1>2. ASSUME NEW r \in RowsOf(x), NEW s \in RowsOf(x), r.uuid = s.uuid PROVE r = s
  <2>1. r \in Row /\ s \in Row /\ r.path = s.path /\ r.hash = s.hash
    BY <1>1, <1>2 DEF RowsOf, Solo, Keyed
  <2> QED
    BY <1>2, <2>1 DEF Row
<1> QED
  BY <1>1, <1>2 DEF Ordered, Row

\* The answer is that of the one process.
LEMMA OneAnswers ==
  ASSUME NEW p, Proc = {p}
  PROVE  (CHOOSE q \in Proc : TRUE) = p
OBVIOUS

\* A step that touches no row and leaves no answer is a stutter of the history.
LEMMA MapsToClear ==
  ASSUME NEW p, Proc = {p}, rows' = rows, call'[p].reply = "unit"
  PROVE  Store!Clear
<1>1. AnswerOf(call[p])' = NoAnswer
  BY DEF AnswerOf
<1>2. \A x : HistoryOf(x)' = HistoryOf(x)
  <2>1. \A x : RowsOf(x)' = RowsOf(x)
    BY DEF RowsOf
  <2> QED
    BY <2>1, HistoryIs, HistoryBecomes
<1> QED
  BY <1>1, <1>2, OneAnswers DEF Store!Clear

LEMMA MapsToAdd ==
  ASSUME TypeInv, Fresh, Solo, NEW p, Proc = {p}, InsertEntries(p)
  PROVE  \E ps \in (SUBSET Path) \ {{}}, h \in Hash : Store!Add(ps, h)
<1> DEFINE c == call[p]
           new(x) == [path |-> x, uuid |-> c.uuid, hash |-> c.hash]
           taken == {r.path : r \in {o \in rows : o.uuid = c.uuid}}
<1>0. p \in Proc /\ c \in Call /\ c.hash \in Hash /\ c.pc = "insert"
  BY DEF TypeInv, TypeOK, LoadedCall, Loaded, InsertEntries, At
<1>1. rows' = rows \cup {new(x) : x \in c.target \ taken}
  BY DEF InsertEntries
<1>2. \A r \in rows : r.uuid < c.uuid /\ r.uuid # c.uuid
  BY <1>0 DEF Solo, Fresh
<1>3. taken = {}
  BY <1>2
<1>4. c.target \in (SUBSET Path) \ {{}} /\ c.uuid \in Nat
  BY <1>0 DEF Call, Fresh
<1>5. AnswerOf(call[p])' = NoAnswer
  BY <1>0, Silent DEF AnswerOf
<1>6. ASSUME NEW x \in Path
      PROVE  HistoryOf(x)' = IF x \in c.target THEN <<c.hash>> \o HistoryOf(x) ELSE HistoryOf(x)
  <2>1. CASE x \in c.target
    <3>1. RowsOf(x)' = RowsOf(x) \cup {new(x)}
      BY <1>1, <1>3, <2>1 DEF RowsOf
    <3>2. Ordered(RowsOf(x)) /\ \A o \in RowsOf(x) : o.uuid < new(x).uuid
      BY <1>2, RowsOrdered DEF RowsOf
    <3>3. new(x).uuid \in Nat /\ new(x).hash = c.hash /\ new(x).hash \in Hash
      BY <1>0, <1>4
    <3> DEFINE d == new(x)
               R == RowsOf(x)
    <3> HIDE DEF new, d, R
    <3>4. Hist(R \cup {d}) = <<d.hash>> \o Hist(R)
      BY <3>2, <3>3, HistAdd DEF d, R
    <3> QED
      BY <2>1, <3>1, <3>3, <3>4, HistoryIs, HistoryBecomes DEF d, R
  <2>2. CASE x \notin c.target
    <3>1. RowsOf(x)' = RowsOf(x)
      BY <1>1, <1>3, <2>2 DEF RowsOf
    <3> QED
      BY <2>2, <3>1, HistoryIs, HistoryBecomes
  <2> QED
    BY <2>1, <2>2
<1> HIDE DEF c
<1>7. Store!Add(c.target, c.hash)
  BY <1>5, <1>6, OneAnswers DEF Store!Add
<1> QED
  BY <1>0, <1>4, <1>7

LEMMA MapsToRemovePath ==
  ASSUME TypeInv, Solo, NEW p, Proc = {p}, DeleteAll(p)
  PROVE  \E x \in Path : Store!RemovePath(x)
<1>1. p \in Proc
  OBVIOUS
<1>2. PICK x \in Path : rows' = rows \ RowsOf(x)
  <2>1. call[p].todo \in Seq(Path) /\ call[p].todo # <<>>
    BY <1>1 DEF TypeInv, LoadedCall, Loaded, Call, DeleteAll, At
  <2>2. Head(call[p].todo) \in Path
    BY <2>1
  <2> QED
    BY <2>2 DEF DeleteAll
<1>3. AnswerOf(call[p])' = NoAnswer
  BY <1>1, Silent DEF AnswerOf
<1>4. RowsOf(x)' = {} /\ \A y : y # x => RowsOf(y)' = RowsOf(y)
  BY <1>2 DEF RowsOf
<1>5. Hist({}) = <<>>
  <2>1. Ordered({})
    BY FS_EmptySet DEF Ordered
  <2> QED
    BY <2>1, HistEmpty
<1>6. HistoryOf(x)' = <<>> /\ \A y : y # x => HistoryOf(y)' = HistoryOf(y)
  BY <1>4, <1>5, HistoryIs, HistoryBecomes
<1> QED
  BY <1>2, <1>3, <1>6, OneAnswers DEF Store!RemovePath

\* The row that a removal by hash takes is the oldest version with the hash.
LEMMA MapsToRemoveVersion ==
  ASSUME TypeInv, Solo, NEW p, Proc = {p}, NEW x \in Path, NEW h \in Hash,
         rows' = rows \ OldestMatch(x, h), call'[p].reply = "unit"
  PROVE  \/ Store!Clear
         \/ \E y \in Path : \E i \in 1..Len(HistoryOf(y)) : Store!RemoveVersion(y, i)
<1>1. CASE OldestMatch(x, h) = {}
  <2>1. rows' = rows
    BY <1>1
  <2> QED
    BY <2>1, MapsToClear
<1>2. CASE OldestMatch(x, h) # {}
  <2> DEFINE R == RowsOf(x)
  <2>1. PICK d \in R : d.hash = h /\ \A o \in R : o.hash = h => d.uuid <= o.uuid
    BY <1>2 DEF OldestMatch, RowsOf, Refs
  <2>2. Ordered(R)
    BY RowsOrdered
  <2>3. \A o \in R : o.uuid \in Nat
    BY <2>2 DEF Ordered
  <2>4. OldestMatch(x, h) = {d}
    <3>1. d \in OldestMatch(x, h)
      BY <2>1 DEF OldestMatch, RowsOf, Refs
    <3>2. ASSUME NEW o \in OldestMatch(x, h) PROVE o = d
      <4>1. o \in R /\ o.hash = h /\ o.uuid <= d.uuid
        BY <2>1 DEF OldestMatch, RowsOf, Refs
      <4>2. o.uuid = d.uuid
        BY <2>1, <2>3, <4>1
      <4> QED
        BY <2>2, <4>1, <4>2 DEF Ordered
    <3> QED
      BY <3>1, <3>2
  <2>5. RowsOf(x)' = R \ {d} /\ \A y : y # x => RowsOf(y)' = RowsOf(y)
    BY <2>1, <2>4 DEF RowsOf
  <2> DEFINE i == Rank(R, d) + 1
             s == Hist(R)
  <2> HIDE DEF R
  <2>6. i \in 1..Len(s) /\ Hist(R \ {d}) = Store!Drop(s, i)
    BY <2>1, <2>2, HistDrop
  <2>7. HistoryOf(x) = s /\ HistoryOf(x)' = Store!Drop(s, i)
    BY <2>5, <2>6, HistoryIs, HistoryBecomes DEF R
  <2>8. \A y : y # x => HistoryOf(y)' = HistoryOf(y)
    BY <2>5, HistoryIs, HistoryBecomes
  <2>9. s[i] = h /\ s \in Seq(Hash) /\ Len(s) = Cardinality(R)
    BY <2>1, <2>2, HistPlaces
  <2>10. ASSUME NEW j \in (i + 1)..Len(s) PROVE s[j] # h
    <3>1. i \in Nat /\ i >= 1 /\ j \in 1..Cardinality(R) /\ j > i
      BY <2>6, <2>9
    <3>2. PICK o \in R : Rank(R, o) = j - 1
      BY <2>2, <3>1, RankSurjective
    <3>3. s[j] = o.hash
      <4>1. Rank(R, o) + 1 = j
        BY <3>1, <3>2
      <4> QED
        BY <2>2, <4>1, HistPlaces
    <3>4. Rank(R, d) \in Nat /\ Rank(R, o) \in Nat /\ Rank(R, d) < Rank(R, o)
      BY <2>1, <2>2, <3>1, <3>2, RankType
    <3>5. o.uuid # d.uuid /\ ~(d.uuid < o.uuid)
      <4>1. o # d
        BY <3>4
      <4>2. d.uuid < o.uuid => Rank(R, o) < Rank(R, d)
        BY <2>1, <2>2, RankOrder
      <4> QED
        BY <2>1, <2>2, <3>4, <4>1, <4>2 DEF Ordered
    <3> QED
      BY <2>1, <2>3, <3>3, <3>5
  <2>11. AnswerOf(call[p])' = NoAnswer
    BY DEF AnswerOf
  <2> HIDE DEF i, s
  <2>12. Store!RemoveVersion(x, i)
    BY <2>7, <2>8, <2>9, <2>10, <2>11, OneAnswers DEF Store!RemoveVersion
  <2>13. i \in 1..Len(HistoryOf(x))
    BY <2>6, <2>7
  <2> QED
    BY <2>12, <2>13
<1> QED
  BY <1>1, <1>2

LEMMA MapsToRead ==
  ASSUME TypeInv, Solo, NEW p, Proc = {p}, rows' = rows, NEW x \in Path,
         call'[p].target = {x},
         \/ /\ RowsOf(x) = {} /\ call'[p].reply = "none"
         \/ /\ \E r \in Latest(x) : r.hash = call'[p].hash
            /\ call'[p].reply = "found"
  PROVE  Store!Read(x)
<1> DEFINE s == HistoryOf(x)
<1>1. Ordered(RowsOf(x)) /\ s = Hist(RowsOf(x))
  BY RowsOrdered, HistoryIs
<1>2. \A y : HistoryOf(y)' = HistoryOf(y)
  <2>1. \A y : RowsOf(y)' = RowsOf(y)
    BY DEF RowsOf
  <2> QED
    BY <2>1, HistoryIs, HistoryBecomes
<1> HIDE DEF s
<1>3. AnswerOf(call[p])' = [of |-> {x}, hash |-> IF s = <<>> THEN NoHash ELSE Head(s)]
  <2>1. CASE RowsOf(x) = {} /\ call'[p].reply = "none"
    BY <1>1, <2>1, HistEmpty DEF AnswerOf
  <2>2. CASE \E r \in Latest(x) : r.hash = call'[p].hash /\ call'[p].reply = "found"
    <3>1. PICK r \in RowsOf(x) : r.hash = call'[p].hash /\ \A o \in RowsOf(x) : o.uuid <= r.uuid
      BY <2>2 DEF Latest
    <3>2. s # <<>> /\ Head(s) = call'[p].hash
      BY <1>1, <3>1, HistHead
    <3> QED
      BY <2>2, <3>2 DEF AnswerOf
  <2> QED
    BY <2>1, <2>2
<1> QED
  BY <1>2, <1>3, OneAnswers DEF Store!Read, s

\* A content without a file has no row, so no path holds it.
LEMMA MapsToReadHash ==
  ASSUME TypeInv, Consistent, Solo, NEW p, Proc = {p}, GetReaderByHash(p)
  PROVE  \E h \in Hash : Store!ReadHash(h)
<1>1. call \in [Proc -> Call] /\ p \in Proc
  BY DEF TypeInv, TypeOK
<1>2. PICK h \in Hash : Return(p, IF h \in blobs THEN "found" ELSE "error", {}, h)
  BY DEF GetReaderByHash
<1>3. /\ call'[p].reply = IF h \in blobs THEN "found" ELSE "error"
      /\ call'[p].target = {} /\ call'[p].hash = h
  BY <1>1, <1>2 DEF Return, Goto, NoCall
<1>4. \A y : HistoryOf(y)' = HistoryOf(y)
  <2>1. \A y : RowsOf(y)' = RowsOf(y)
    BY DEF RowsOf, GetReaderByHash
  <2> QED
    BY <2>1, HistoryIs, HistoryBecomes
<1>5. CASE h \in blobs
  <2>1. AnswerOf(call[p])' = [of |-> {}, hash |-> h]
    BY <1>3, <1>5 DEF AnswerOf
  <2> QED
    BY <1>4, <2>1, OneAnswers DEF Store!ReadHash
<1>6. CASE h \notin blobs
  <2>1. AnswerOf(call[p])' = [of |-> {}, hash |-> "error"]
    BY <1>3, <1>6 DEF AnswerOf
  <2>2. \A x \in Path : h \notin Range(HistoryOf(x))
    <3> SUFFICES ASSUME NEW x \in Path, h \in Range(HistoryOf(x)) PROVE FALSE
      OBVIOUS
    <3>1. PICK r \in RowsOf(x) : r.hash = h
      BY HistoryIs, RowsOrdered, HistRange
    <3> QED
      BY <1>6, <3>1 DEF RowsOf, Consistent, NoDangling
  <2>3. ~Store!Stored(h)
    BY <2>2 DEF Store!Stored, Range, Store!Range
  <2> QED
    BY <1>4, <2>1, <2>3, OneAnswers DEF Store!ReadHash
<1> QED
  BY <1>5, <1>6

LEMMA StepImplements ==
  ASSUME NEW p, Proc = {p}
  PROVE  TypeInv /\ Consistent /\ Fresh /\ Solo /\ [Next]_vars => [Store!Next]_(Store!vars)
<1> SUFFICES ASSUME TypeInv, Consistent, Fresh, Solo, [Next]_vars
             PROVE  [Store!Next]_(Store!vars)
  OBVIOUS
<1>0. p \in Proc /\ call \in [Proc -> Call] /\ call[p] \in Call
  BY DEF TypeInv, TypeOK
<1>1. CASE UNCHANGED vars
  <2>1. \A x : HistoryOf(x)' = HistoryOf(x)
    <3>1. \A x : RowsOf(x)' = RowsOf(x)
      BY <1>1 DEF vars, RowsOf
    <3> QED
      BY <3>1, HistoryIs, HistoryBecomes
  <2> QED
    BY <1>1, <2>1 DEF vars, Store!vars, AnswerOf
<1>2. CASE \/ AddReader(p) \/ Persist(p) \/ NowV7(p) \/ RemovePath(p) \/ RemoveFolder(p)
           \/ TrimPath(p) \/ RemoveNext(p) \/ Count(p) \/ Unlink(p) \/ Interrupt(p)
  <2>1. rows' = rows
    BY <1>2 DEF AddReader, Persist, NowV7, RemovePath, SelectHashes, RemoveFolder, TrimPath,
       RemoveNext, Count, Unlink, Interrupt
  <2>2. call'[p].reply = "unit"
    BY <1>0, <1>2, Silent
  <2> QED
    BY <2>1, <2>2, MapsToClear DEF Store!Next
<1>3. CASE InsertEntries(p)
  BY <1>3, MapsToAdd DEF Store!Next
<1>4. CASE DeleteAll(p)
  BY <1>4, MapsToRemovePath DEF Store!Next
<1>5. CASE RemoveVersion(p) \/ TrimDelete(p)
  <2>1. \E x \in Path, h \in Hash : rows' = rows \ OldestMatch(x, h)
    <3>1. CASE RemoveVersion(p)
      BY <3>1 DEF RemoveVersion
    <3>2. CASE TrimDelete(p)
      <4>1. call[p].pc = "trim_delete"
        BY <3>2 DEF TrimDelete, At
      <4>2. PICK x \in Path : call[p].target = {x}
        BY <1>0, <4>1 DEF Solo
      <4>3. call[p].victims \in Seq(Hash) /\ call[p].victims # <<>>
        BY <1>0, <4>1 DEF TypeInv, LoadedCall, Loaded, Call
      <4>4. Head(call[p].victims) \in Hash
        BY <4>3
      <4>5. rows' = rows \ OldestMatch(x, Head(call[p].victims))
        BY <3>2, <4>2 DEF TrimDelete
      <4> QED
        BY <4>4, <4>5
    <3> QED
      BY <1>5, <3>1, <3>2
  <2>2. call'[p].reply = "unit"
    BY <1>0, <1>5, Silent
  <2>3. PICK x \in Path, h \in Hash : rows' = rows \ OldestMatch(x, h)
    BY <2>1
  <2>4. \/ Store!Clear
        \/ \E y \in Path : \E i \in 1..Len(HistoryOf(y)) : Store!RemoveVersion(y, i)
    BY <2>2, <2>3, MapsToRemoveVersion
  <2>5. ASSUME NEW y \in Path PROVE DOMAIN HistoryOf(y) = 1..Len(HistoryOf(y))
    <3>1. HistoryOf(y) \in Seq(Hash)
      BY RowsOrdered, HistoryIs, HistPlaces
    <3> QED
      BY <3>1
  <2> QED
    BY <2>4, <2>5 DEF Store!Next
<1>6. CASE GetLatest(p)
  <2>1. rows' = rows
    BY <1>6 DEF GetLatest
  <2>2. PICK x \in Path :
          /\ call'[p].target = {x}
          /\ \/ /\ RowsOf(x) = {} /\ call'[p].hash = NoHash
                /\ call'[p].reply = "none" /\ call'[p].pc = "idle"
             \/ /\ \E r \in Latest(x) : r.hash = call'[p].hash
                /\ call'[p].reply = "unit" /\ call'[p].pc \in {"open", "stat"}
    BY <1>0, <1>6, LookedUp
  <2>3. CASE RowsOf(x) = {} /\ call'[p].reply = "none"
    BY <2>1, <2>2, <2>3, MapsToRead DEF Store!Next
  <2>4. CASE call'[p].reply = "unit"
    BY <2>1, <2>4, MapsToClear DEF Store!Next
  <2> QED
    BY <2>2, <2>3, <2>4
<1>7. CASE OpenBlob(p) \/ StatBlob(p) \/ StatCount(p)
  <2>1. rows' = rows /\ call[p].pc \in Reading
    BY <1>7 DEF OpenBlob, StatBlob, StatCount, At, Reading
  <2>2. call[p].hash \in blobs /\ Refs(call[p].hash) # {} /\ call[p].reply = "unit"
    BY <1>0, <2>1, Found DEF Solo, Reading
  <2>3. PICK x \in Path : call[p].target = {x} /\ \E r \in Latest(x) : r.hash = call[p].hash
    BY <1>0, <2>1 DEF Solo
  <2>4. CASE StatBlob(p)
    <3>1. call'[p] = [call[p] EXCEPT !.pc = "stat_count"]
      BY <1>0, <2>2, <2>4 DEF StatBlob, Goto
    <3>2. call'[p].reply = "unit"
      BY <1>0, <2>2, <3>1 DEF Call
    <3> QED
      BY <2>1, <3>2, MapsToClear DEF Store!Next
  <2>5. CASE OpenBlob(p) \/ StatCount(p)
    <3>1. Return(p, "found", call[p].target, call[p].hash)
      BY <2>2, <2>5 DEF OpenBlob, StatCount
    <3>2. call'[p].reply = "found" /\ call'[p].target = {x} /\ call'[p].hash = call[p].hash
      BY <1>0, <2>3, <3>1 DEF Return, Goto, NoCall
    <3>3. Store!Read(x)
      BY <2>1, <2>3, <3>2, MapsToRead
    <3> QED
      BY <3>3 DEF Store!Next
  <2> QED
    BY <1>7, <2>4, <2>5
<1>8. CASE GetReaderByHash(p)
  BY <1>8, MapsToReadHash DEF Store!Next
<1> QED
  BY <1>1, <1>2, <1>3, <1>4, <1>5, <1>6, <1>7, <1>8 DEF Next, Start, Step

LEMMA InitImplements ==
  ASSUME NEW p, Proc = {p}
  PROVE  TypeInv /\ Solo /\ Init => Store!Init
<1> SUFFICES ASSUME TypeInv, Solo, Init PROVE Store!Init
  OBVIOUS
<1>1. \A x \in Path : HistoryOf(x) \in Seq(Hash)
  BY RowsOrdered, HistoryIs, HistPlaces
<1>2. AnswerOf(call[p]) = NoAnswer
  BY DEF Init, NoCall, AnswerOf
<1> QED
  BY <1>1, <1>2, OneAnswers DEF Store!Init

\* With one open handle, every behaviour of the engine is a behaviour of the
\* store that its documentation describes, wherever calls are cut short.
THEOREM OneHandleImplements ==
  ASSUME NEW p, Proc = {p}
  PROVE  Spec => ImplementsVersionStore
<1>1. NoOverlap
  BY DEF NoOverlap
<1>2. Spec => []NoOverlap
  BY <1>1, PTL
<1>3. Spec => []Consistent
  BY <1>2, ConsistentOutsideWindow, PTL
<1>4. TypeInv /\ Consistent /\ Fresh /\ Solo /\ [Next]_vars => Solo'
  BY SoloStep
<1>5. TypeInv /\ Consistent /\ Fresh /\ Solo /\ [Next]_vars => [Store!Next]_(Store!vars)
  BY StepImplements
<1>6. TypeInv /\ Solo /\ Init => Store!Init
  BY InitImplements
<1> QED
  BY <1>3, <1>4, <1>5, <1>6, TypeInvariance, FreshInit, FreshStep, SoloInit, PTL
     DEF Spec, ImplementsVersionStore, Store!Spec
=============================================================================
