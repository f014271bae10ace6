----------------------- MODULE BloxtreeRemovalProofs -----------------------
(***************************************************************************)
(* Theorems about what removals leave: a trim never deletes a version that *)
(* it is to keep, and a removal that returns has removed what it was asked *)
(* to remove.                                                              *)
(***************************************************************************)
EXTENDS BloxtreeProofs, WellFoundedInduction

\* The rows of path x in a table R.
In(R, x) == {r \in R : r.path = x}

LEMMA InRows == \A x : RowsOf(x) = In(rows, x)
BY DEF In, RowsOf

\* The table after a step that is no insertion.
LEMMA RowsShrink ==
  ASSUME NEW p \in Proc, Start(p) \/ Step(p) \/ Interrupt(p)
  PROVE  InsertEntries(p) \/ rows' \subseteq rows
BY DEF Start, Step, Interrupt, AddReader, Persist, NowV7, SelectHashes,
       RemovePath, RemoveVersion, RemoveFolder, RemoveNext, DeleteAll, TrimPath,
       TrimDelete, Count, Unlink, GetLatest, OpenBlob, GetReaderByHash,
       StatBlob, StatCount

\* An insertion takes no row away.
LEMMA InsertGrows ==
  ASSUME NEW p \in Proc, InsertEntries(p)
  PROVE  rows \subseteq rows'
BY DEF InsertEntries

LEMMA NumberedBijection ==
  ASSUME NEW k \in Nat, NEW s, DOMAIN s = 1..k,
         \A i, j \in 1..k : i # j => s[i] # s[j]
  PROVE  /\ IsFiniteSet({s[i] : i \in 1..k})
         /\ Cardinality({s[i] : i \in 1..k}) = k
<1> DEFINE T == {s[i] : i \in 1..k}
           g == [i \in 1..k |-> s[i]]
<1>1. g \in [1..k -> T]
  OBVIOUS
<1>2. g \in Injection(1..k, T)
  BY <1>1 DEF Injection, IsInjective
<1>3. g \in Surjection(1..k, T)
  BY <1>1 DEF Surjection
<1>4. ExistsBijection(1..k, T)
  BY <1>2, <1>3 DEF ExistsBijection, Bijection
<1>5. IsFiniteSet(1..k) /\ Cardinality(1..k) = k
  BY FS_Interval
<1> HIDE DEF T, g
<1>6. IsFiniteSet(T) /\ Cardinality(T) = Cardinality(1..k)
  BY <1>4, <1>5, FS_Bijection
<1> QED
  BY <1>5, <1>6 DEF T

\* What trim_path lists: every row of path x once, the newest first; the first
\* k are to stay and the hashes of the n others are to go.
Listed(c, x, k, n, s) ==
  /\ x \in Path /\ k \in 1..MaxKeep /\ n \in Nat
  /\ s \in [1..(k + n) -> RowsOf(x)]
  /\ \A r \in RowsOf(x) : \E i \in 1..(k + n) : s[i] = r
  /\ \A i, j \in 1..(k + n) : i < j => s[i].uuid > s[j].uuid
  /\ c = [NoCall EXCEPT !.pc = "trim_delete", !.target = {x}, !.keep = k,
            !.victims = [i \in 1..n |-> s[k + i].hash]]

LEMMA TrimLists ==
  ASSUME TypeInv, NEW p \in Proc, TrimPath(p), call'[p].pc = "trim_delete"
  PROVE  \E x, k, n, s : Listed(call'[p], x, k, n, s)
<1>1. PICK x \in Path, k \in 1..MaxKeep : \E s \in Orderings(RowsOf(x)) :
        /\ NewestFirst(s)
        /\ Goto(p, IF Len(s) <= k THEN NoCall
                   ELSE [NoCall EXCEPT !.pc = "trim_delete", !.target = {x}, !.keep = k,
                           !.victims = [i \in 1..(Len(s) - k) |-> s[k + i].hash]])
  BY DEF TrimPath
<1>2. PICK s \in Orderings(RowsOf(x)) :
        /\ NewestFirst(s)
        /\ Goto(p, IF Len(s) <= k THEN NoCall
                   ELSE [NoCall EXCEPT !.pc = "trim_delete", !.target = {x}, !.keep = k,
                           !.victims = [i \in 1..(Len(s) - k) |-> s[k + i].hash]])
  BY <1>1
<1>3. IsFiniteSet(RowsOf(x)) /\ Cardinality(RowsOf(x)) \in Nat
  BY RowsOfFinite, FS_CardinalityType
<1>4. Len(s) = Cardinality(RowsOf(x)) /\ DOMAIN s = 1..Cardinality(RowsOf(x))
  BY <1>3, OrderingIsSeq
<1>5. /\ s \in [1..Len(s) -> RowsOf(x)]
      /\ \A r \in RowsOf(x) : \E i \in 1..Len(s) : s[i] = r
  BY <1>4 DEF Orderings, Surjection
<1>6. call \in [Proc -> Call]
  BY DEF TypeInv, TypeOK
<1>7. ~(Len(s) <= k)
  BY <1>2, <1>6 DEF Goto, NoCall
<1> DEFINE n == Len(s) - k
<1>8. n \in Nat /\ Len(s) = k + n /\ k \in Nat
  BY <1>3, <1>4, <1>7, BoundAssumption
<1>9. call'[p] = [NoCall EXCEPT !.pc = "trim_delete", !.target = {x}, !.keep = k,
                    !.victims = [i \in 1..n |-> s[k + i].hash]]
  BY <1>2, <1>6, <1>7 DEF Goto
<1>10. \A i, j \in 1..(k + n) : i < j => s[i].uuid > s[j].uuid
  BY <1>2, <1>4, <1>8 DEF NewestFirst
<1> HIDE DEF n
<1>11. s \in [1..(k + n) -> RowsOf(x)] /\ \A r \in RowsOf(x) : \E i \in 1..(k + n) : s[i] = r
  BY <1>5, <1>8
<1>12. Listed(call'[p], x, k, n, s)
  BY <1>8, <1>9, <1>10, <1>11 DEF Listed
<1> QED
  BY <1>8, <1>12

\* What delete_version for the next surplus hash does.
LEMMA TrimDeletes ==
  ASSUME TypeInv, NEW p \in Proc, TrimDelete(p), NEW x \in Path, call[p].target = {x}
  PROVE  \E c \in Call :
           /\ rows' = rows \ OldestMatch(x, Head(call[p].victims))
           /\ c.pc = "trim_delete" /\ c.target = {x} /\ c.keep = call[p].keep
           /\ c.todo = call[p].todo
           /\ c.victims = Tail(call[p].victims)
           /\ call'[p] = IF c.victims # <<>> THEN c ELSE Continue(c)
<1> DEFINE h    == Head(call[p].victims)
           gone == UNION {OldestMatch(y, h) : y \in call[p].target}
           c    == [call[p] EXCEPT !.victims = Tail(@),
                      !.deleted = IF gone = {} THEN @ ELSE Append(@, h)]
<1>1. /\ rows' = rows \ gone
      /\ Goto(p, IF c.victims # <<>> THEN c ELSE Continue(c))
  BY DEF TrimDelete
<1>2. /\ call \in [Proc -> Call] /\ call[p] \in Call
      /\ call[p].pc = "trim_delete" /\ call[p].victims # <<>>
  BY DEF TypeInv, TypeOK, LoadedCall, Loaded, TrimDelete, At
<1>3. h \in Hash /\ Tail(call[p].victims) \in Seq(Hash)
  BY <1>2, HeadTailProperties DEF Call
<1>4. gone = OldestMatch(x, h)
  OBVIOUS
<1> HIDE DEF h, gone
<1>5. Append(call[p].deleted, h) \in Seq(Hash)
  BY <1>2, <1>3, AppendProperties DEF Call
<1>6. /\ c \in Call /\ c.pc = "trim_delete" /\ c.target = {x} /\ c.keep = call[p].keep
      /\ c.todo = call[p].todo /\ c.victims = Tail(call[p].victims)
  BY <1>2, <1>3, <1>5 DEF Call
<1> HIDE DEF c
<1>7. call'[p] = IF c.victims # <<>> THEN c ELSE Continue(c)
  BY <1>1, <1>2 DEF Goto
<1> QED
  BY <1>1, <1>4, <1>6, <1>7 DEF h

-----------------------------------------------------------------------------
(* A trim keeps the newest versions.                                       *)

\* For each hash that a trim is still to delete there is a row of its own, and
\* all of them are older than the rows that the trim is to keep.
SparedBy(c, R, x, K, f) ==
  /\ x \in Path
  /\ K \in SUBSET In(R, x) /\ f \in [DOMAIN c.victims -> In(R, x)]
  /\ c.target = {x}
  /\ IsFiniteSet(K) /\ Cardinality(K) = c.keep
  /\ \A i \in DOMAIN c.victims : f[i].hash = c.victims[i]
  /\ \A i, j \in DOMAIN c.victims : i # j => f[i] # f[j]
  /\ \A i \in DOMAIN c.victims, r \in K : f[i].uuid < r.uuid

Spared(c, R) == \E x, K, f : SparedBy(c, R, x, K, f)

LEMMA SparedMore ==
  ASSUME NEW c, NEW R, NEW Q, R \subseteq Q, Spared(c, R)
  PROVE  Spared(c, Q)
<1>1. PICK x, K, f : SparedBy(c, R, x, K, f)
  BY DEF Spared
<1>2. In(R, x) \subseteq In(Q, x)
  BY DEF In
<1>3. SparedBy(c, Q, x, K, f)
  BY <1>1, <1>2 DEF SparedBy
<1> QED
  BY <1>3 DEF Spared

\* The listing of a trim spares the rows at its head.
LEMMA SparedAtFirst ==
  ASSUME TypeInv, NEW p \in Proc, TrimPath(p), call'[p].pc = "trim_delete"
  PROVE  Spared(call'[p], rows)
<1>1. PICK x, k, n, s : Listed(call'[p], x, k, n, s)
  BY TrimLists
<1>2. /\ x \in Path /\ k \in 1..MaxKeep /\ n \in Nat
      /\ s \in [1..(k + n) -> RowsOf(x)]
      /\ \A i, j \in 1..(k + n) : i < j => s[i].uuid > s[j].uuid
      /\ call'[p] = [NoCall EXCEPT !.pc = "trim_delete", !.target = {x}, !.keep = k,
                       !.victims = [i \in 1..n |-> s[k + i].hash]]
  BY <1>1 DEF Listed
<1>3. k \in Nat /\ n \in Nat
  BY <1>2, BoundAssumption
<1> DEFINE v == [i \in 1..n |-> s[k + i].hash]
           f == [i \in 1..n |-> s[k + i]]
           t == [i \in 1..k |-> s[i]]
           K == {t[i] : i \in 1..k}
           c == [NoCall EXCEPT !.pc = "trim_delete", !.target = {x}, !.keep = k, !.victims = v]
<1>4. \A i \in 1..n : k + i \in 1..(k + n)
  BY <1>3
<1>5. \A i \in 1..k : i \in 1..(k + n)
  BY <1>3
<1>6. \A i \in 1..(k + n) : s[i] \in RowsOf(x) /\ s[i].uuid \in Nat
  <2>1. ASSUME NEW r \in RowsOf(x) PROVE r.uuid \in Nat
    <3>1. r \in Row
      BY RowsOfFinite
    <3> QED
      BY <3>1 DEF Row
  <2>2. ASSUME NEW i \in 1..(k + n) PROVE s[i] \in RowsOf(x)
    BY <1>2
  <2> QED
    BY <2>1, <2>2
<1>7. \A i, j \in 1..(k + n) : i # j => s[i] # s[j]
  <2> SUFFICES ASSUME NEW i \in 1..(k + n), NEW j \in 1..(k + n), i < j
               PROVE  s[i] # s[j]
    BY <1>3
  <2> QED
    BY <1>2, <1>6
<1>8. DOMAIN v = 1..n /\ DOMAIN f = 1..n /\ DOMAIN t = 1..k
  OBVIOUS
<1>9. \A i \in 1..n : f[i] = s[k + i] /\ v[i] = s[k + i].hash
  OBVIOUS
<1>10. \A i \in 1..k : t[i] = s[i]
  OBVIOUS
<1>11. c.target = {x} /\ c.keep = k /\ c.victims = v
  BY DEF NoCall
<1>12. f \in [1..n -> RowsOf(x)]
  BY <1>4, <1>6
<1>13. K \subseteq RowsOf(x)
  BY <1>5, <1>6
<1> HIDE DEF v, f, t, c
<1>14. IsFiniteSet(K) /\ Cardinality(K) = k
  <2>1. \A i, j \in 1..k : i # j => t[i] # t[j]
    BY <1>5, <1>7, <1>10
  <2> QED
    BY <1>3, <1>8, <2>1, NumberedBijection
<1>15. \A i, j \in 1..n : i # j => f[i] # f[j]
  <2> SUFFICES ASSUME NEW i \in 1..n, NEW j \in 1..n, i # j PROVE f[i] # f[j]
    OBVIOUS
  <2>1. k + i # k + j
    BY <1>3
  <2> QED
    BY <1>4, <1>7, <1>9, <2>1
<1>16. ASSUME NEW i \in 1..n, NEW r \in K PROVE f[i].uuid < r.uuid
  <2>1. PICK j \in 1..k : r = s[j]
    BY <1>10
  <2>2. j < k + i
    BY <1>3
  <2>3. s[j].uuid > s[k + i].uuid
    BY <1>2, <1>4, <1>5, <2>2
  <2> QED
    BY <1>4, <1>5, <1>6, <1>9, <2>1, <2>3
<1> HIDE DEF K
<1>17. call'[p] = c
  BY <1>2 DEF c, v
<1>18. c.target = {x} /\ IsFiniteSet(K) /\ Cardinality(K) = c.keep
  BY <1>11, <1>14
<1>19. /\ DOMAIN c.victims = 1..n
       /\ \A i \in 1..n : f[i].hash = c.victims[i]
  BY <1>8, <1>9, <1>11
<1>20. K \in SUBSET In(rows, x) /\ f \in [DOMAIN c.victims -> In(rows, x)]
  BY <1>12, <1>13, <1>19, InRows
<1>21. SparedBy(c, rows, x, K, f)
  BY <1>2, <1>15, <1>16, <1>18, <1>19, <1>20 DEF SparedBy
<1> QED
  BY <1>17, <1>21 DEF Spared
\* Deleting the oldest row with the next hash takes none of the rows that are
\* to be kept, and none of the newest ones.
LEMMA SparedDelete ==
  ASSUME TypeInv, NEW c \in Call, NEW d \in Call, NEW x \in Path,
         c.target = {x}, d.target = {x}, d.keep = c.keep,
         c.victims # <<>>, d.victims = Tail(c.victims), Spared(c, rows)
  PROVE  /\ Spared(d, rows \ OldestMatch(x, Head(c.victims)))
         /\ Newest(x, c.keep) \cap OldestMatch(x, Head(c.victims)) = {}
<1> DEFINE h == Head(c.victims)
           gone == OldestMatch(x, h)
           R == In(rows, x)
           Q == In(rows \ gone, x)
           n == Len(c.victims)
<1>1. /\ c.victims \in Seq(Hash) /\ n \in Nat /\ n >= 1 /\ DOMAIN c.victims = 1..n
      /\ h = c.victims[1]
      /\ d.victims \in Seq(Hash) /\ DOMAIN d.victims = 1..(n - 1)
      /\ \A i \in 1..(n - 1) : d.victims[i] = c.victims[i + 1]
  <2>1. c.victims \in Seq(Hash) /\ n \in Nat /\ DOMAIN c.victims = 1..n
    BY DEF Call
  <2>2. n >= 1
    BY <2>1, EmptySeq
  <2>3. /\ Tail(c.victims) \in Seq(Hash) /\ Len(Tail(c.victims)) = n - 1
        /\ \A i \in 1..(n - 1) : Tail(c.victims)[i] = c.victims[i + 1]
    BY <2>1, <2>2, HeadTailProperties
  <2>4. DOMAIN Tail(c.victims) = 1..Len(Tail(c.victims))
    BY <2>3
  <2> QED
    BY <2>1, <2>2, <2>3, <2>4
<1>0. PICK y, K, f : SparedBy(c, rows, y, K, f)
  BY DEF Spared
<1>2. /\ K \in SUBSET R /\ f \in [1..n -> R]
      /\ IsFiniteSet(K) /\ Cardinality(K) = c.keep
      /\ \A i \in 1..n : f[i].hash = c.victims[i]
      /\ \A i, j \in 1..n : i # j => f[i] # f[j]
      /\ \A i \in 1..n, r \in K : f[i].uuid < r.uuid
  <2>1. x = y
    BY <1>0 DEF SparedBy
  <2> QED
    BY <1>0, <1>1, <2>1 DEF SparedBy
<1>3. R \subseteq Row /\ IsFiniteSet(R) /\ R = RowsOf(x)
  BY InRows, RowsOfFinite
<1>17. \A r \in R : r.uuid \in Nat
  <2> HIDE DEF R
  <2> QED
    BY <1>3 DEF Row
<1>4. Q = R \ gone
  BY DEF In
<1>5. /\ gone \subseteq R
      /\ \A o \in gone : o.hash = h
      /\ \A o \in gone, r \in R : r.hash = h => o.uuid <= r.uuid
  BY <1>3 DEF OldestMatch, RowsOf, Refs
<1> HIDE DEF R, gone, Q
<1>6. f[1] \in R /\ f[1].hash = h
  BY <1>1, <1>2
<1>7. ASSUME NEW o \in gone, NEW r \in K PROVE o.uuid < r.uuid
  <2>1. o.uuid <= f[1].uuid /\ f[1].uuid < r.uuid
    BY <1>1, <1>2, <1>5, <1>6
  <2>2. o.uuid \in Nat /\ f[1].uuid \in Nat /\ r.uuid \in Nat
    BY <1>2, <1>5, <1>6, <1>17
  <2> QED
    BY <2>1, <2>2
<1>8. Newest(x, c.keep) \cap gone = {}
  <2> SUFFICES ASSUME NEW o \in gone,
                      Cardinality({r \in RowsOf(x) : r.uuid > o.uuid}) < c.keep
               PROVE  FALSE
    BY DEF Newest
  <2> DEFINE N == {r \in RowsOf(x) : r.uuid > o.uuid}
  <2>1. K \subseteq N
    <3> SUFFICES ASSUME NEW r \in K PROVE r.uuid > o.uuid
      BY <1>2, <1>3
    <3>1. o.uuid < r.uuid /\ o.uuid \in Nat /\ r.uuid \in Nat
      BY <1>2, <1>5, <1>7, <1>17
    <3> QED
      BY <3>1
  <2>2. IsFiniteSet(N)
    BY <1>3, FS_Subset
  <2> HIDE DEF N
  <2>3. Cardinality(K) <= Cardinality(N) /\ Cardinality(K) \in Nat /\ Cardinality(N) \in Nat
    BY <1>2, <2>1, <2>2, FS_Subset, FS_CardinalityType
  <2> QED
    BY <1>2, <2>3 DEF N
<1>9. K \subseteq Q
  <2> SUFFICES ASSUME NEW r \in K, r \in gone PROVE FALSE
    BY <1>2, <1>4
  <2>1. r.uuid < r.uuid /\ r.uuid \in Nat
    BY <1>2, <1>7, <1>17
  <2> QED
    BY <2>1
\* A row in gone that stands for a later hash gives its place to the first.
<1> DEFINE g == [i \in 1..(n - 1) |-> IF f[i + 1] \in gone THEN f[1] ELSE f[i + 1]]
<1>10. \A i \in 1..(n - 1) : i + 1 \in 1..n /\ i + 1 # 1
  BY <1>1
<1>11. \A o, r \in gone : o = r
  <2> SUFFICES ASSUME NEW o \in gone, NEW r \in gone PROVE o = r
    OBVIOUS
  <2>1. o.uuid <= r.uuid /\ r.uuid <= o.uuid /\ o.hash = r.hash
    BY <1>5
  <2>2. o \in Row /\ r \in Row /\ o.path = x /\ r.path = x
    BY <1>3, <1>5 DEF In, R
  <2>3. o.uuid = r.uuid
    BY <2>1, <2>2 DEF Row
  <2> QED
    BY <2>1, <2>2, <2>3 DEF Row
<1>12. ASSUME NEW i \in 1..(n - 1)
       PROVE  /\ g[i] \in Q
              /\ g[i].hash = d.victims[i]
              /\ \A r \in K : g[i].uuid < r.uuid
  <2>1. i + 1 \in 1..n /\ i + 1 # 1 /\ 1 \in 1..n
    BY <1>1, <1>10
  <2>2. CASE f[i + 1] \in gone
    <3>1. g[i] = f[1]
      BY <2>2
    <3>2. f[1] \notin gone
      BY <1>2, <1>11, <2>1, <2>2
    <3>3. f[i + 1].hash = h
      BY <1>5, <2>2
    <3> HIDE DEF g
    <3> QED
      BY <1>1, <1>2, <1>4, <1>6, <2>1, <3>1, <3>2, <3>3
  <2>3. CASE f[i + 1] \notin gone
    <3>1. g[i] = f[i + 1]
      BY <2>3
    <3> HIDE DEF g
    <3> QED
      BY <1>1, <1>2, <1>4, <2>1, <2>3, <3>1
  <2> QED
    BY <2>2, <2>3
<1>13. ASSUME NEW i \in 1..(n - 1), NEW j \in 1..(n - 1), i # j PROVE g[i] # g[j]
  <2>1. /\ i + 1 \in 1..n /\ j + 1 \in 1..n /\ 1 \in 1..n
        /\ i + 1 # j + 1 /\ i + 1 # 1 /\ j + 1 # 1
    BY <1>1, <1>10, <1>13
  <2>2. f[i + 1] # f[j + 1] /\ f[i + 1] # f[1] /\ f[j + 1] # f[1]
    BY <1>2, <2>1
  <2>3. /\ g[i] = IF f[i + 1] \in gone THEN f[1] ELSE f[i + 1]
        /\ g[j] = IF f[j + 1] \in gone THEN f[1] ELSE f[j + 1]
    OBVIOUS
  <2> HIDE DEF g
  <2> QED
    BY <1>11, <2>2, <2>3
<1>14. g \in [DOMAIN d.victims -> Q] /\ DOMAIN d.victims = 1..(n - 1)
  <2>1. DOMAIN g = 1..(n - 1) /\ g = [i \in 1..(n - 1) |-> g[i]]
    OBVIOUS
  <2> HIDE DEF g, Q
  <2> QED
    BY <1>1, <1>12, <2>1
<1> HIDE DEF g
<1>15. SparedBy(d, rows \ gone, x, K, g)
  <2>1. d.target = {x} /\ Cardinality(K) = d.keep /\ IsFiniteSet(K)
    BY <1>2
  <2>2. K \in SUBSET In(rows \ gone, x) /\ g \in [DOMAIN d.victims -> In(rows \ gone, x)]
    BY <1>9, <1>14 DEF Q
  <2>3. /\ \A i \in DOMAIN d.victims : g[i].hash = d.victims[i]
        /\ \A i \in DOMAIN d.victims, r \in K : g[i].uuid < r.uuid
    BY <1>12, <1>14
  <2>4. \A i, j \in DOMAIN d.victims : i # j => g[i] # g[j]
    BY <1>13, <1>14
  <2> QED
    BY <2>1, <2>2, <2>3, <2>4 DEF SparedBy
<1>16. Spared(d, rows \ gone)
  BY <1>15 DEF Spared
<1> QED
  BY <1>8, <1>16 DEF gone
\* Only these actions take rows away, and only a process that removes has them.
LEMMA RowsGrow ==
  ASSUME TypeInv, Roles, NEW p \in Proc, Start(p) \/ Step(p) \/ Interrupt(p)
  PROVE  rows \subseteq rows' \/ Ops[p] \cap Removals # {}
<1>1. rows \subseteq rows' \/ RemoveVersion(p) \/ DeleteAll(p) \/ TrimDelete(p)
  BY DEF Start, Step, Interrupt, AddReader, Persist, NowV7, InsertEntries, SelectHashes,
         RemovePath, RemoveFolder, RemoveNext, TrimPath, Count, Unlink, GetLatest,
         OpenBlob, GetReaderByHash, StatBlob, StatCount
<1>2. RemoveVersion(p) => Ops[p] \cap Removals # {}
  BY DEF RemoveVersion, Ready, Removals
<1>3. DeleteAll(p) \/ TrimDelete(p) => Ops[p] \cap Removals # {}
  BY DEF DeleteAll, TrimDelete, At, Roles
<1> QED
  BY <1>1, <1>2, <1>3

\* A trim under way is made by a process that trims, and spares what it is to
\* keep.
TrimInv ==
  \A p \in Proc : call[p].pc = "trim_delete" => "trim" \in Ops[p] /\ Spared(call[p], rows)

\* No process removes beside another one that trims.
TrimsAlone ==
  \A p, q \in Proc : p # q => "trim" \notin Ops[p] \/ Ops[q] \cap Removals = {}

LEMMA InitTrim == Init => TrimInv
BY DEF Init, TrimInv, NoCall

\* The next surplus version is deleted, and the newest are still there.
LEMMA TrimStep ==
  ASSUME TypeInv, TrimInv, NEW p \in Proc, TrimDelete(p)
  PROVE  /\ call'[p].pc = "trim_delete" => Spared(call'[p], rows')
         /\ \A x \in call[p].target : Newest(x, call[p].keep) \subseteq rows'
<1>1. /\ call[p] \in Call /\ call[p].pc = "trim_delete" /\ call[p].victims # <<>>
  BY DEF TypeInv, TypeOK, LoadedCall, Loaded, TrimDelete, At
<1>2. Spared(call[p], rows)
  BY <1>1 DEF TrimInv
<1>3. PICK x, K, f : SparedBy(call[p], rows, x, K, f)
  BY <1>2 DEF Spared
<1>4. x \in Path /\ call[p].target = {x}
  BY <1>3 DEF SparedBy
<1>5. PICK c \in Call :
        /\ rows' = rows \ OldestMatch(x, Head(call[p].victims))
        /\ c.pc = "trim_delete" /\ c.target = {x} /\ c.keep = call[p].keep
        /\ c.victims = Tail(call[p].victims)
        /\ call'[p] = IF c.victims # <<>> THEN c ELSE Continue(c)
  BY <1>4, TrimDeletes
<1>6. /\ Spared(c, rows')
      /\ Newest(x, call[p].keep) \cap OldestMatch(x, Head(call[p].victims)) = {}
  BY <1>1, <1>2, <1>4, <1>5, SparedDelete
<1>7. Newest(x, call[p].keep) \subseteq rows
  BY DEF Newest, RowsOf
<1>8. Continue(c).pc # "trim_delete"
  BY ContinuePc DEF Call
<1>9. call'[p].pc = "trim_delete" => call'[p] = c
  BY <1>5, <1>8
<1> QED
  BY <1>4, <1>5, <1>6, <1>7, <1>9

LEMMA NextTrim ==
  ASSUME TrimsAlone
  PROVE  TypeInv /\ Roles /\ TrimInv /\ [Next]_vars => TrimInv'
<1> SUFFICES ASSUME TypeInv, Roles, TrimInv, [Next]_vars PROVE TrimInv'
  OBVIOUS
<1>1. CASE UNCHANGED vars
  BY <1>1 DEF vars, TrimInv
<1>2. ASSUME NEW p \in Proc, Start(p) \/ Step(p) \/ Interrupt(p) PROVE TrimInv'
  <2> SUFFICES ASSUME NEW q \in Proc, call'[q].pc = "trim_delete"
               PROVE  "trim" \in Ops[q] /\ Spared(call'[q], rows')
    BY DEF TrimInv
  <2>1. CASE q # p
    <3>1. call'[q] = call[q]
      BY <1>2, <2>1, OthersStay
    <3>2. "trim" \in Ops[q] /\ Spared(call[q], rows)
      BY <3>1 DEF TrimInv
    <3>3. rows \subseteq rows'
      BY <1>2, <2>1, <3>2, RowsGrow DEF TrimsAlone
    <3>4. Spared(call[q], rows')
      BY <3>2, <3>3, SparedMore
    <3> QED
      BY <3>1, <3>2, <3>4
  <2>2. CASE q = p
    <3>1. TrimPath(p) \/ TrimDelete(p)
      <4>1. Start(p) => TrimPath(p)
        BY <2>2, StartPc DEF Start
      <4>2. Step(p) => TrimDelete(p)
        BY <2>2, StepPc DEF Step
      <4>3. ~Interrupt(p)
        BY <2>2, StepPc
      <4> QED
        BY <1>2, <4>1, <4>2, <4>3
    <3>2. CASE TrimPath(p)
      <4>1. Spared(call'[p], rows) /\ rows' = rows
        BY <2>2, <3>2, SparedAtFirst DEF TrimPath
      <4>2. "trim" \in Ops[p]
        BY <3>2 DEF TrimPath, Ready
      <4> QED
        BY <2>2, <4>1, <4>2
    <3>3. CASE TrimDelete(p)
      <4>1. "trim" \in Ops[p]
        BY <3>3 DEF TrimDelete, At, TrimInv
      <4> QED
        BY <2>2, <3>3, <4>1, TrimStep
    <3> QED
      BY <3>1, <3>2, <3>3
  <2> QED
    BY <2>1, <2>2
<1> QED
  BY <1>1, <1>2 DEF Next

\* If no process removes beside another that trims, a trim never deletes one of
\* the versions it is to keep, whatever others add in the meantime and though
\* it deletes by hash.  The run trim_race shows that the assumption is needed.
THEOREM TrimKeepsNewestWhenAlone ==
  ASSUME TrimsAlone
  PROVE  Spec => TrimKeepsNewest
<1> DEFINE Keeps == \A p \in Proc : At(p, "trim_delete") /\ call'[p] # call[p] =>
                      \A x \in call[p].target : Newest(x, call[p].keep) \subseteq rows'
<1>1. TypeInv /\ Roles /\ TrimInv /\ [Next]_vars => [Keeps]_vars
  <2> SUFFICES ASSUME TypeInv, Roles, TrimInv, [Next]_vars, ~UNCHANGED vars,
                      NEW p \in Proc, At(p, "trim_delete"), call'[p] # call[p]
               PROVE  \A x \in call[p].target : Newest(x, call[p].keep) \subseteq rows'
    OBVIOUS
  <2>1. PICK q \in Proc : Start(q) \/ Step(q) \/ Interrupt(q)
    BY DEF Next
  <2>2. q = p
    BY <2>1, OthersStay
  <2>3. TrimDelete(p) \/ Interrupt(p)
    BY <2>1, <2>2 DEF Start, Step, AddReader, Persist, NowV7, InsertEntries, RemovePath,
       RemoveVersion, RemoveFolder, RemoveNext, DeleteAll, TrimPath, Count, Unlink,
       GetLatest, OpenBlob, GetReaderByHash, StatBlob, StatCount, Ready, At
  <2>4. CASE Interrupt(p)
    BY <2>4 DEF Interrupt, Newest, RowsOf
  <2>5. CASE TrimDelete(p)
    BY <2>5, TrimStep
  <2> QED
    BY <2>3, <2>4, <2>5
<1>2. Spec => [][Keeps]_vars
  BY <1>1, TypeInvariance, InitRoles, NextRoles, InitTrim, NextTrim, PTL DEF Spec
<1> QED
  BY <1>2 DEF TrimKeepsNewest
-----------------------------------------------------------------------------
(* A removal that returns has removed what it was asked to remove.         *)

\* The paths that a removal is done with have at most as many rows as it leaves.
Left(c, R) ==
  \A x \in c.target : (\E i \in DOMAIN c.todo : c.todo[i] = x) \/ Cardinality(In(R, x)) <= c.keep

\* Each row of a path that is being trimmed has a place of its own, among those
\* that stay or at a hash, its own, that is still to be deleted.
SlottedBy(c, R, x, g) ==
  /\ x \in Path /\ c.target = {x}
  /\ g \in [In(R, x) -> 1..(c.keep + Len(c.victims))]
  /\ \A r, o \in In(R, x) : r # o => g[r] # g[o]
  /\ \A r \in In(R, x) : g[r] > c.keep => c.victims[g[r] - c.keep] = r.hash

Slotted(c, R) == \E x, g : SlottedBy(c, R, x, g)

\* What holds between two steps of a removal.
Halfway(c, R) ==
  /\ c.pc \in {"folder", "delete_all", "count", "unlink"} => Left(c, R)
  /\ c.pc = "trim_delete" => c.todo = <<>> /\ Slotted(c, R)

LEMMA HalfwayLess ==
  ASSUME NEW c, NEW R, NEW Q, IsFiniteSet(R), Q \subseteq R, c.keep \in Nat, Halfway(c, R)
  PROVE  Halfway(c, Q)
<1>1. \A x : In(Q, x) \subseteq In(R, x)
  BY DEF In
<1>2. ASSUME Left(c, R) PROVE Left(c, Q)
  <2>1. ASSUME NEW x, Cardinality(In(R, x)) <= c.keep
        PROVE  Cardinality(In(Q, x)) <= c.keep
    <3>1. IsFiniteSet(In(R, x))
      BY FS_Subset DEF In
    <3>2. /\ Cardinality(In(Q, x)) <= Cardinality(In(R, x))
          /\ Cardinality(In(Q, x)) \in Nat /\ Cardinality(In(R, x)) \in Nat
      BY <1>1, <3>1, FS_Subset, FS_CardinalityType
    <3> QED
      BY <2>1, <3>2
  <2> QED
    BY <1>2, <2>1 DEF Left
<1>3. ASSUME Slotted(c, R) PROVE Slotted(c, Q)
  <2>1. PICK x, g : SlottedBy(c, R, x, g)
    BY <1>3 DEF Slotted
  <2> DEFINE f == [r \in In(Q, x) |-> g[r]]
  <2>2. SlottedBy(c, Q, x, f)
    BY <1>1, <2>1 DEF SlottedBy
  <2> QED
    BY <2>2 DEF Slotted
<1> QED
  BY <1>2, <1>3 DEF Halfway

LEMMA ContinueHalfway ==
  ASSUME NEW c \in Call, NEW R, Left(c, R)
  PROVE  /\ Halfway(Continue(c), R)
         /\ Continue(c).pc = "idle" => \A x \in c.target : Cardinality(In(R, x)) <= c.keep
<1>1. CASE c.deleted # <<>>
  BY <1>1 DEF Continue, Halfway, Left, Call
<1>2. CASE c.deleted = <<>> /\ c.todo # <<>>
  BY <1>2 DEF Continue, Halfway, Left, Call
<1>3. CASE c.deleted = <<>> /\ c.todo = <<>>
  BY <1>3 DEF Continue, Halfway, Left, NoCall
<1> QED
  BY <1>1, <1>2, <1>3

\* The listing of a trim has a place for every row.
LEMMA SlottedAtFirst ==
  ASSUME TypeInv, NEW p \in Proc, TrimPath(p), call'[p].pc = "trim_delete"
  PROVE  Halfway(call'[p], rows)
<1>1. PICK x, k, n, s : Listed(call'[p], x, k, n, s)
  BY TrimLists
<1>2. k \in Nat /\ n \in Nat /\ x \in Path
  BY <1>1, BoundAssumption DEF Listed
<1> DEFINE v == [i \in 1..n |-> s[k + i].hash]
           c == [NoCall EXCEPT !.pc = "trim_delete", !.target = {x}, !.keep = k, !.victims = v]
           g == [r \in RowsOf(x) |-> CHOOSE i \in 1..(k + n) : s[i] = r]
<1>3. /\ c.target = {x} /\ c.keep = k /\ c.victims = v /\ c.todo = <<>>
      /\ c.pc = "trim_delete"
  BY DEF NoCall
<1>4. Len(v) = n /\ \A i \in 1..n : v[i] = s[k + i].hash
  BY <1>2
<1>5. ASSUME NEW r \in RowsOf(x) PROVE g[r] \in 1..(k + n) /\ s[g[r]] = r
  BY <1>1 DEF Listed
<1>6. g \in [RowsOf(x) -> 1..(k + n)]
  BY <1>5
<1>7. call'[p] = c
  BY <1>1 DEF Listed
<1> HIDE DEF v, c, g
<1>8. ASSUME NEW r \in RowsOf(x), g[r] > k PROVE v[g[r] - k] = r.hash
  <2>1. g[r] - k \in 1..n /\ k + (g[r] - k) = g[r]
    BY <1>2, <1>5, <1>8
  <2> QED
    BY <1>4, <1>5, <2>1
<1>9. \A r, o \in RowsOf(x) : r # o => g[r] # g[o]
  BY <1>5
<1>10. SlottedBy(c, rows, x, g)
  BY <1>2, <1>3, <1>4, <1>6, <1>8, <1>9, InRows DEF SlottedBy
<1> QED
  BY <1>3, <1>7, <1>10 DEF Halfway, Slotted

LEMMA LeastNat ==
  ASSUME NEW T \in SUBSET Nat, T # {}
  PROVE  \E x \in T : \A y \in T : x <= y
<1> DEFINE Less == OpToRel(<, Nat)
<1>1. IsWellFoundedOn(Less, Nat)
  BY NatLessThanWellFounded
<1>2. \A y, x \in Nat : y < x => <<y, x>> \in Less
  BY Zenon DEF OpToRel
<1> HIDE DEF Less
<1>3. PICK x \in T : \A y \in T : ~(<<y, x>> \in Less)
  BY <1>1, WFMin
<1>4. ASSUME NEW y \in T PROVE x <= y
  <2>1. y \in Nat /\ x \in Nat /\ ~(y < x)
    BY <1>2, <1>3
  <2> QED
    BY <2>1
<1> QED
  BY <1>4

\* delete_version deletes a row if the path has one with the hash.
LEMMA OldestMatchThere ==
  ASSUME TypeInv, NEW x \in Path, NEW h, RowsOf(x) \cap Refs(h) # {}
  PROVE  OldestMatch(x, h) # {}
<1> DEFINE S == RowsOf(x) \cap Refs(h)
           T == {r.uuid : r \in S}
<1>1. S \subseteq Row
  BY RowsOfFinite
<1>2. T \in SUBSET Nat /\ T # {}
  <2> HIDE DEF S
  <2> QED
    BY <1>1 DEF Row, S
<1>3. PICK t \in T : \A u \in T : t <= u
  <2> HIDE DEF T
  <2> QED
    BY <1>2, LeastNat
<1>4. PICK r \in S : r.uuid = t
  OBVIOUS
<1>5. \A o \in S : r.uuid <= o.uuid
  BY <1>3, <1>4
<1>6. r \in OldestMatch(x, h)
  BY <1>5 DEF OldestMatch
<1> QED
  BY <1>6

\* Deleting the oldest row with the next hash frees its place, or there is none.
LEMMA SlottedDelete ==
  ASSUME TypeInv, NEW c \in Call, NEW d \in Call, NEW x \in Path,
         d.target = {x}, d.keep = c.keep,
         c.victims # <<>>, d.victims = Tail(c.victims),
         NEW g, SlottedBy(c, rows, x, g)
  PROVE  Slotted(d, rows \ OldestMatch(x, Head(c.victims)))
<1> DEFINE h == Head(c.victims)
           gone == OldestMatch(x, h)
           R == In(rows, x)
           Q == In(rows \ gone, x)
           n == Len(c.victims)
           k == c.keep
<1>1. /\ n \in Nat /\ n >= 1 /\ k \in Nat
      /\ h = c.victims[1]
      /\ Len(d.victims) = n - 1
      /\ \A i \in 1..(n - 1) : d.victims[i] = c.victims[i + 1]
  <2>1. c.victims \in Seq(Hash) /\ n \in Nat
    BY DEF Call
  <2>2. n >= 1
    BY <2>1, EmptySeq
  <2>3. /\ Tail(c.victims) \in Seq(Hash) /\ Len(Tail(c.victims)) = n - 1
        /\ \A i \in 1..(n - 1) : Tail(c.victims)[i] = c.victims[i + 1]
    BY <2>1, <2>2, HeadTailProperties
  <2>4. k \in Nat
    BY BoundAssumption DEF Call
  <2> QED
    BY <2>1, <2>2, <2>3, <2>4
<1>2. /\ g \in [R -> 1..(k + n)]
      /\ \A r, o \in R : r # o => g[r] # g[o]
      /\ \A r \in R : g[r] > k => c.victims[g[r] - k] = r.hash
  BY DEF SlottedBy
<1>3. /\ R = RowsOf(x) /\ R \subseteq Row /\ IsFiniteSet(R)
  BY InRows, RowsOfFinite
<1>4. /\ gone \subseteq R /\ Q = R \ gone
      /\ \A o \in gone : o.hash = h
  BY <1>3 DEF OldestMatch, RowsOf, Refs, In
<1>5. ASSUME NEW r \in R, r.hash = h PROVE gone # {}
  <2>1. r \in RowsOf(x) \cap Refs(h)
    BY <1>3, <1>5 DEF Refs, RowsOf
  <2> QED
    BY <2>1, OldestMatchThere
<1> HIDE DEF h, gone, R, Q, n, k
\* The place of r once the row o is gone.
<1> DEFINE place(r) == IF g[r] = k + 1 THEN CHOOSE j : \E o \in gone : j = g[o] ELSE g[r]
           f == [r \in Q |-> IF place(r) > k THEN place(r) - 1 ELSE place(r)]
<1>6. ASSUME NEW r \in Q, g[r] = k + 1
      PROVE  \E o \in gone : place(r) = g[o] /\ o \in R /\ o # r
  <2>1. g[r] - k = 1 /\ g[r] > k
    BY <1>1, <1>6
  <2>2. r \in R /\ r \notin gone /\ r.hash = h
    BY <1>1, <1>2, <1>4, <2>1
  <2>3. gone # {}
    BY <1>5, <2>2
  <2>4. \E o \in gone : place(r) = g[o]
    BY <1>6, <2>3
  <2> QED
    BY <1>4, <2>2, <2>4
<1>7. ASSUME NEW r \in Q
      PROVE  /\ place(r) \in 1..(k + n) /\ place(r) # k + 1
             /\ place(r) > k => c.victims[place(r) - k] = r.hash
  <2>1. r \in R
    BY <1>4
  <2>2. CASE g[r] = k + 1
    <3>1. PICK o \in gone : place(r) = g[o] /\ o \in R /\ o # r
      BY <1>6, <2>2
    <3>2. g[r] - k = 1 /\ g[r] > k
      BY <1>1, <2>2
    <3>3. r.hash = h /\ o.hash = h
      BY <1>1, <1>2, <1>4, <2>1, <3>2
    <3>4. g[o] # g[r]
      BY <1>2, <2>1, <3>1
    <3> HIDE DEF place
    <3> QED
      BY <1>2, <2>2, <3>1, <3>3, <3>4
  <2>3. CASE g[r] # k + 1
    <3>1. place(r) = g[r]
      BY <2>3
    <3> HIDE DEF place
    <3> QED
      BY <1>2, <2>1, <2>3, <3>1
  <2> QED
    BY <2>2, <2>3
<1>8. ASSUME NEW r \in Q, NEW q \in Q, r # q PROVE place(r) # place(q)
  <2>1. r \in R /\ q \in R /\ r \notin gone /\ q \notin gone /\ g[r] # g[q]
    BY <1>2, <1>4, <1>8
  <2>2. CASE g[r] = k + 1
    <3>1. PICK o \in gone : place(r) = g[o] /\ o \in R
      BY <1>6, <2>2
    <3>2. place(q) = g[q]
      BY <2>1, <2>2
    <3> QED
      BY <1>2, <2>1, <3>1, <3>2
  <2>3. CASE g[q] = k + 1
    <3>1. PICK o \in gone : place(q) = g[o] /\ o \in R
      BY <1>6, <2>3
    <3>2. place(r) = g[r]
      BY <2>1, <2>3
    <3> QED
      BY <1>2, <2>1, <3>1, <3>2
  <2>4. CASE g[r] # k + 1 /\ g[q] # k + 1
    BY <2>1, <2>4
  <2> QED
    BY <2>2, <2>3, <2>4
<1>9. \A r \in Q : f[r] = IF place(r) > k THEN place(r) - 1 ELSE place(r)
  OBVIOUS
<1>10. DOMAIN f = Q /\ f = [r \in Q |-> f[r]]
  OBVIOUS
<1> HIDE DEF place, f
<1>11. ASSUME NEW r \in Q
       PROVE  /\ f[r] \in 1..(k + (n - 1))
              /\ f[r] > k => d.victims[f[r] - k] = r.hash
  <2>1. CASE place(r) > k
    <3>1. f[r] = place(r) - 1 /\ place(r) \in 1..(k + n) /\ place(r) >= k + 2
      BY <1>1, <1>7, <1>9, <2>1
    <3>2. f[r] - k \in 1..(n - 1) /\ (f[r] - k) + 1 = place(r) - k
      <4> DEFINE a == place(r)
      <4>1. k \in Nat /\ n \in Nat /\ a \in 1..(k + n) /\ a >= k + 2
        BY <1>1, <3>1
      <4> HIDE DEF a, k, n
      <4>2. (a - 1) - k \in 1..(n - 1) /\ ((a - 1) - k) + 1 = a - k
        BY <4>1
      <4> QED
        BY <3>1, <4>2 DEF a
    <3>3. d.victims[f[r] - k] = c.victims[place(r) - k]
      BY <1>1, <3>2
    <3>4. c.victims[place(r) - k] = r.hash
      BY <1>7, <2>1
    <3>5. f[r] \in 1..(k + (n - 1))
      BY <1>1, <3>1
    <3> QED
      BY <3>3, <3>4, <3>5
  <2>2. CASE ~(place(r) > k)
    <3>1. f[r] = place(r) /\ place(r) \in 1..(k + n)
      BY <1>7, <1>9, <2>2
    <3> QED
      BY <1>1, <2>2, <3>1
  <2> QED
    BY <2>1, <2>2
<1>12. ASSUME NEW r \in Q, NEW q \in Q, r # q PROVE f[r] # f[q]
  <2>1. /\ place(r) \in 1..(k + n) /\ place(q) \in 1..(k + n)
        /\ place(r) # place(q) /\ place(r) # k + 1 /\ place(q) # k + 1
    BY <1>7, <1>8, <1>12
  <2> QED
    BY <1>1, <1>9, <2>1
<1>13. f \in [Q -> 1..(k + (n - 1))]
  BY <1>10, <1>11
<1>14. SlottedBy(d, rows \ gone, x, f)
  BY <1>1, <1>11, <1>12, <1>13 DEF SlottedBy, Q, k
<1> QED
  BY <1>14 DEF Slotted, gone, h

LEMMA LeftLess ==
  ASSUME NEW c, NEW R, NEW Q, IsFiniteSet(R), Q \subseteq R, c.keep \in Nat, Left(c, R)
  PROVE  Left(c, Q)
<1> DEFINE d == [pc |-> "count", target |-> c.target, keep |-> c.keep, todo |-> c.todo]
<1>1. Left(d, R) /\ d.keep \in Nat
  BY DEF Left
<1>2. Halfway(d, R)
  BY <1>1 DEF Halfway
<1>3. Halfway(d, Q)
  BY <1>1, <1>2, HalfwayLess
<1> QED
  BY <1>3 DEF Halfway, Left

\* Places for all rows and no hash left to delete: nothing more than the rows
\* that stay.
LEMMA SlottedDone ==
  ASSUME NEW c, NEW R, c.keep \in Nat, c.victims = <<>>, Slotted(c, R)
  PROVE  Left(c, R)
<1>1. PICK x, g : SlottedBy(c, R, x, g)
  BY DEF Slotted
<1>2. c.target = {x} /\ g \in Injection(In(R, x), 1..c.keep)
  BY <1>1 DEF SlottedBy, Injection, IsInjective
<1> DEFINE k == c.keep
<1>3. IsFiniteSet(1..k) /\ Cardinality(1..k) = k
  <2>1. k \in Nat /\ 1 \in Int /\ k \in Int
    OBVIOUS
  <2>2. IsFiniteSet(1..k) /\ Cardinality(1..k) = IF 1 > k THEN 0 ELSE k - 1 + 1
    <3> HIDE DEF k
    <3> QED
      BY <2>1, FS_Interval
  <2> HIDE DEF k
  <2> QED
    BY <2>1, <2>2
<1>4. Cardinality(In(R, x)) <= c.keep
  BY <1>2, <1>3, FS_Injection
<1> QED
  BY <1>2, <1>4 DEF Left

LEMMA DeleteAllLeft ==
  ASSUME TypeInv, NEW p \in Proc, Halfway(call[p], rows), DeleteAll(p)
  PROVE  \E c \in Call : /\ call'[p] = Continue(c) /\ Left(c, rows')
                         /\ c.target = call[p].target /\ c.keep = call[p].keep
<1> DEFINE b == call[p]
           y == Head(b.todo)
           c == [b EXCEPT !.todo = Tail(@)]
<1>1. /\ call \in [Proc -> Call] /\ b \in Call /\ b.pc = "delete_all" /\ b.todo # <<>>
      /\ b.todo \in Seq(Path)
      /\ b.keep \in Nat
  BY BoundAssumption DEF TypeInv, TypeOK, LoadedCall, Loaded, DeleteAll, At, Call
<1>2. Left(b, rows)
  BY <1>1 DEF Halfway
<1>3. rows' = rows \ RowsOf(y) /\ call'[p] = Continue(c)
  BY <1>1 DEF DeleteAll, Goto
<1>4. /\ Tail(b.todo) \in Seq(Path) /\ y = b.todo[1]
      /\ Len(Tail(b.todo)) = Len(b.todo) - 1
      /\ \A i \in 1..(Len(b.todo) - 1) : Tail(b.todo)[i] = b.todo[i + 1]
  BY <1>1, HeadTailProperties
<1>5. /\ c \in Call /\ c.todo = Tail(b.todo)
      /\ c.target = b.target /\ c.keep = b.keep
  BY <1>1, <1>4 DEF Call
<1>6. IsFiniteSet(rows) /\ rows' \subseteq rows
  BY <1>3 DEF TypeInv
<1>7. Left(b, rows')
  BY <1>1, <1>2, <1>6, LeftLess
<1> HIDE DEF c, b
<1>8. ASSUME NEW x \in b.target
      PROVE  (\E i \in DOMAIN Tail(b.todo) : Tail(b.todo)[i] = x)
               \/ Cardinality(In(rows', x)) <= b.keep
  <2>1. CASE x = y
    <3>1. In(rows', x) = {}
      BY <1>3, <2>1 DEF In, RowsOf
    <3> QED
      BY <1>1, <3>1, FS_EmptySet
  <2>2. ASSUME x # y, NEW i \in DOMAIN b.todo, b.todo[i] = x
        PROVE  \E j \in DOMAIN Tail(b.todo) : Tail(b.todo)[j] = x
    <3>1. i \in 1..Len(b.todo) /\ Len(b.todo) \in Nat /\ i # 1
      BY <1>1, <1>4, <2>2
    <3>2. i - 1 \in 1..(Len(b.todo) - 1) /\ (i - 1) + 1 = i
      BY <3>1
    <3>3. DOMAIN Tail(b.todo) = 1..(Len(b.todo) - 1)
      BY <1>4
    <3> QED
      BY <1>4, <2>2, <3>2, <3>3
  <2> QED
    BY <1>7, <2>1, <2>2 DEF Left
<1>9. Left(c, rows')
  BY <1>5, <1>8 DEF Left
<1> QED
  BY <1>3, <1>5, <1>9 DEF b

LEMMA CountLeft ==
  ASSUME TypeInv, NEW p \in Proc, Halfway(call[p], rows), Count(p) \/ Unlink(p)
  PROVE  \E c \in Call : /\ call'[p] = Continue(c) \/ (call'[p] = c /\ c.pc = "unlink")
                         /\ Left(c, rows')
                         /\ c.target = call[p].target /\ c.keep = call[p].keep
<1> DEFINE b == call[p]
           c == [b EXCEPT !.deleted = Tail(@)]
           u == [b EXCEPT !.pc = "unlink"]
<1>1. /\ call \in [Proc -> Call] /\ b \in Call /\ b.pc \in {"count", "unlink"}
      /\ b.deleted # <<>> /\ b.deleted \in Seq(Hash)
  BY DEF TypeInv, TypeOK, LoadedCall, Loaded, Count, Unlink, At, Call
<1>2. Left(b, rows) /\ rows' = rows
  BY <1>1 DEF Halfway, Count, Unlink
<1>3. Tail(b.deleted) \in Seq(Hash)
  BY <1>1, HeadTailProperties
<1>4. /\ c \in Call /\ c.target = b.target /\ c.keep = b.keep /\ c.todo = b.todo
      /\ u \in Call /\ u.target = b.target /\ u.keep = b.keep /\ u.todo = b.todo
      /\ u.pc = "unlink"
  BY <1>1, <1>3 DEF Call, PC
<1>5. call'[p] = Continue(c) \/ call'[p] = u
  BY <1>1 DEF Count, Unlink, Goto
<1> HIDE DEF c, u, b
<1>6. Left(c, rows') /\ Left(u, rows')
  BY <1>2, <1>4 DEF Left
<1> QED
  BY <1>4, <1>5, <1>6 DEF b

LEMMA TrimLeft ==
  ASSUME TypeInv, NEW p \in Proc, Halfway(call[p], rows), TrimDelete(p)
  PROVE  \E c \in Call : /\ \/ call'[p] = Continue(c) /\ Left(c, rows')
                            \/ call'[p] = c /\ c.pc = "trim_delete" /\ Halfway(c, rows')
                         /\ c.target = call[p].target /\ c.keep = call[p].keep
<1>1. /\ call[p] \in Call /\ call[p].pc = "trim_delete" /\ call[p].victims # <<>>
      /\ call[p].keep \in Nat
  BY BoundAssumption DEF TypeInv, TypeOK, LoadedCall, Loaded, TrimDelete, At, Call
<1>2. call[p].todo = <<>> /\ Slotted(call[p], rows)
  BY <1>1 DEF Halfway
<1>3. PICK x, g : SlottedBy(call[p], rows, x, g)
  BY <1>2 DEF Slotted
<1>4. x \in Path /\ call[p].target = {x}
  BY <1>3 DEF SlottedBy
<1>5. PICK c \in Call :
        /\ rows' = rows \ OldestMatch(x, Head(call[p].victims))
        /\ c.pc = "trim_delete" /\ c.target = {x} /\ c.keep = call[p].keep
        /\ c.todo = call[p].todo
        /\ c.victims = Tail(call[p].victims)
        /\ call'[p] = IF c.victims # <<>> THEN c ELSE Continue(c)
  BY <1>4, TrimDeletes
<1>6. Slotted(c, rows')
  BY <1>1, <1>3, <1>4, <1>5, SlottedDelete
<1>7. CASE c.victims # <<>>
  BY <1>2, <1>4, <1>5, <1>6, <1>7 DEF Halfway
<1>8. CASE c.victims = <<>>
  <2>1. Left(c, rows')
    BY <1>1, <1>5, <1>6, <1>8, SlottedDone
  <2> QED
    BY <1>4, <1>5, <1>8, <2>1
<1> QED
  BY <1>7, <1>8

\* What a step of the removal of p leaves to do.
LEMMA RemovalStep ==
  ASSUME TypeInv, NEW p \in Proc, Halfway(call[p], rows),
         DeleteAll(p) \/ TrimDelete(p) \/ Count(p) \/ Unlink(p)
  PROVE  /\ Halfway(call'[p], rows')
         /\ call'[p].pc = "idle" =>
              \A x \in call[p].target : Cardinality(In(rows', x)) <= call[p].keep
<1>1. PICK c \in Call :
        /\ \/ call'[p] = Continue(c) /\ Left(c, rows')
           \/ call'[p] = c /\ c.pc = "unlink" /\ Left(c, rows')
           \/ call'[p] = c /\ c.pc = "trim_delete" /\ Halfway(c, rows')
        /\ c.target = call[p].target /\ c.keep = call[p].keep
  BY DeleteAllLeft, CountLeft, TrimLeft
<1>2. CASE call'[p] = Continue(c) /\ Left(c, rows')
  BY <1>1, <1>2, ContinueHalfway
<1>3. CASE call'[p] = c /\ c.pc = "unlink" /\ Left(c, rows')
  BY <1>3 DEF Halfway
<1>4. CASE call'[p] = c /\ c.pc = "trim_delete" /\ Halfway(c, rows')
  BY <1>4
<1> QED
  BY <1>1, <1>2, <1>3, <1>4

\* A removal that begins has everything to do.
LEMMA RemovalStart ==
  ASSUME TypeInv, NEW p \in Proc,
         RemovePath(p) \/ RemoveVersion(p) \/ RemoveFolder(p) \/ TrimPath(p)
  PROVE  Halfway(call'[p], rows')
<1>1. call \in [Proc -> Call]
  BY DEF TypeInv, TypeOK
<1>2. CASE RemovePath(p)
  <2>1. PICK x \in Path : SelectHashes(p, [NoCall EXCEPT !.target = {x}, !.todo = <<x>>])
    BY <1>2 DEF RemovePath
  <2> DEFINE t == <<x>>
             c == [NoCall EXCEPT !.target = {x}, !.todo = t]
  <2>2. c.target = {x} /\ c.todo = t /\ DOMAIN t = 1..1 /\ t[1] = x
    BY DEF NoCall
  <2>3. \A hs : LET d == [c EXCEPT !.pc = "delete_all", !.deleted = hs]
                IN  d.pc = "delete_all" /\ d.target = {x} /\ d.todo = t
    BY DEF NoCall
  <2>4. PICK hs : Goto(p, [c EXCEPT !.pc = "delete_all", !.deleted = hs])
    BY <2>1 DEF SelectHashes
  <2> HIDE DEF t, c
  <2> DEFINE d == [c EXCEPT !.pc = "delete_all", !.deleted = hs]
  <2>5. call'[p] = d /\ d.pc = "delete_all" /\ d.target = {x} /\ d.todo = t
    BY <1>1, <2>3, <2>4 DEF Goto
  <2> HIDE DEF d
  <2>6. 1 \in DOMAIN t
    BY <2>2
  <2> QED
    BY <2>2, <2>5, <2>6 DEF Halfway, Left
<1>3. CASE RemoveVersion(p)
  <2>1. PICK x \in Path, h \in Hash :
          Goto(p, IF OldestMatch(x, h) = {} THEN NoCall
                  ELSE [NoCall EXCEPT !.pc = "count", !.deleted = <<h>>])
    BY <1>3 DEF RemoveVersion
  <2>2. call'[p].target = {} /\ call'[p].pc # "trim_delete"
    BY <1>1, <2>1 DEF Goto, NoCall
  <2> QED
    BY <2>2 DEF Halfway, Left
<1>4. CASE RemoveFolder(p)
  <2>1. PICK f \in Folders : \E s \in Listings(f) :
          Goto(p, Continue([NoCall EXCEPT !.target = f, !.todo = s]))
    BY <1>4 DEF RemoveFolder
  <2>2. PICK s \in Listings(f) :
          Goto(p, Continue([NoCall EXCEPT !.target = f, !.todo = s]))
    BY <2>1
  <2> DEFINE c == [NoCall EXCEPT !.target = f, !.todo = s]
  <2>3. f \in SUBSET Path /\ IsFiniteSet(rows) /\ rows \subseteq Row
    BY DataAssumption DEF TypeInv, TypeOK
  <2>4. s \in Seq(Path)
    BY <2>3, ListingIsSeq
  <2>5. /\ c \in Call /\ c.target = f /\ c.todo = s /\ c.keep = 0
    BY <2>3, <2>4, NoCallType DEF NoCall, LoadedCall, Call
  <2>6. ASSUME NEW x \in f, \A i \in DOMAIN s : s[i] # x
        PROVE  Cardinality(In(rows, x)) <= 0
    <3>1. Cardinality({i \in DOMAIN s : s[i] = x}) = Cardinality(RowsOf(x))
      BY DEF Listings
    <3>2. {i \in DOMAIN s : s[i] = x} = {}
      BY <2>6
    <3>3. Cardinality(RowsOf(x)) = 0
      BY <3>1, <3>2, FS_EmptySet
    <3> QED
      BY <3>3, InRows
  <2> HIDE DEF c
  <2>7. Left(c, rows)
    BY <2>5, <2>6 DEF Left
  <2>8. call'[p] = Continue(c) /\ rows' = rows
    BY <1>1, <1>4, <2>2 DEF Goto, c, RemoveFolder
  <2> QED
    BY <2>5, <2>7, <2>8, ContinueHalfway
<1>5. CASE TrimPath(p)
  <2>1. rows' = rows /\ call'[p].pc \in {"idle", "trim_delete"}
    BY <1>5, StartPc DEF TrimPath
  <2> QED
    BY <1>5, <2>1, SlottedAtFirst DEF Halfway
<1> QED
  BY <1>2, <1>3, <1>4, <1>5

LEMMA RemoveNextHalfway ==
  ASSUME TypeInv, NEW p \in Proc, Halfway(call[p], rows), RemoveNext(p)
  PROVE  Halfway(call'[p], rows')
<1>1. call \in [Proc -> Call] /\ call[p] \in Call /\ call[p].pc = "folder"
  BY DEF TypeInv, TypeOK, RemoveNext, At
<1>2. PICK hs : Goto(p, [call[p] EXCEPT !.pc = "delete_all", !.deleted = hs])
  BY DEF RemoveNext, SelectHashes
<1>3. /\ call'[p].pc = "delete_all" /\ call'[p].target = call[p].target
      /\ call'[p].keep = call[p].keep /\ call'[p].todo = call[p].todo
  BY <1>1, <1>2 DEF Goto, Call
<1>4. rows' = rows /\ Left(call[p], rows)
  BY <1>1 DEF RemoveNext, SelectHashes, Halfway
<1> QED
  BY <1>3, <1>4 DEF Halfway, Left

-----------------------------------------------------------------------------
RemovalInv == \A p \in Proc : Halfway(call[p], rows)

\* No process removes while a different process adds.
RolesApart ==
  \A p, q \in Proc : p # q => "add" \notin Ops[p] \/ Ops[q] \cap Removals = {}

LEMMA InitRemoval == Init => RemovalInv
BY DEF Init, RemovalInv, Halfway, NoCall

LEMMA NextRemoval ==
  ASSUME RolesApart
  PROVE  TypeInv /\ Roles /\ RemovalInv /\ [Next]_vars => RemovalInv'
<1> SUFFICES ASSUME TypeInv, Roles, RemovalInv, [Next]_vars PROVE RemovalInv'
  OBVIOUS
<1>1. CASE UNCHANGED vars
  BY <1>1 DEF vars, RemovalInv
<1>2. ASSUME NEW p \in Proc, Start(p) \/ Step(p) \/ Interrupt(p) PROVE RemovalInv'
  <2> DEFINE Busy == {"folder", "delete_all", "trim_delete", "count", "unlink"}
  <2> SUFFICES ASSUME NEW q \in Proc PROVE Halfway(call'[q], rows')
    BY DEF RemovalInv
  <2>1. CASE call'[q].pc \notin Busy
    BY <2>1 DEF Halfway
  <2>2. CASE q # p /\ call'[q].pc \in Busy
    <3>1. call'[q] = call[q] /\ call[q] \in Call
      BY <1>2, <2>2, OthersStay DEF TypeInv, TypeOK
    <3>2. Ops[q] \cap Removals # {}
      BY <2>2, <3>1 DEF Roles
    <3>3. ~InsertEntries(p)
      <4>1. InsertEntries(p) => "add" \in Ops[p]
        BY DEF InsertEntries, At, Roles
      <4> QED
        BY <2>2, <3>2, <4>1 DEF RolesApart
    <3>4. rows' \subseteq rows /\ IsFiniteSet(rows)
      BY <1>2, <3>3, RowsShrink DEF TypeInv
    <3>5. call[q].keep \in Nat
      BY <3>1, BoundAssumption DEF Call
    <3>6. Halfway(call[q], rows')
      BY <3>4, <3>5, HalfwayLess DEF RemovalInv
    <3> QED
      BY <3>1, <3>6
  <2>3. CASE q = p /\ call'[q].pc \in Busy
    <3>1. Halfway(call[p], rows)
      BY DEF RemovalInv
    <3>2. CASE Start(p)
      <4>1. RemovePath(p) \/ RemoveVersion(p) \/ RemoveFolder(p) \/ TrimPath(p)
        BY <2>3, <3>2, StartPc DEF Start
      <4> QED
        BY <2>3, <4>1, RemovalStart
    <3>3. CASE Step(p)
      <4>1. RemoveNext(p) \/ DeleteAll(p) \/ TrimDelete(p) \/ Count(p) \/ Unlink(p)
        BY <2>3, <3>3, StepPc DEF Step
      <4> QED
        BY <2>3, <3>1, <4>1, RemoveNextHalfway, RemovalStep
    <3>4. ~Interrupt(p)
      BY <2>3, StepPc
    <3> QED
      BY <1>2, <3>2, <3>3, <3>4
  <2> QED
    BY <2>1, <2>2, <2>3
<1> QED
  BY <1>1, <1>2 DEF Next

\* If no process removes while a different one adds, a removal that returns has
\* left each of its paths with no more versions than it was told to leave, with
\* other removals at work on the same paths and contents.
THEOREM RemovalsComplete ==
  ASSUME RolesApart
  PROVE  Spec => RemovalDone
<1> DEFINE Completes ==
      \A p \in Proc :
        /\ call[p].pc \in {"delete_all", "trim_delete", "count", "unlink"}
        /\ call'[p].pc = "idle" /\ faults' = faults
        => \A x \in call[p].target : Cardinality(RowsOf(x)') <= call[p].keep
<1>1. TypeInv /\ Roles /\ RemovalInv /\ [Next]_vars => [Completes]_vars
  <2> SUFFICES ASSUME TypeInv, Roles, RemovalInv, [Next]_vars, ~UNCHANGED vars,
                      NEW p \in Proc,
                      call[p].pc \in {"delete_all", "trim_delete", "count", "unlink"},
                      call'[p].pc = "idle", faults' = faults,
                      NEW x \in call[p].target
               PROVE  Cardinality(RowsOf(x)') <= call[p].keep
    OBVIOUS
  <2>1. PICK q \in Proc : Start(q) \/ Step(q) \/ Interrupt(q)
    BY DEF Next
  <2>2. q = p
    BY <2>1, OthersStay
  <2>3. ~Interrupt(p)
    BY DEF Interrupt, TypeInv, TypeOK
  <2>4. DeleteAll(p) \/ TrimDelete(p) \/ Count(p) \/ Unlink(p)
    BY <2>1, <2>2, <2>3 DEF Start, Step, AddReader, Persist, NowV7, InsertEntries,
       RemovePath, RemoveVersion, RemoveFolder, RemoveNext, TrimPath,
       GetLatest, OpenBlob, GetReaderByHash, StatBlob, StatCount, Ready, At
  <2>5. Halfway(call[p], rows)
    BY DEF RemovalInv
  <2>6. Cardinality(In(rows', x)) <= call[p].keep
    BY <2>4, <2>5, RemovalStep
  <2>7. RowsOf(x)' = In(rows', x)
    BY DEF RowsOf, In
  <2> QED
    BY <2>6, <2>7
<1>2. Spec => [][Completes]_vars
  BY <1>1, TypeInvariance, InitRoles, NextRoles, InitRemoval, NextRemoval, PTL DEF Spec
<1> QED
  BY <1>2 DEF RemovalDone
=============================================================================
