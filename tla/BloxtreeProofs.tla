--------------------------- MODULE BloxtreeProofs ---------------------------
(***************************************************************************)
(* Theorems about Bloxtree, for any number of processes, paths, contents   *)
(* and calls: type correctness, and the conditions under which no row of   *)
(* the index loses its blob.                                               *)
(***************************************************************************)
EXTENDS Bloxtree, FiniteSetTheorems, SequenceTheorems, TLAPS

-----------------------------------------------------------------------------
(* Finite sets and their orderings.                                        *)

LEMMA ImageFinite ==
  ASSUME NEW S, IsFiniteSet(S), NEW f
  PROVE  IsFiniteSet({f[x] : x \in S})
<1> DEFINE T == {f[x] : x \in S}
           g == [x \in S |-> f[x]]
<1>1. g \in Surjection(S, T)
  BY DEF Surjection
<1> HIDE DEF T, g
<1>2. IsFiniteSet(T)
  BY <1>1, FS_Surjection
<1> QED
  BY <1>2 DEF T

\* An ordering of a finite set is a sequence of its elements.
LEMMA OrderingIsSeq ==
  ASSUME NEW S, IsFiniteSet(S), NEW s \in Orderings(S)
  PROVE  /\ s \in Seq(S)
         /\ Len(s) = Cardinality(S)
         /\ DOMAIN s = 1..Cardinality(S)
<1>1. Cardinality(S) \in Nat
  BY FS_CardinalityType
<1>2. s \in [1..Cardinality(S) -> S]
  BY DEF Orderings, Surjection
<1> QED
  BY <1>1, <1>2, SeqDef

\* So is a listing of a folder.
LEMMA ListingIsSeq ==
  ASSUME NEW f \in SUBSET Path, IsFiniteSet(rows), rows \subseteq Row,
         NEW s \in Listings(f)
  PROVE  s \in Seq(Path)
<1> DEFINE R == {r \in rows : r.path \in f}
<1>1. IsFiniteSet(R)
  BY FS_Subset
<1>2. Cardinality(R) \in Nat
  BY <1>1, FS_CardinalityType
<1>3. s \in [1..Cardinality(R) -> {r.path : r \in R}]
  BY DEF Listings
<1>4. {r.path : r \in R} \subseteq Path
  BY DEF Row
<1>5. s \in [1..Cardinality(R) -> Path]
  BY <1>3, <1>4
<1> QED
  BY <1>2, <1>5, SeqDef

LEMMA FunctionIsSeq ==
  ASSUME NEW S, NEW n \in Nat, NEW v \in [1..n -> S]
  PROVE  /\ v \in Seq(S)
         /\ Len(v) = n
         /\ n >= 1 => v # <<>>
<1>1. v \in Seq(S)
  BY SeqDef
<1>2. Len(v) = n
  BY <1>1, LenProperties
<1> QED
  BY <1>1, <1>2, EmptySeq

LEMMA SingletonIsSeq ==
  ASSUME NEW S, NEW e \in S
  PROVE  <<e>> \in Seq(S) /\ <<e>> # <<>>
OBVIOUS

LEMMA SeededFinite ==
  ASSUME NEW R, R \subseteq [path : Path, uuid : 1..Seeded, hash : Hash]
  PROVE  IsFiniteSet(R)
<1> DEFINE D == (Path \X (1..Seeded)) \X Hash
           T == [path : Path, uuid : 1..Seeded, hash : Hash]
           f == [d \in D |-> [path |-> d[1][1], uuid |-> d[1][2], hash |-> d[2]]]
<1>1. IsFiniteSet(1..Seeded)
  BY BoundAssumption, FS_Interval
<1>2. IsFiniteSet(D)
  BY <1>1, DataAssumption, FS_Product
<1>4. ASSUME NEW r \in R
      PROVE  r \in {f[d] : d \in D}
  <2>1. <<<<r.path, r.uuid>>, r.hash>> \in D
    OBVIOUS
  <2>2. r = [path |-> r.path, uuid |-> r.uuid, hash |-> r.hash]
    OBVIOUS
  <2>3. f[<<<<r.path, r.uuid>>, r.hash>>] = r
    BY <2>1, <2>2
  <2> HIDE DEF f
  <2> QED
    BY <2>1, <2>3
<1>5. R \in SUBSET {f[d] : d \in D}
  BY <1>4
<1> HIDE DEF D, f
<1>3. IsFiniteSet({f[d] : d \in D})
  BY <1>2, ImageFinite
<1> QED
  BY <1>3, <1>5, FS_Subset

-----------------------------------------------------------------------------
(* Type correctness.  TypeOK is not inductive by itself: the statement that *)
(* takes the head of a list needs the list not to be empty.                 *)

\* A call never stands before a statement whose operand it lacks.
Loaded(c) ==
  /\ c.pc \in {"folder", "delete_all"} => c.todo # <<>>
  /\ c.pc = "trim_delete" => c.victims # <<>>
  /\ c.pc \in {"count", "unlink"} => c.deleted # <<>>
  /\ c.pc \in {"persist", "uuid", "insert"} => c.hash \in Hash

LoadedCall == {c \in Call : Loaded(c)}

TypeInv ==
  /\ TypeOK
  /\ IsFiniteSet(rows)
  /\ call \in [Proc -> LoadedCall]

LEMMA NoCallType == NoCall \in LoadedCall
BY BoundAssumption DEF NoCall, LoadedCall, Loaded, Call, PC

LEMMA ContinueType ==
  ASSUME NEW c \in Call
  PROVE  /\ Continue(c) \in LoadedCall
         /\ Continue(c).pc \in {"count", "folder", "idle"}
<1>1. CASE c.deleted # <<>>
  <2>1. Continue(c) = [c EXCEPT !.pc = "count"]
    BY <1>1 DEF Continue
  <2> QED
    BY <1>1, <2>1 DEF LoadedCall, Loaded, Call, PC
<1>2. CASE c.deleted = <<>> /\ c.todo # <<>>
  <2>1. Continue(c) = [c EXCEPT !.pc = "folder"]
    BY <1>2 DEF Continue
  <2> QED
    BY <1>2, <2>1 DEF LoadedCall, Loaded, Call, PC
<1>3. CASE c.deleted = <<>> /\ c.todo = <<>>
  <2>1. Continue(c) = NoCall
    BY <1>3 DEF Continue
  <2> QED
    BY <2>1, NoCallType DEF NoCall
<1> QED
  BY <1>1, <1>2, <1>3

\* Goto changes the call of one process only.
LEMMA GotoType ==
  ASSUME TypeInv, NEW p \in Proc, NEW c \in LoadedCall, Goto(p, c)
  PROVE  /\ call' \in [Proc -> LoadedCall]
         /\ call' \in [Proc -> Call]
         /\ call'[p] = c
         /\ \A q \in Proc \ {p} : call'[q] = call[q]
BY DEF TypeInv, Goto, LoadedCall

LEMMA RowsOfFinite ==
  ASSUME TypeInv, NEW x
  PROVE  /\ IsFiniteSet(RowsOf(x))
         /\ IsFiniteSet({r.hash : r \in RowsOf(x)})
         /\ RowsOf(x) \subseteq Row
         /\ {r.hash : r \in RowsOf(x)} \subseteq Hash
<1>1. rows \subseteq Row
  BY DEF TypeInv, TypeOK
<1>2. RowsOf(x) \in SUBSET rows
  BY DEF RowsOf
<1>3. {r.hash : r \in RowsOf(x)} \in SUBSET Hash
  BY <1>1, <1>2 DEF Row
<1>4. IsFiniteSet(RowsOf(x))
  BY <1>2, FS_Subset DEF TypeInv
<1>5. IsFiniteSet({r.hash : r \in RowsOf(x)})
  BY <1>3, DataAssumption, FS_Subset
<1> QED
  BY <1>1, <1>2, <1>3, <1>4, <1>5

\* A step that adds no row needs only a well-typed call and blobs.
LEMMA TypeByCall ==
  ASSUME TypeInv, NEW p \in Proc, NEW c \in LoadedCall, Goto(p, c),
         rows' \in SUBSET rows, blobs' \in SUBSET Hash,
         clock' \in Nat, faults' \in 0..MaxFaults
  PROVE  TypeInv'
<1>1. IsFiniteSet(rows')
  BY FS_Subset DEF TypeInv
<1>2. rows' \subseteq Row
  BY DEF TypeInv, TypeOK
<1> QED
  BY <1>1, <1>2, GotoType DEF TypeInv, TypeOK

LEMMA InitType == Init => TypeInv
<1> SUFFICES ASSUME Init PROVE TypeInv
  OBVIOUS
<1>1. rows \subseteq [path : Path, uuid : 1..Seeded, hash : Hash]
  BY DEF Init
<1>2. IsFiniteSet(rows)
  BY <1>1, SeededFinite
<1>3. Seeded \in Nat
  BY BoundAssumption
<1>4. rows \subseteq Row
  BY <1>1, <1>3 DEF Row
<1>5. blobs \subseteq Hash
  BY <1>4 DEF Init, Row
<1>6. call \in [Proc -> LoadedCall] /\ call \in [Proc -> Call]
  BY NoCallType DEF Init, LoadedCall
<1> QED
  BY <1>2, <1>3, <1>4, <1>5, <1>6, BoundAssumption DEF Init, TypeInv, TypeOK

LEMMA AddReaderType ==
  ASSUME TypeInv, NEW p \in Proc, AddReader(p)
  PROVE  TypeInv'
<1>1. PICK ps \in (SUBSET Path) \ {{}}, h \in Hash :
        Goto(p, [NoCall EXCEPT !.pc = IF h \in blobs THEN "uuid" ELSE "persist",
                               !.target = ps, !.hash = h])
  BY DEF AddReader
<1>2. [NoCall EXCEPT !.pc = IF h \in blobs THEN "uuid" ELSE "persist",
                     !.target = ps, !.hash = h] \in LoadedCall
  <2> DEFINE c == [NoCall EXCEPT !.pc = IF h \in blobs THEN "uuid" ELSE "persist",
                                 !.target = ps, !.hash = h]
  <2>1. NoCall \in Call
    BY NoCallType DEF LoadedCall
  <2>2. c \in Call /\ c.pc \in {"uuid", "persist"} /\ c.hash = h
    BY <2>1 DEF Call, PC
  <2> HIDE DEF c
  <2>3. c \in LoadedCall
    BY <2>2 DEF LoadedCall, Loaded
  <2> QED
    BY <2>3 DEF c
<1> QED
  BY <1>1, <1>2, TypeByCall DEF AddReader, TypeInv, TypeOK

LEMMA PersistType ==
  ASSUME TypeInv, NEW p \in Proc, Persist(p)
  PROVE  TypeInv'
<1> DEFINE c == [call[p] EXCEPT !.pc = "uuid"]
<1>1. call[p] \in LoadedCall /\ call[p].hash \in Hash
  BY DEF TypeInv, LoadedCall, Loaded, Persist, At
<1>2. c \in LoadedCall
  BY <1>1 DEF LoadedCall, Loaded, Call, PC
<1>3. Goto(p, c) /\ blobs' = blobs \cup {call[p].hash}
  BY DEF Persist
<1> HIDE DEF c
<1> QED
  BY <1>1, <1>2, <1>3, TypeByCall DEF Persist, TypeInv, TypeOK

LEMMA NowV7Type ==
  ASSUME TypeInv, NEW p \in Proc, NowV7(p)
  PROVE  TypeInv'
<1> DEFINE c == [call[p] EXCEPT !.pc = "insert", !.uuid = clock + 1]
<1>1. call[p] \in LoadedCall /\ call[p].hash \in Hash /\ clock + 1 \in Nat
  BY DEF TypeInv, TypeOK, LoadedCall, Loaded, NowV7, At
<1>2. c \in LoadedCall
  BY <1>1 DEF LoadedCall, Loaded, Call, PC
<1>3. Goto(p, c) /\ clock' = clock + 1
  BY DEF NowV7
<1> HIDE DEF c
<1> QED
  BY <1>1, <1>2, <1>3, TypeByCall DEF NowV7, TypeInv, TypeOK

LEMMA InsertEntriesType ==
  ASSUME TypeInv, NEW p \in Proc, InsertEntries(p)
  PROVE  TypeInv'
<1> DEFINE c     == call[p]
           taken == {r.path : r \in {o \in rows : o.uuid = c.uuid}}
           f     == [x \in Path |-> [path |-> x, uuid |-> c.uuid, hash |-> c.hash]]
           new   == {f[x] : x \in c.target \ taken}
<1>1. c \in LoadedCall /\ c.hash \in Hash /\ c.target \subseteq Path /\ c.uuid \in Nat
  BY DEF TypeInv, LoadedCall, Loaded, InsertEntries, At, Call
<1>2. IsFiniteSet(c.target \ taken)
  <2>1. c.target \ taken \in SUBSET Path
    BY <1>1
  <2> QED
    BY <2>1, DataAssumption, FS_Subset
<1>3. IsFiniteSet(new)
  <2> HIDE DEF f, taken, c
  <2> QED
    BY <1>2, ImageFinite
<1>4. rows' = rows \cup new
  BY <1>1 DEF InsertEntries
<1>5. new \subseteq Row
  <2> HIDE DEF taken
  <2>1. ASSUME NEW x \in c.target \ taken
        PROVE  f[x] \in Row
    BY <1>1 DEF Row
  <2> QED
    BY <2>1
<1> HIDE DEF new
<1>6. IsFiniteSet(rows')
  BY <1>3, <1>4, FS_Union DEF TypeInv
<1>7. call' \in [Proc -> LoadedCall] /\ call' \in [Proc -> Call]
  BY NoCallType, GotoType DEF InsertEntries
<1> QED
  BY <1>4, <1>5, <1>6, <1>7 DEF InsertEntries, TypeInv, TypeOK

\* The two statements of delete_all_versions; the first also begins a call.
LEMMA SelectHashesType ==
  ASSUME TypeInv, NEW p \in Proc, NEW c \in Call, c.todo # <<>>, SelectHashes(p, c)
  PROVE  TypeInv'
<1>1. PICK hs \in Orderings({r.hash : r \in RowsOf(Head(c.todo))}) :
        Goto(p, [c EXCEPT !.pc = "delete_all", !.deleted = hs])
  BY DEF SelectHashes
<1>2. hs \in Seq(Hash)
  <2> DEFINE H == {r.hash : r \in RowsOf(Head(c.todo))}
  <2>1. IsFiniteSet(H) /\ H \subseteq Hash
    BY RowsOfFinite
  <2> HIDE DEF H
  <2>2. hs \in Seq(H)
    BY <1>1, <2>1, OrderingIsSeq DEF H
  <2> QED
    BY <2>1, <2>2, SeqMonotonic
<1>3. [c EXCEPT !.pc = "delete_all", !.deleted = hs] \in LoadedCall
  BY <1>2 DEF LoadedCall, Loaded, Call, PC
<1> QED
  BY <1>1, <1>3, TypeByCall DEF SelectHashes, TypeInv, TypeOK

LEMMA RemovePathType ==
  ASSUME TypeInv, NEW p \in Proc, RemovePath(p)
  PROVE  TypeInv'
<1>1. PICK x \in Path : SelectHashes(p, [NoCall EXCEPT !.target = {x}, !.todo = <<x>>])
  BY DEF RemovePath
<1> DEFINE t == <<x>>
           c == [NoCall EXCEPT !.target = {x}, !.todo = t]
<1>2. t \in Seq(Path) /\ t # <<>>
  BY SingletonIsSeq
<1>3. SelectHashes(p, c)
  BY <1>1
<1> HIDE DEF t
<1>4. c \in Call /\ c.todo # <<>>
  BY <1>2, NoCallType DEF NoCall, LoadedCall, Call
<1> HIDE DEF c
<1> QED
  BY <1>3, <1>4, SelectHashesType

LEMMA RemoveNextType ==
  ASSUME TypeInv, NEW p \in Proc, RemoveNext(p)
  PROVE  TypeInv'
BY SelectHashesType DEF RemoveNext, TypeInv, LoadedCall, Loaded, At

LEMMA DeleteAllType ==
  ASSUME TypeInv, NEW p \in Proc, DeleteAll(p)
  PROVE  TypeInv'
<1> DEFINE c == [call[p] EXCEPT !.todo = Tail(@)]
<1>1. call[p] \in Call /\ call[p].todo \in Seq(Path) /\ call[p].todo # <<>>
  BY DEF TypeInv, LoadedCall, Loaded, DeleteAll, At, Call
<1>2. c \in Call
  BY <1>1, HeadTailProperties DEF Call
<1>3. Continue(c) \in LoadedCall
  BY <1>2, ContinueType
<1>4. Goto(p, Continue(c)) /\ rows' \in SUBSET rows
  BY DEF DeleteAll
<1> QED
  BY <1>3, <1>4, TypeByCall DEF DeleteAll, TypeInv, TypeOK

LEMMA RemoveVersionType ==
  ASSUME TypeInv, NEW p \in Proc, RemoveVersion(p)
  PROVE  TypeInv'
<1>1. PICK x \in Path, h \in Hash :
        /\ rows' = rows \ OldestMatch(x, h)
        /\ Goto(p, IF OldestMatch(x, h) = {} THEN NoCall
                   ELSE [NoCall EXCEPT !.pc = "count", !.deleted = <<h>>])
  BY DEF RemoveVersion
<1>2. [NoCall EXCEPT !.pc = "count", !.deleted = <<h>>] \in LoadedCall
  <2> DEFINE d == <<h>>
  <2>1. d \in Seq(Hash) /\ d # <<>>
    BY SingletonIsSeq
  <2> HIDE DEF d
  <2>2. [NoCall EXCEPT !.pc = "count", !.deleted = d] \in LoadedCall
    BY <2>1, NoCallType DEF NoCall, LoadedCall, Loaded, Call, PC
  <2> QED
    BY <2>2 DEF d
<1> QED
  BY <1>1, <1>2, NoCallType, TypeByCall DEF RemoveVersion, TypeInv, TypeOK

LEMMA RemoveFolderType ==
  ASSUME TypeInv, NEW p \in Proc, RemoveFolder(p)
  PROVE  TypeInv'
<1>1. PICK f \in Folders : \E s \in Listings(f) :
        Goto(p, Continue([NoCall EXCEPT !.target = f, !.todo = s]))
  BY DEF RemoveFolder
<1>0. PICK s \in Listings(f) :
        Goto(p, Continue([NoCall EXCEPT !.target = f, !.todo = s]))
  BY <1>1
<1>2. f \in SUBSET Path
  BY DataAssumption
<1>3. s \in Seq(Path)
  BY <1>2, ListingIsSeq DEF TypeInv, TypeOK
<1>4. [NoCall EXCEPT !.target = f, !.todo = s] \in Call
  BY <1>2, <1>3, NoCallType DEF NoCall, LoadedCall, Call
<1>5. Continue([NoCall EXCEPT !.target = f, !.todo = s]) \in LoadedCall
  BY <1>4, ContinueType
<1> QED
  BY <1>0, <1>5, TypeByCall DEF RemoveFolder, TypeInv, TypeOK

LEMMA TrimPathType ==
  ASSUME TypeInv, NEW p \in Proc, TrimPath(p)
  PROVE  TypeInv'
<1>1. PICK x \in Path, k \in 1..MaxKeep : \E s \in Orderings(RowsOf(x)) :
        Goto(p, IF Len(s) <= k THEN NoCall
                ELSE [NoCall EXCEPT !.pc = "trim_delete", !.target = {x}, !.keep = k,
                        !.victims = [i \in 1..(Len(s) - k) |-> s[k + i].hash]])
  BY DEF TrimPath
<1>2. PICK s \in Orderings(RowsOf(x)) :
        Goto(p, IF Len(s) <= k THEN NoCall
                ELSE [NoCall EXCEPT !.pc = "trim_delete", !.target = {x}, !.keep = k,
                        !.victims = [i \in 1..(Len(s) - k) |-> s[k + i].hash]])
  BY <1>1
<1>3. s \in Seq(Row) /\ Len(s) \in Nat
  <2>1. s \in Seq(RowsOf(x)) /\ RowsOf(x) \subseteq Row
    BY OrderingIsSeq, RowsOfFinite
  <2> QED
    BY <2>1, SeqMonotonic, LenProperties
<1>4. k \in Nat /\ k >= 1 /\ k \in 0..MaxKeep
  BY BoundAssumption
<1> DEFINE v == [i \in 1..(Len(s) - k) |-> s[k + i].hash]
           c == [NoCall EXCEPT !.pc = "trim_delete", !.target = {x}, !.keep = k,
                   !.victims = v]
<1>5. CASE Len(s) <= k
  BY <1>2, <1>5, NoCallType, TypeByCall DEF TrimPath, TypeInv, TypeOK
<1>6. CASE ~(Len(s) <= k)
  <2>1. Len(s) - k \in Nat /\ Len(s) - k >= 1
    BY <1>3, <1>4, <1>6
  <2>2. ASSUME NEW i \in 1..(Len(s) - k)
        PROVE  s[k + i].hash \in Hash
    <3>1. k + i \in 1..Len(s)
      BY <1>3, <1>4
    <3>2. s[k + i] \in Row
      BY <1>3, <3>1, ElementOfSeq
    <3> QED
      BY <3>2 DEF Row
  <2>3. v \in [1..(Len(s) - k) -> Hash]
    BY <2>2
  <2> HIDE DEF v
  <2>4. v \in Seq(Hash) /\ v # <<>>
    BY <2>1, <2>3, FunctionIsSeq
  <2>6. c \in LoadedCall
    BY <1>4, <2>4, NoCallType DEF NoCall, LoadedCall, Loaded, Call, PC
  <2>7. Goto(p, c)
    BY <1>2, <1>6 DEF v
  <2> QED
    BY <2>6, <2>7, TypeByCall DEF TrimPath, TypeInv, TypeOK
<1> QED
  BY <1>5, <1>6

LEMMA TrimDeleteType ==
  ASSUME TypeInv, NEW p \in Proc, TrimDelete(p)
  PROVE  TypeInv'
<1> DEFINE h    == Head(call[p].victims)
           gone == UNION {OldestMatch(x, h) : x \in call[p].target}
           c    == [call[p] EXCEPT !.victims = Tail(@),
                      !.deleted = IF gone = {} THEN @ ELSE Append(@, h)]
<1>1. /\ rows' = rows \ gone
      /\ Goto(p, IF c.victims # <<>> THEN c ELSE Continue(c))
  BY DEF TrimDelete
<1>2. call[p] \in Call /\ call[p].pc = "trim_delete" /\ call[p].victims # <<>>
  BY DEF TypeInv, LoadedCall, Loaded, TrimDelete, At
<1>3. h \in Hash /\ Tail(call[p].victims) \in Seq(Hash)
  BY <1>2, HeadTailProperties DEF Call
<1> HIDE DEF h, gone
<1>4. Append(call[p].deleted, h) \in Seq(Hash)
  BY <1>2, <1>3, AppendProperties DEF Call
<1>5. c \in Call
  BY <1>2, <1>3, <1>4 DEF Call
<1>6. c.pc = "trim_delete"
  BY <1>2 DEF Call
<1>7. c.victims # <<>> => c \in LoadedCall
  BY <1>5, <1>6 DEF LoadedCall, Loaded
<1>8. Continue(c) \in LoadedCall
  BY <1>5, ContinueType
<1> HIDE DEF c
<1> QED
  BY <1>1, <1>7, <1>8, TypeByCall DEF TrimDelete, TypeInv, TypeOK

LEMMA CountType ==
  ASSUME TypeInv, NEW p \in Proc, Count(p)
  PROVE  TypeInv'
<1> DEFINE c == [call[p] EXCEPT !.deleted = Tail(@)]
<1>1. call[p] \in Call /\ call[p].deleted # <<>>
  BY DEF TypeInv, LoadedCall, Loaded, Count, At
<1>2. c \in Call
  BY <1>1, HeadTailProperties DEF Call
<1>3. Continue(c) \in LoadedCall
  BY <1>2, ContinueType
<1>4. [call[p] EXCEPT !.pc = "unlink"] \in LoadedCall
  BY <1>1 DEF LoadedCall, Loaded, Call, PC
<1> QED
  BY <1>3, <1>4, TypeByCall DEF Count, TypeInv, TypeOK

LEMMA UnlinkType ==
  ASSUME TypeInv, NEW p \in Proc, Unlink(p)
  PROVE  TypeInv'
<1> DEFINE c == [call[p] EXCEPT !.deleted = Tail(@)]
<1>1. call[p] \in Call /\ call[p].deleted # <<>>
  BY DEF TypeInv, LoadedCall, Loaded, Unlink, At
<1>2. c \in Call
  BY <1>1, HeadTailProperties DEF Call
<1>3. Continue(c) \in LoadedCall
  BY <1>2, ContinueType
<1> QED
  BY <1>3, TypeByCall DEF Unlink, TypeInv, TypeOK

\* A read changes only the call: with what it returns, the call is well typed.
LEMMA ReplyType ==
  ASSUME NEW reply \in {"none", "found", "error", "unreferenced"},
         NEW ps \in SUBSET Path, NEW h \in Hash \cup {NoHash}
  PROVE  [NoCall EXCEPT !.reply = reply, !.target = ps, !.hash = h] \in LoadedCall
BY NoCallType DEF NoCall, LoadedCall, Loaded, Call, PC

LEMMA ReturnType ==
  ASSUME TypeInv, NEW p \in Proc, UNCHANGED <<rows, blobs, clock, faults>>,
         NEW reply \in {"none", "found", "error", "unreferenced"},
         NEW ps \in SUBSET Path, NEW h \in Hash \cup {NoHash},
         Return(p, reply, ps, h)
  PROVE  TypeInv'
BY ReplyType, TypeByCall DEF Return, TypeInv, TypeOK

LEMMA GetLatestType ==
  ASSUME TypeInv, NEW p \in Proc, GetLatest(p)
  PROVE  TypeInv'
<1>1. PICK op \in {"get", "stat"}, x \in Path :
        \/ RowsOf(x) = {} /\ Return(p, "none", {x}, NoHash)
        \/ \E r \in Latest(x) :
             Goto(p, [NoCall EXCEPT !.pc = IF op = "get" THEN "open" ELSE "stat",
                                    !.target = {x}, !.hash = r.hash])
  BY DEF GetLatest
<1>2. UNCHANGED <<rows, blobs, clock, faults>>
  BY DEF GetLatest
<1>3. CASE Return(p, "none", {x}, NoHash)
  BY <1>2, <1>3, ReturnType
<1>4. ASSUME NEW r \in Latest(x),
             Goto(p, [NoCall EXCEPT !.pc = IF op = "get" THEN "open" ELSE "stat",
                                    !.target = {x}, !.hash = r.hash])
      PROVE  TypeInv'
  <2>1. r.hash \in Hash
    BY DEF Latest, RowsOf, TypeInv, TypeOK, Row
  <2>2. [NoCall EXCEPT !.pc = IF op = "get" THEN "open" ELSE "stat",
                       !.target = {x}, !.hash = r.hash] \in LoadedCall
    <3> DEFINE c == [NoCall EXCEPT !.pc = IF op = "get" THEN "open" ELSE "stat",
                                   !.target = {x}, !.hash = r.hash]
    <3>1. NoCall \in Call
      BY NoCallType DEF LoadedCall
    <3>2. c \in Call /\ c.pc \in {"open", "stat"}
      BY <2>1, <3>1 DEF Call, PC
    <3> HIDE DEF c
    <3>3. c \in LoadedCall
      BY <3>2 DEF LoadedCall, Loaded
    <3> QED
      BY <3>3 DEF c
  <2> QED
    BY <1>2, <1>4, <2>2, TypeByCall DEF TypeInv, TypeOK
<1> QED
  BY <1>1, <1>3, <1>4

LEMMA ReadType ==
  ASSUME TypeInv, NEW p \in Proc,
         OpenBlob(p) \/ GetReaderByHash(p) \/ StatBlob(p) \/ StatCount(p)
  PROVE  TypeInv'
<1>1. /\ call[p] \in Call
      /\ call[p].hash \in Hash \cup {NoHash}
      /\ call[p].target \in SUBSET Path
  BY DEF TypeInv, TypeOK, Call
<1>2. UNCHANGED <<rows, blobs, clock, faults>>
  BY DEF OpenBlob, GetReaderByHash, StatBlob, StatCount
<1>3. CASE OpenBlob(p)
  BY <1>1, <1>2, <1>3, ReturnType DEF OpenBlob
<1>4. CASE GetReaderByHash(p)
  BY <1>2, <1>4, ReturnType DEF GetReaderByHash
<1>5. CASE StatBlob(p)
  <2>1. [call[p] EXCEPT !.pc = "stat_count"] \in LoadedCall
    BY <1>1 DEF LoadedCall, Loaded, Call, PC
  <2>2. CASE call[p].hash \in blobs
    BY <1>2, <1>5, <2>1, <2>2, TypeByCall DEF StatBlob, TypeInv, TypeOK
  <2>3. CASE call[p].hash \notin blobs
    BY <1>1, <1>2, <1>5, <2>3, ReturnType DEF StatBlob
  <2> QED
    BY <2>2, <2>3
<1>6. CASE StatCount(p)
  BY <1>1, <1>2, <1>6, ReturnType DEF StatCount
<1> QED
  BY <1>3, <1>4, <1>5, <1>6

LEMMA InterruptType ==
  ASSUME TypeInv, NEW p \in Proc, Interrupt(p)
  PROVE  TypeInv'
<1>1. faults' \in 0..MaxFaults
  BY BoundAssumption DEF Interrupt, TypeInv, TypeOK
<1> QED
  BY <1>1, NoCallType, TypeByCall DEF Interrupt, TypeInv, TypeOK

LEMMA NextType == TypeInv /\ [Next]_vars => TypeInv'
<1> SUFFICES ASSUME TypeInv, [Next]_vars PROVE TypeInv'
  OBVIOUS
<1>1. CASE UNCHANGED vars
  BY <1>1 DEF vars, TypeInv, TypeOK
<1>2. ASSUME NEW p \in Proc, Start(p) PROVE TypeInv'
  BY <1>2, AddReaderType, RemovePathType, RemoveVersionType, RemoveFolderType,
     TrimPathType, GetLatestType, ReadType DEF Start
<1>3. ASSUME NEW p \in Proc, Step(p) PROVE TypeInv'
  BY <1>3, PersistType, NowV7Type, InsertEntriesType, RemoveNextType, DeleteAllType,
     TrimDeleteType, CountType, UnlinkType, ReadType DEF Step
<1>4. ASSUME NEW p \in Proc, Interrupt(p) PROVE TypeInv'
  BY <1>4, InterruptType
<1> QED
  BY <1>1, <1>2, <1>3, <1>4 DEF Next

LEMMA TypeInvariance == Spec => []TypeInv
BY InitType, NextType, PTL DEF Spec

\* Every variable, and every local variable of every call, keeps its type, and
\* each statement of a call finds the operand it needs.
THEOREM TypeCorrect == Spec => []TypeOK
<1>1. TypeInv => TypeOK
  BY DEF TypeInv
<1> QED
  BY <1>1, TypeInvariance, PTL

-----------------------------------------------------------------------------
(* Where each step leaves its process; the others stay where they are.     *)

LEMMA ContinuePc ==
  ASSUME NEW c, "pc" \in DOMAIN c
  PROVE  Continue(c).pc \in {"count", "folder", "idle"}
BY DEF Continue, NoCall

LEMMA ReturnPc ==
  ASSUME TypeInv, NEW p \in Proc, NEW reply, NEW ps, NEW h, Return(p, reply, ps, h)
  PROVE  call'[p].pc = "idle"
BY DEF Return, Goto, NoCall, TypeInv, TypeOK

LEMMA OthersStay ==
  ASSUME TypeInv, NEW p \in Proc, Start(p) \/ Step(p) \/ Interrupt(p)
  PROVE  \A q \in Proc \ {p} : call'[q] = call[q]
BY DEF Start, Step, Interrupt, AddReader, Persist, NowV7, InsertEntries, SelectHashes,
       RemovePath, RemoveVersion, RemoveFolder, RemoveNext, DeleteAll, TrimPath,
       TrimDelete, Count, Unlink, Return, GetLatest, OpenBlob, GetReaderByHash,
       StatBlob, StatCount, Goto, TypeInv, TypeOK

LEMMA StartPc ==
  ASSUME TypeInv, NEW p \in Proc
  PROVE  /\ AddReader(p) => call'[p].pc \in {"persist", "uuid"}
         /\ RemovePath(p) => call'[p].pc = "delete_all"
         /\ RemoveVersion(p) => call'[p].pc \in {"idle", "count"}
         /\ RemoveFolder(p) => call'[p].pc \in {"count", "folder", "idle"}
         /\ TrimPath(p) => call'[p].pc \in {"idle", "trim_delete"}
         /\ GetLatest(p) => call'[p].pc \in {"idle", "open", "stat"}
         /\ GetReaderByHash(p) => call'[p].pc = "idle"
<1>1. ASSUME AddReader(p) PROVE call'[p].pc \in {"persist", "uuid"}
  <2>1. PICK ps \in (SUBSET Path) \ {{}}, h \in Hash :
          Goto(p, [NoCall EXCEPT !.pc = IF h \in blobs THEN "uuid" ELSE "persist",
                                 !.target = ps, !.hash = h])
    BY <1>1 DEF AddReader
  <2> QED
    BY <2>1 DEF Goto, NoCall, TypeInv, TypeOK
<1>2. ASSUME RemovePath(p) PROVE call'[p].pc = "delete_all"
  <2>1. PICK x \in Path : SelectHashes(p, [NoCall EXCEPT !.target = {x}, !.todo = <<x>>])
    BY <1>2 DEF RemovePath
  <2>2. PICK hs : Goto(p, [[NoCall EXCEPT !.target = {x}, !.todo = <<x>>]
                             EXCEPT !.pc = "delete_all", !.deleted = hs])
    BY <2>1 DEF SelectHashes
  <2> QED
    BY <2>2 DEF Goto, NoCall, TypeInv, TypeOK
<1>3. ASSUME RemoveVersion(p) PROVE call'[p].pc \in {"idle", "count"}
  <2>1. PICK x \in Path, h \in Hash :
          /\ rows' = rows \ OldestMatch(x, h)
          /\ Goto(p, IF OldestMatch(x, h) = {} THEN NoCall
                     ELSE [NoCall EXCEPT !.pc = "count", !.deleted = <<h>>])
    BY <1>3 DEF RemoveVersion
  <2> QED
    BY <2>1 DEF Goto, NoCall, TypeInv, TypeOK
<1>4. ASSUME RemoveFolder(p) PROVE call'[p].pc \in {"count", "folder", "idle"}
  <2>1. PICK f \in Folders : \E s \in Listings(f) :
          Goto(p, Continue([NoCall EXCEPT !.target = f, !.todo = s]))
    BY <1>4 DEF RemoveFolder
  <2>2. PICK s \in Listings(f) : Goto(p, Continue([NoCall EXCEPT !.target = f, !.todo = s]))
    BY <2>1
  <2>3. Continue([NoCall EXCEPT !.target = f, !.todo = s]).pc \in {"count", "folder", "idle"}
    BY ContinuePc DEF NoCall
  <2> QED
    BY <2>2, <2>3 DEF Goto, TypeInv, TypeOK
<1>5. ASSUME TrimPath(p) PROVE call'[p].pc \in {"idle", "trim_delete"}
  <2>1. PICK x \in Path, k \in 1..MaxKeep : \E s \in Orderings(RowsOf(x)) :
          Goto(p, IF Len(s) <= k THEN NoCall
                  ELSE [NoCall EXCEPT !.pc = "trim_delete", !.target = {x}, !.keep = k,
                          !.victims = [i \in 1..(Len(s) - k) |-> s[k + i].hash]])
    BY <1>5 DEF TrimPath
  <2> QED
    BY <2>1 DEF Goto, NoCall, TypeInv, TypeOK
<1>6. ASSUME GetLatest(p) PROVE call'[p].pc \in {"idle", "open", "stat"}
  <2>1. PICK op \in {"get", "stat"}, x \in Path :
        \/ RowsOf(x) = {} /\ Return(p, "none", {x}, NoHash)
        \/ \E r \in Latest(x) :
             Goto(p, [NoCall EXCEPT !.pc = IF op = "get" THEN "open" ELSE "stat",
                                    !.target = {x}, !.hash = r.hash])
    BY <1>6 DEF GetLatest
  <2>2. CASE Return(p, "none", {x}, NoHash)
    BY <2>2, ReturnPc
  <2>3. ASSUME NEW r \in Latest(x),
               Goto(p, [NoCall EXCEPT !.pc = IF op = "get" THEN "open" ELSE "stat",
                                      !.target = {x}, !.hash = r.hash])
        PROVE  call'[p].pc \in {"open", "stat"}
    BY <2>3 DEF Goto, NoCall, TypeInv, TypeOK
  <2> QED
    BY <2>1, <2>2, <2>3
<1>7. ASSUME GetReaderByHash(p) PROVE call'[p].pc = "idle"
  BY <1>7, ReturnPc DEF GetReaderByHash
<1> QED
  BY <1>1, <1>2, <1>3, <1>4, <1>5, <1>6, <1>7

LEMMA StepPc ==
  ASSUME TypeInv, NEW p \in Proc
  PROVE  /\ Persist(p) => call'[p].pc = "uuid" /\ call'[p].hash = call[p].hash
         /\ NowV7(p) => call'[p].pc = "insert" /\ call'[p].hash = call[p].hash
         /\ InsertEntries(p) \/ Interrupt(p) => call'[p].pc = "idle"
         /\ RemoveNext(p) => call'[p].pc = "delete_all"
         /\ DeleteAll(p) \/ Unlink(p) => call'[p].pc \in {"count", "folder", "idle"}
         /\ TrimDelete(p) => call'[p].pc \in {"trim_delete", "count", "folder", "idle"}
         /\ Count(p) =>
              \/ call'[p].pc \in {"count", "folder", "idle"}
              \/ /\ call'[p].pc = "unlink" /\ call'[p].deleted = call[p].deleted
                 /\ Refs(Head(call[p].deleted)) = {}
         /\ OpenBlob(p) \/ StatCount(p) => call'[p].pc = "idle"
         /\ StatBlob(p) => call'[p].pc \in {"idle", "stat_count"}
<1>1. call \in [Proc -> Call] /\ call[p] \in Call
  BY DEF TypeInv, TypeOK
<1>2. Persist(p) => call'[p].pc = "uuid" /\ call'[p].hash = call[p].hash
  BY <1>1 DEF Persist, Goto, Call
<1>3. NowV7(p) => call'[p].pc = "insert" /\ call'[p].hash = call[p].hash
  BY <1>1 DEF NowV7, Goto, Call
<1>4. InsertEntries(p) \/ Interrupt(p) => call'[p].pc = "idle"
  BY <1>1 DEF InsertEntries, Interrupt, Goto, NoCall
<1>5. ASSUME RemoveNext(p) PROVE call'[p].pc = "delete_all"
  <2>1. PICK hs : Goto(p, [call[p] EXCEPT !.pc = "delete_all", !.deleted = hs])
    BY <1>5 DEF RemoveNext, SelectHashes
  <2> QED
    BY <1>1, <2>1 DEF Goto, Call
<1>6. DeleteAll(p) \/ Unlink(p) => call'[p].pc \in {"count", "folder", "idle"}
  BY <1>1, ContinuePc DEF DeleteAll, Unlink, Goto, Call
<1>7. ASSUME TrimDelete(p)
      PROVE  call'[p].pc \in {"trim_delete", "count", "folder", "idle"}
  <2> DEFINE h    == Head(call[p].victims)
             gone == UNION {OldestMatch(x, h) : x \in call[p].target}
             c    == [call[p] EXCEPT !.victims = Tail(@),
                        !.deleted = IF gone = {} THEN @ ELSE Append(@, h)]
  <2>1. Goto(p, IF c.victims # <<>> THEN c ELSE Continue(c))
    BY <1>7 DEF TrimDelete
  <2>2. c.pc = "trim_delete" /\ "pc" \in DOMAIN c
    BY <1>1, <1>7 DEF TrimDelete, At, Call
  <2> HIDE DEF c
  <2> QED
    BY <1>1, <2>1, <2>2, ContinuePc DEF Goto
<1>8. ASSUME Count(p)
      PROVE  \/ call'[p].pc \in {"count", "folder", "idle"}
             \/ /\ call'[p].pc = "unlink" /\ call'[p].deleted = call[p].deleted
                /\ Refs(Head(call[p].deleted)) = {}
  <2>1. CASE Refs(Head(call[p].deleted)) = {}
    BY <1>1, <1>8, <2>1 DEF Count, Goto, Call
  <2>2. CASE Refs(Head(call[p].deleted)) # {}
    BY <1>1, <1>8, <2>2, ContinuePc DEF Count, Goto, Call
  <2> QED
    BY <2>1, <2>2
<1>9. OpenBlob(p) \/ StatCount(p) => call'[p].pc = "idle"
  BY ReturnPc DEF OpenBlob, StatCount
<1>10. StatBlob(p) => call'[p].pc \in {"idle", "stat_count"}
  <2>1. CASE call[p].hash \in blobs
    BY <1>1, <2>1 DEF StatBlob, Goto, Call
  <2>2. CASE call[p].hash \notin blobs
    BY <2>2, ReturnPc DEF StatBlob
  <2> QED
    BY <2>1, <2>2
<1> QED
  BY <1>2, <1>3, <1>4, <1>5, <1>6, <1>7, <1>8, <1>9, <1>10

-----------------------------------------------------------------------------
(* Consistency.  Outside the window of NoOverlap every step keeps each row  *)
(* with its blob.                                                          *)

\* A step that neither adds a row nor touches a blob keeps Consistent, provided
\* the call it leaves behind claims no more than is there.
LEMMA ConsistentByCall ==
  ASSUME Consistent, NEW p \in Proc,
         \A q \in Proc \ {p} : call'[q] = call[q],
         rows' \in SUBSET rows, blobs' = blobs,
         call'[p].pc \in {"uuid", "insert"} => call'[p].hash \in blobs,
         call'[p].pc = "unlink" => Refs(Head(call'[p].deleted)) = {}
  PROVE  Consistent'
<1>1. \A h : Refs(h) = {} => Refs(h)' = {}
  BY DEF Refs
<1> QED
  BY <1>1 DEF Consistent, NoDangling

\* The removals and the reads begin without a claim on any blob; an add that
\* goes on to take its id has seen the blob.
LEMMA StartConsistent ==
  ASSUME TypeInv, Consistent, NEW p \in Proc, Start(p)
  PROVE  Consistent'
<1>1. \A q \in Proc \ {p} : call'[q] = call[q]
  BY OthersStay
<1>2. CASE AddReader(p)
  <2>1. PICK ps \in (SUBSET Path) \ {{}}, h \in Hash :
          Goto(p, [NoCall EXCEPT !.pc = IF h \in blobs THEN "uuid" ELSE "persist",
                                 !.target = ps, !.hash = h])
    BY <1>2 DEF AddReader
  <2>2. /\ call'[p].pc = IF h \in blobs THEN "uuid" ELSE "persist"
        /\ call'[p].hash = h
    BY <2>1 DEF Goto, NoCall, TypeInv, TypeOK
  <2> QED
    BY <1>1, <1>2, <2>2, ConsistentByCall DEF AddReader
<1>3. CASE RemovePath(p) \/ RemoveVersion(p) \/ RemoveFolder(p) \/ TrimPath(p)
  <2>1. rows' \in SUBSET rows /\ blobs' = blobs
    BY <1>3 DEF RemovePath, SelectHashes, RemoveVersion, RemoveFolder, TrimPath
  <2> QED
    BY <1>1, <1>3, <2>1, StartPc, ConsistentByCall
<1>4. CASE GetLatest(p) \/ GetReaderByHash(p)
  BY <1>1, <1>4, StartPc, ConsistentByCall DEF GetLatest, GetReaderByHash
<1> QED
  BY <1>2, <1>3, <1>4 DEF Start

LEMMA AddConsistent ==
  ASSUME TypeInv, NoOverlap, Consistent, NEW p \in Proc,
         Persist(p) \/ NowV7(p) \/ InsertEntries(p)
  PROVE  Consistent'
<1>1. \A q \in Proc \ {p} : call'[q] = call[q]
  BY OthersStay DEF Step
<1>2. CASE Persist(p)
  <2>1. call'[p].pc = "uuid" /\ call'[p].hash = call[p].hash
    BY <1>2, StepPc
  <2> QED
    BY <1>1, <1>2, <2>1 DEF Persist, Consistent, NoDangling, Refs
<1>3. CASE NowV7(p)
  <2>1. call[p].hash \in blobs
    BY <1>3 DEF NowV7, At, Consistent
  <2> QED
    BY <1>1, <1>3, <2>1, StepPc, ConsistentByCall DEF NowV7
<1>4. CASE InsertEntries(p)
  <2>1. call'[p].pc = "idle"
    BY <1>4, StepPc
  <2>2. call[p].hash \in blobs
    BY <1>4 DEF InsertEntries, At, Consistent
  <2>3. \A r \in rows' : r \in rows \/ r.hash = call[p].hash
    BY <1>4 DEF InsertEntries
  <2>4. NoDangling'
    BY <1>4, <2>2, <2>3 DEF InsertEntries, Consistent, NoDangling
  <2>5. ASSUME NEW q \in Proc, call'[q].pc = "unlink"
        PROVE  Refs(Head(call[q].deleted))' = {}
    <3>1. q # p /\ call'[q] = call[q]
      BY <1>1, <2>1, <2>5
    <3>2. call[p].hash # Head(call[q].deleted) /\ Refs(Head(call[q].deleted)) = {}
      BY <1>4, <2>5, <3>1 DEF NoOverlap, Consistent, InsertEntries, At
    <3> QED
      BY <2>3, <3>1, <3>2 DEF Refs
  <2> QED
    BY <1>1, <1>4, <2>1, <2>4, <2>5 DEF InsertEntries, Consistent
<1> QED
  BY <1>2, <1>3, <1>4

LEMMA RemovalConsistent ==
  ASSUME TypeInv, NoOverlap, Consistent, NEW p \in Proc,
         RemoveNext(p) \/ DeleteAll(p) \/ TrimDelete(p) \/ Count(p) \/ Unlink(p)
  PROVE  Consistent'
<1>1. \A q \in Proc \ {p} : call'[q] = call[q]
  BY OthersStay DEF Step
<1>2. CASE RemoveNext(p) \/ DeleteAll(p) \/ TrimDelete(p) \/ Count(p)
  <2>1. rows' \in SUBSET rows /\ blobs' = blobs
    BY <1>2 DEF RemoveNext, SelectHashes, DeleteAll, TrimDelete, Count
  <2> QED
    BY <1>1, <1>2, <2>1, StepPc, ConsistentByCall
<1>3. CASE Unlink(p)
  <2>1. call'[p].pc \in {"count", "folder", "idle"}
    BY <1>3, StepPc
  <2>2. Refs(Head(call[p].deleted)) = {}
    BY <1>3 DEF Unlink, At, Consistent
  <2>3. rows' = rows /\ blobs' = blobs \ {Head(call[p].deleted)}
    BY <1>3 DEF Unlink
  <2>4. NoDangling'
    BY <2>2, <2>3 DEF Consistent, NoDangling, Refs
  <2>5. ASSUME NEW q \in Proc, call'[q].pc \in {"uuid", "insert"}
        PROVE  call'[q].hash \in blobs'
    <3>1. q # p /\ call'[q] = call[q]
      BY <1>1, <2>1, <2>5
    <3>2. call[q].hash \in blobs /\ call[q].hash # Head(call[p].deleted)
      BY <1>3, <2>5, <3>1 DEF NoOverlap, Consistent, Unlink, At
    <3> QED
      BY <2>3, <3>1, <3>2
  <2>6. ASSUME NEW q \in Proc, call'[q].pc = "unlink"
        PROVE  Refs(Head(call[q].deleted))' = {}
    BY <1>1, <2>1, <2>3, <2>6 DEF Consistent, Refs
  <2> QED
    BY <2>4, <2>5, <2>6 DEF Consistent
<1> QED
  BY <1>2, <1>3

LEMMA ReadConsistent ==
  ASSUME TypeInv, Consistent, NEW p \in Proc,
         OpenBlob(p) \/ StatBlob(p) \/ StatCount(p) \/ Interrupt(p)
  PROVE  Consistent'
<1>1. \A q \in Proc \ {p} : call'[q] = call[q]
  BY OthersStay DEF Step
<1>2. call'[p].pc \in {"idle", "stat_count"}
  BY StepPc
<1> QED
  BY <1>1, <1>2, ConsistentByCall DEF OpenBlob, StatBlob, StatCount, Interrupt

LEMMA InitConsistent == Init => Consistent
BY DEF Init, Consistent, NoDangling, NoCall

LEMMA NextConsistent == TypeInv /\ NoOverlap /\ Consistent /\ [Next]_vars => Consistent'
<1> SUFFICES ASSUME TypeInv, NoOverlap, Consistent, [Next]_vars PROVE Consistent'
  OBVIOUS
<1>1. CASE UNCHANGED vars
  BY <1>1 DEF vars, Consistent, NoDangling, Refs
<1>2. CASE Next
  BY <1>2, StartConsistent, AddConsistent, RemovalConsistent, ReadConsistent
     DEF Next, Step
<1> QED
  BY <1>1, <1>2

\* As long as no removal unlinks a blob that an add of another process has
\* found or put in place but not yet inserted, every version keeps its content.
THEOREM NoDanglingOutsideWindow == Spec /\ []NoOverlap => []NoDangling
<1>1. Consistent => NoDangling
  BY DEF Consistent
<1> QED
  BY <1>1, TypeInvariance, InitConsistent, NextConsistent, PTL DEF Spec

-----------------------------------------------------------------------------
(* Deployments that never enter the window, whatever their calls do.       *)

Removals == {"remove", "remove_version", "remove_folder", "trim"}

\* A process is in the middle only of a call it makes.
Roles ==
  \A p \in Proc :
    /\ call[p].pc \in {"persist", "uuid", "insert"} => "add" \in Ops[p]
    /\ call[p].pc \in {"folder", "delete_all", "trim_delete", "count", "unlink"}
         => Ops[p] \cap Removals # {}

LEMMA InitRoles == Init => Roles
BY DEF Init, Roles, NoCall

LEMMA NextRoles == TypeInv /\ Roles /\ [Next]_vars => Roles'
<1> SUFFICES ASSUME TypeInv, Roles, [Next]_vars PROVE Roles'
  OBVIOUS
<1>1. CASE UNCHANGED vars
  BY <1>1 DEF vars, Roles
<1>2. CASE Next
  <2>1. PICK p \in Proc : Start(p) \/ Step(p) \/ Interrupt(p)
    BY <1>2 DEF Next
  <2>2. \A q \in Proc \ {p} : call'[q] = call[q]
    BY <2>1, OthersStay
  <2> DEFINE Adding == call'[p].pc \in {"persist", "uuid", "insert"}
             Removing == call'[p].pc \in {"folder", "delete_all", "trim_delete", "count", "unlink"}
  <2>3. Adding => "add" \in Ops[p]
    <3>1. Start(p) /\ Adding => AddReader(p)
      BY StartPc DEF Start
    <3>2. Step(p) /\ Adding => Persist(p) \/ NowV7(p)
      BY StepPc DEF Step
    <3>3. Interrupt(p) => ~Adding
      BY StepPc
    <3> HIDE DEF Adding
    <3> QED
      BY <2>1, <3>1, <3>2, <3>3 DEF AddReader, Persist, NowV7, Ready, At, Roles
  <2>4. Removing => Ops[p] \cap Removals # {}
    <3>1. Start(p) /\ Removing => RemovePath(p) \/ RemoveVersion(p) \/ RemoveFolder(p) \/ TrimPath(p)
      BY StartPc DEF Start
    <3>2. Step(p) /\ Removing => RemoveNext(p) \/ DeleteAll(p) \/ TrimDelete(p) \/ Count(p) \/ Unlink(p)
      BY StepPc DEF Step
    <3>3. Interrupt(p) => ~Removing
      BY StepPc
    <3> HIDE DEF Removing
    <3>4. Start(p) /\ Removing => Ops[p] \cap Removals # {}
      BY <3>1 DEF RemovePath, RemoveVersion, RemoveFolder, TrimPath, Ready, Removals
    <3>5. Step(p) /\ Removing => Ops[p] \cap Removals # {}
      BY <3>2 DEF RemoveNext, DeleteAll, TrimDelete, Count, Unlink, At, Roles
    <3> QED
      BY <2>1, <3>3, <3>4, <3>5
  <2> QED
    BY <2>2, <2>3, <2>4 DEF Roles
<1> QED
  BY <1>1, <1>2

\* If no process removes while a DIFFERENT process adds, no version ever loses
\* its content.  This covers a store with one open handle that makes every
\* call, any number of adders and readers, and any number of removers and
\* readers, with calls that fail or are cut short at any point.
THEOREM NoDanglingWhenRolesApart ==
  ASSUME \A p, q \in Proc : p # q => "add" \notin Ops[p] \/ Ops[q] \cap Removals = {}
  PROVE  Spec => []NoDangling
<1>1. Roles => NoOverlap
  <2> SUFFICES ASSUME Roles, NEW p \in Proc, NEW q \in Proc,
                      call[p].pc \in {"uuid", "insert"}, call[q].pc = "unlink"
               PROVE  FALSE
    BY DEF NoOverlap
  <2>1. p # q
    OBVIOUS
  <2>2. "add" \in Ops[p] /\ Ops[q] \cap Removals # {}
    BY DEF Roles
  <2> QED
    BY <2>1, <2>2
<1>2. Spec => []Roles
  BY TypeInvariance, InitRoles, NextRoles, PTL DEF Spec
<1> QED
  BY <1>1, <1>2, NoDanglingOutsideWindow, PTL
=============================================================================
