----------------------- MODULE BloxtreeReclaimProofs -----------------------
(***************************************************************************)
(* Theorems about Bloxtree: what a read answers, that no blob outlives its *)
(* last row, and how many steps a call can take.                           *)
(***************************************************************************)
EXTENDS BloxtreeProofs

\* Outside the window of NoOverlap everything that Consistent says holds at
\* every moment: an add that goes on to insert has its blob in place, and the
\* blob that a removal is about to unlink has no row.
THEOREM ConsistentOutsideWindow == Spec /\ []NoOverlap => []Consistent
BY TypeInvariance, InitConsistent, NextConsistent, PTL DEF Spec

-----------------------------------------------------------------------------
(* Reads.                                                                  *)

Reading == {"open", "stat", "stat_count"}

\* A read under way has not answered yet.
Unanswered == \A p \in Proc : call[p].pc \in Reading => call[p].reply = "unit"

LEMMA UnansweredInit == Init => Unanswered
BY DEF Init, Unanswered, NoCall, Reading

LEMMA UnansweredStep == TypeInv /\ Unanswered /\ [Next]_vars => Unanswered'
<1> SUFFICES ASSUME TypeInv, Unanswered, [Next]_vars PROVE Unanswered'
  OBVIOUS
<1>1. CASE UNCHANGED vars
  BY <1>1 DEF vars, Unanswered
<1>2. ASSUME NEW p \in Proc, Start(p) \/ Step(p) \/ Interrupt(p) PROVE Unanswered'
  <2>1. \A q \in Proc \ {p} : call'[q] = call[q]
    BY <1>2, OthersStay
  <2> SUFFICES ASSUME call'[p].pc \in Reading PROVE call'[p].reply = "unit"
    BY <2>1 DEF Unanswered
  <2>2. GetLatest(p) \/ StatBlob(p)
    <3>1. Start(p) => GetLatest(p)
      BY StartPc DEF Start, Reading
    <3>2. Step(p) => StatBlob(p)
      BY StepPc DEF Step, Reading
    <3>3. ~Interrupt(p)
      BY StepPc DEF Reading
    <3> QED
      BY <1>2, <3>1, <3>2, <3>3
  <2>3. CASE GetLatest(p)
    <3>1. PICK op \in {"get", "stat"}, x \in Path :
            \/ RowsOf(x) = {} /\ Return(p, "none", {x}, NoHash)
            \/ \E r \in Latest(x) :
                 Goto(p, [NoCall EXCEPT !.pc = IF op = "get" THEN "open" ELSE "stat",
                                        !.target = {x}, !.hash = r.hash])
      BY <2>3 DEF GetLatest
    <3>2. CASE Return(p, "none", {x}, NoHash)
      BY <3>2, ReturnPc DEF Reading
    <3>3. CASE \E r \in Latest(x) :
                 Goto(p, [NoCall EXCEPT !.pc = IF op = "get" THEN "open" ELSE "stat",
                                        !.target = {x}, !.hash = r.hash])
      BY <3>3 DEF Goto, NoCall, TypeInv, TypeOK
    <3> QED
      BY <3>1, <3>2, <3>3
  <2>4. CASE StatBlob(p)
    <3>1. CASE call[p].hash \in blobs
      <4>1. call[p] \in Call /\ call[p].reply = "unit"
        BY <2>4 DEF StatBlob, At, Unanswered, Reading, TypeInv, TypeOK
      <4> QED
        BY <2>4, <3>1, <4>1 DEF StatBlob, Goto, TypeInv, TypeOK, Call
    <3>2. CASE call[p].hash \notin blobs
      BY <2>4, <3>2, ReturnPc DEF StatBlob, Reading
    <3> QED
      BY <3>1, <3>2
  <2> QED
    BY <2>2, <2>3, <2>4
<1> QED
  BY <1>1, <1>2 DEF Next

\* A read that finds no blob, or no reference, finds that its version is gone.
LEMMA AnswerJustified ==
  ASSUME TypeInv, Unanswered, Consistent, [Next]_vars, NEW p \in Proc,
         call[p].pc \in Reading, call'[p].reply \in {"error", "unreferenced"},
         NEW x \in call[p].target
  PROVE  call[p].hash \notin {r.hash : r \in RowsOf(x)}
<1>1. ~UNCHANGED vars
  BY DEF vars, Unanswered
<1>2. PICK q \in Proc : Start(q) \/ Step(q) \/ Interrupt(q)
  BY <1>1 DEF Next
<1>3. q = p
  BY <1>2, OthersStay DEF Unanswered
<1>4. ~Start(p)
  BY DEF Start, AddReader, RemovePath, RemoveVersion, RemoveFolder, TrimPath, GetLatest,
         GetReaderByHash, Ready, Reading
<1>5. ~Interrupt(p)
  BY DEF Interrupt, Goto, NoCall, TypeInv, TypeOK
<1>6. OpenBlob(p) \/ StatBlob(p) \/ StatCount(p)
  BY <1>2, <1>3, <1>4, <1>5 DEF Step, Persist, NowV7, InsertEntries, RemoveNext, DeleteAll,
     TrimDelete, Count, Unlink, At, Reading
<1>7. ASSUME NEW reply, Return(p, reply, call[p].target, call[p].hash)
      PROVE  call'[p].reply = reply
  BY <1>7 DEF Return, Goto, NoCall, TypeInv, TypeOK
<1>8. call[p].hash \notin blobs \/ Refs(call[p].hash) = {}
  <2>1. CASE OpenBlob(p)
    BY <1>7, <2>1 DEF OpenBlob
  <2>2. CASE StatBlob(p)
    <3>1. CASE call[p].hash \in blobs
      <4>1. call[p] \in Call /\ call[p].reply = "unit"
        BY DEF Unanswered, TypeInv, TypeOK
      <4>2. call'[p].reply = "unit"
        BY <2>2, <3>1, <4>1 DEF StatBlob, Goto, TypeInv, TypeOK, Call
      <4> QED
        BY <4>2
    <3> QED
      BY <3>1
  <2>3. CASE StatCount(p)
    BY <1>7, <2>3 DEF StatCount
  <2> QED
    BY <1>6, <2>1, <2>2, <2>3
<1> QED
  BY <1>8 DEF RowsOf, Refs, Consistent, NoDangling

\* Outside the window of NoOverlap a read of a path fails, or counts no
\* reference, only when the version that it looked up has been removed.
THEOREM ReadsAnswerOutsideWindow == Spec /\ []NoOverlap => ReadsAnswer
<1>1. TypeInv /\ Unanswered /\ Consistent /\ [Next]_vars =>
        [\A p \in Proc :
           /\ call[p].pc \in {"open", "stat", "stat_count"}
           /\ call'[p].reply \in {"error", "unreferenced"}
           => \A x \in call[p].target : call[p].hash \notin {r.hash : r \in RowsOf(x)}]_vars
  BY AnswerJustified DEF Reading
<1> QED
  BY <1>1, TypeInvariance, ConsistentOutsideWindow, UnansweredInit, UnansweredStep, PTL
     DEF Spec, ReadsAnswer

-----------------------------------------------------------------------------
(* Reclaiming.  A blob without a row is in the care of a call under way.   *)

\* What a sequence holds, split at either end.
LEMMA RangeOfAppend ==
  ASSUME NEW S, NEW s \in Seq(S), NEW e \in S
  PROVE  Range(Append(s, e)) = Range(s) \cup {e}
<1> DEFINE t == Append(s, e)
<1>1. /\ Len(s) \in Nat /\ DOMAIN s = 1..Len(s)
      /\ DOMAIN t = 1..(Len(s) + 1)
      /\ t[Len(s) + 1] = e
      /\ \A i \in 1..Len(s) : t[i] = s[i]
  OBVIOUS
<1> HIDE DEF t
<1>2. ASSUME NEW i \in DOMAIN t PROVE t[i] \in {s[j] : j \in DOMAIN s} \cup {e}
  <2>1. i \in 1..Len(s) \/ i = Len(s) + 1
    BY <1>1
  <2> QED
    BY <1>1, <2>1
<1>3. Len(s) + 1 \in DOMAIN t /\ \A i \in DOMAIN s : i \in DOMAIN t
  BY <1>1
<1>4. Range(t) = Range(s) \cup {e}
  BY <1>1, <1>2, <1>3 DEF Range
<1> QED
  BY <1>4 DEF t

LEMMA RangeOfTail ==
  ASSUME NEW S, NEW s \in Seq(S), s # <<>>, NEW e \in Range(s)
  PROVE  e = Head(s) \/ e \in Range(Tail(s))
<1>1. PICK i \in DOMAIN s : e = s[i]
  BY DEF Range
<1>2. DOMAIN s = 1..Len(s) /\ Len(s) \in Nat
  OBVIOUS
<1>3. CASE i = 1
  BY <1>1, <1>3
<1>4. CASE i # 1
  <2> DEFINE t == Tail(s)
  <2>1. i - 1 \in DOMAIN t /\ t[i - 1] = s[i]
    BY <1>1, <1>2, <1>4
  <2> HIDE DEF t
  <2>2. e \in Range(t)
    BY <1>1, <2>1 DEF Range
  <2> QED
    BY <2>2 DEF t
<1> QED
  BY <1>3, <1>4

LEMMA RangeOfEmpty == Range(<<>>) = {}
BY DEF Range

\* The call is bound to look after the blob of h.
Owned(c, h) ==
  \/ c.pc \in {"uuid", "insert"} /\ c.hash = h
  \/ c.pc \in {"trim_delete", "count", "unlink"} /\ h \in Range(c.deleted)

LEMMA OwnersOwn ==
  \A h : Owners(h) = {p \in Proc : Owned(call[p], h)}
BY DEF Owners, Owned

LEMMA ContinueOwned ==
  ASSUME NEW c \in Call, NEW h \in Range(c.deleted)
  PROVE  Owned(Continue(c), h)
<1>1. c.deleted # <<>>
  BY RangeOfEmpty
<1>2. Continue(c) = [c EXCEPT !.pc = "count"]
  BY <1>1 DEF Continue
<1>3. Continue(c).pc = "count" /\ Continue(c).deleted = c.deleted
  BY <1>2 DEF Call
<1> QED
  BY <1>3 DEF Owned

\* A step keeps NoOrphan if the process that takes it still looks after every
\* blob that it looked after, or whose last row it deleted, and that is there.
LEMMA OrphanByCall ==
  ASSUME NoOrphan, NEW p \in Proc,
         \A q \in Proc \ {p} : call'[q] = call[q],
         faults' = 0 => faults = 0,
         \A h \in blobs' : h \in blobs \/ Owned(call'[p], h),
         \A h \in blobs' :
           Refs(h) # {} \/ Owned(call[p], h) => Refs(h)' # {} \/ Owned(call'[p], h)
  PROVE  NoOrphan'
<1> SUFFICES ASSUME faults' = 0, NEW h \in blobs', Refs(h)' = {}, ~Owned(call'[p], h)
             PROVE  \E q \in Proc : Owned(call'[q], h)
  BY DEF NoOrphan, Owners, Owned
<1>1. h \in blobs /\ Refs(h) = {} /\ ~Owned(call[p], h)
  OBVIOUS
<1>2. \E q \in Proc : Owned(call[q], h)
  BY <1>1, OwnersOwn DEF NoOrphan
<1> QED
  BY <1>1, <1>2

-----------------------------------------------------------------------------
(* The id of an insert is new, so that the insert adds a row for each of its *)
(* paths.                                                                  *)

Fresh ==
  /\ \A r \in rows : r.uuid <= clock
  /\ \A p \in Proc : call[p].pc \in {"persist", "uuid", "insert"} => call[p].target # {}
  /\ \A p \in Proc : call[p].pc = "insert" =>
       call[p].uuid <= clock /\ \A r \in rows : r.uuid # call[p].uuid
  /\ \A p, q \in Proc : call[p].pc = "insert" /\ call[q].pc = "insert" /\ p # q =>
       call[p].uuid # call[q].uuid

LEMMA FreshInit == Init => Fresh
<1> SUFFICES ASSUME Init PROVE Fresh
  OBVIOUS
<1>1. \A r \in rows : r.uuid \in 1..Seeded
  BY DEF Init
<1>2. \A r \in rows : r.uuid <= clock
  BY <1>1, BoundAssumption DEF Init
<1>3. \A p \in Proc : call[p].pc = "idle"
  BY DEF Init, NoCall
<1> QED
  BY <1>2, <1>3 DEF Fresh

LEMMA FreshByCall ==
  ASSUME Fresh, NEW p \in Proc, \A q \in Proc \ {p} : call'[q] = call[q],
         rows' \in SUBSET rows, clock' = clock,
         call'[p].pc \in {"persist", "uuid"} => call'[p].target # {},
         call'[p].pc # "insert"
  PROVE  Fresh'
BY DEF Fresh

LEMMA FreshStep == TypeInv /\ Fresh /\ [Next]_vars => Fresh'
<1> SUFFICES ASSUME TypeInv, Fresh, [Next]_vars PROVE Fresh'
  OBVIOUS
<1>1. CASE UNCHANGED vars
  BY <1>1 DEF vars, Fresh
<1>2. ASSUME NEW p \in Proc, Start(p) \/ Step(p) \/ Interrupt(p) PROVE Fresh'
  <2>1. \A q \in Proc \ {p} : call'[q] = call[q]
    BY <1>2, OthersStay
  <2>2. CASE AddReader(p)
    <3>1. PICK ps \in (SUBSET Path) \ {{}}, h \in Hash :
            Goto(p, [NoCall EXCEPT !.pc = IF h \in blobs THEN "uuid" ELSE "persist",
                                   !.target = ps, !.hash = h])
      BY <2>2 DEF AddReader
    <3>2. call'[p].target = ps /\ call'[p].pc \in {"persist", "uuid"}
      BY <3>1 DEF Goto, NoCall, TypeInv, TypeOK
    <3>3. rows' \in SUBSET rows /\ clock' = clock /\ ps # {}
      BY <2>2 DEF AddReader
    <3> QED
      BY <2>1, <3>2, <3>3, FreshByCall
  <2>3. CASE Persist(p)
    <3>1. call'[p].target = call[p].target /\ call'[p].pc = "uuid"
      BY <2>3 DEF Persist, Goto, TypeInv, TypeOK, Call
    <3>2. call[p].target # {}
      BY <2>3 DEF Persist, At, Fresh
    <3> QED
      BY <2>1, <2>3, <3>1, <3>2, FreshByCall DEF Persist
  <2>4. CASE NowV7(p)
    <3>1. /\ call'[p].target = call[p].target
          /\ call'[p].pc = "insert"
          /\ call'[p].uuid = clock + 1
      BY <2>4 DEF NowV7, Goto, TypeInv, TypeOK, Call
    <3>2. call[p].target # {}
      BY <2>4 DEF NowV7, At, Fresh
    <3>3. rows' = rows /\ clock' = clock + 1
      BY <2>4 DEF NowV7
    <3>4. /\ clock \in Nat
          /\ \A r \in rows : r.uuid \in Nat
          /\ \A q \in Proc : call[q].uuid \in Nat
      BY DEF TypeInv, TypeOK, Row, Call
    <3>5. \A r \in rows : r.uuid <= clock' /\ r.uuid # clock + 1
      BY <3>3, <3>4 DEF Fresh
    <3>6. \A q \in Proc \ {p} : call[q].pc = "insert" =>
            call[q].uuid <= clock' /\ call[q].uuid # clock + 1
      BY <3>3, <3>4 DEF Fresh
    <3>7. \A q \in Proc : call'[q].pc = "insert" =>
            call'[q].uuid <= clock' /\ \A r \in rows' : r.uuid # call'[q].uuid
      BY <2>1, <3>1, <3>3, <3>4, <3>5, <3>6 DEF Fresh
    <3>8. \A q \in Proc \ {p} : call'[q].pc = "insert" => call'[q].uuid # call'[p].uuid
      BY <2>1, <3>1, <3>6
    <3>9. \A q \in Proc : call'[q].pc \in {"persist", "uuid", "insert"} => call'[q].target # {}
      BY <2>1, <3>1, <3>2 DEF Fresh
    <3>10. \A q, o \in Proc \ {p} :
             call'[q].pc = "insert" /\ call'[o].pc = "insert" /\ q # o => call'[q].uuid # call'[o].uuid
      BY <2>1 DEF Fresh
    <3> QED
      BY <3>3, <3>5, <3>7, <3>8, <3>9, <3>10 DEF Fresh
  <2>5. CASE InsertEntries(p)
    <3>1. call'[p].pc = "idle"
      BY <2>5, StepPc
    <3>2. /\ \A r \in rows' : r \in rows \/ r.uuid = call[p].uuid
          /\ clock' = clock
          /\ call[p].pc = "insert"
      BY <2>5 DEF InsertEntries, At
    <3>3. \A q \in Proc : call'[q].pc = "insert" => q # p /\ call'[q] = call[q]
      BY <2>1, <3>1
    <3>4. \A r \in rows' : r.uuid <= clock'
      BY <3>2 DEF Fresh
    <3>5. ASSUME NEW q \in Proc, call'[q].pc = "insert", NEW r \in rows'
          PROVE  r.uuid # call'[q].uuid
      BY <3>2, <3>3, <3>5 DEF Fresh
    <3> QED
      BY <2>1, <3>1, <3>2, <3>3, <3>4, <3>5 DEF Fresh
  <2>6. CASE RemovePath(p) \/ RemoveVersion(p) \/ RemoveFolder(p) \/ TrimPath(p)
             \/ GetLatest(p) \/ GetReaderByHash(p)
    <3>1. rows' \in SUBSET rows /\ clock' = clock
      BY <2>6 DEF RemovePath, SelectHashes, RemoveVersion, RemoveFolder, TrimPath,
         GetLatest, GetReaderByHash
    <3> QED
      BY <2>1, <2>6, <3>1, StartPc, FreshByCall
  <2>7. CASE RemoveNext(p) \/ DeleteAll(p) \/ TrimDelete(p) \/ Count(p) \/ Unlink(p)
             \/ OpenBlob(p) \/ StatBlob(p) \/ StatCount(p) \/ Interrupt(p)
    <3>1. rows' \in SUBSET rows /\ clock' = clock
      BY <2>7 DEF RemoveNext, SelectHashes, DeleteAll, TrimDelete, Count, Unlink,
         OpenBlob, StatBlob, StatCount, Interrupt
    <3> QED
      BY <2>1, <2>7, <3>1, StepPc, FreshByCall
  <2> QED
    BY <1>2, <2>2, <2>3, <2>4, <2>5, <2>6, <2>7 DEF Start, Step
<1> QED
  BY <1>1, <1>2 DEF Next

-----------------------------------------------------------------------------
(* Each step hands on what it was bound to look after.                     *)

LEMMA OrphanInit == Init => NoOrphan
BY DEF Init, NoOrphan, Refs

LEMMA AddOrphan ==
  ASSUME TypeInv, Fresh, NoOrphan, NEW p \in Proc,
         AddReader(p) \/ Persist(p) \/ NowV7(p) \/ InsertEntries(p)
  PROVE  NoOrphan'
<1>1. \A q \in Proc \ {p} : call'[q] = call[q]
  BY OthersStay DEF Start, Step
<1>2. CASE AddReader(p)
  <2>1. /\ rows' = rows /\ blobs' = blobs /\ faults' = faults
        /\ \A h : ~Owned(call[p], h)
    BY <1>2 DEF AddReader, Ready, Owned
  <2>2. \A h : Refs(h)' = Refs(h)
    BY <2>1 DEF Refs
  <2> QED
    BY <1>1, <2>1, <2>2, OrphanByCall
<1>3. CASE Persist(p)
  <2>1. /\ rows' = rows /\ faults' = faults
        /\ blobs' = blobs \cup {call[p].hash}
        /\ \A h : ~Owned(call[p], h)
    BY <1>3 DEF Persist, At, Owned
  <2>2. Owned(call'[p], call[p].hash)
    BY <1>3, StepPc DEF Owned
  <2>3. \A h : Refs(h)' = Refs(h)
    BY <2>1 DEF Refs
  <2> QED
    BY <1>1, <2>1, <2>2, <2>3, OrphanByCall
<1>4. CASE NowV7(p)
  <2>1. rows' = rows /\ blobs' = blobs /\ faults' = faults
    BY <1>4 DEF NowV7
  <2>2. \A h : Owned(call[p], h) => Owned(call'[p], h)
    BY <1>4, StepPc DEF NowV7, At, Owned
  <2>3. \A h : Refs(h)' = Refs(h)
    BY <2>1 DEF Refs
  <2> QED
    BY <1>1, <2>1, <2>2, <2>3, OrphanByCall
<1>5. CASE InsertEntries(p)
  <2> DEFINE c == call[p]
             taken == {r.path : r \in {o \in rows : o.uuid = c.uuid}}
  <2>1. /\ rows' = rows \cup {[path |-> x, uuid |-> c.uuid, hash |-> c.hash] : x \in c.target \ taken}
        /\ blobs' = blobs /\ faults' = faults /\ c.pc = "insert"
    BY <1>5 DEF InsertEntries, At
  <2>2. taken = {} /\ c.target # {}
    BY <2>1 DEF Fresh
  <2>3. PICK x \in c.target \ taken : TRUE
    BY <2>2
  <2>4. \E r \in rows' : r.hash = c.hash
    <3> DEFINE new == [path |-> x, uuid |-> c.uuid, hash |-> c.hash]
    <3>1. new \in rows' /\ new.hash = c.hash
      BY <2>1, <2>3
    <3> QED
      BY <3>1
  <2> HIDE DEF taken
  <2>5. rows \subseteq rows'
    BY <2>1
  <2>6. \A h : Refs(h) # {} \/ Owned(c, h) => Refs(h)' # {}
    BY <2>1, <2>4, <2>5 DEF Refs, Owned
  <2> QED
    BY <1>1, <2>1, <2>6, OrphanByCall
<1> QED
  BY <1>2, <1>3, <1>4, <1>5

\* A removal that begins, or selects hashes, changes no row.
LEMMA SelectOrphan ==
  ASSUME TypeInv, NoOrphan, NEW p \in Proc,
         \/ RemovePath(p) \/ RemoveNext(p) \/ RemoveFolder(p) \/ TrimPath(p)
         \/ GetLatest(p) \/ GetReaderByHash(p)
         \/ OpenBlob(p) \/ StatBlob(p) \/ StatCount(p)
  PROVE  NoOrphan'
<1>1. \A q \in Proc \ {p} : call'[q] = call[q]
  BY OthersStay DEF Start, Step
<1>2. rows' = rows /\ blobs' = blobs /\ faults' = faults
  BY DEF RemovePath, RemoveNext, SelectHashes, RemoveFolder, TrimPath, GetLatest,
     GetReaderByHash, OpenBlob, StatBlob, StatCount
<1>3. \A h : ~Owned(call[p], h)
  BY DEF RemovePath, RemoveNext, SelectHashes, RemoveFolder, TrimPath, GetLatest,
     GetReaderByHash, OpenBlob, StatBlob, StatCount, Ready, At, Owned
<1>4. \A h : Refs(h)' = Refs(h)
  BY <1>2 DEF Refs
<1> QED
  BY <1>1, <1>2, <1>3, <1>4, OrphanByCall

LEMMA OldestMatchHash ==
  ASSUME NEW x, NEW h
  PROVE  OldestMatch(x, h) \subseteq Refs(h) /\ OldestMatch(x, h) \subseteq rows
BY DEF OldestMatch, RowsOf, Refs

\* Deleting rows of one hash takes the last row of no other hash.
LEMMA OtherRefsStay ==
  ASSUME NEW gone, NEW h, gone \subseteq Refs(h), rows' = rows \ gone
  PROVE  \A g : Refs(g) # {} /\ Refs(g)' = {} => g = h
BY DEF Refs

LEMMA RemoveVersionOrphan ==
  ASSUME TypeInv, NoOrphan, NEW p \in Proc, RemoveVersion(p)
  PROVE  NoOrphan'
<1>1. \A q \in Proc \ {p} : call'[q] = call[q]
  BY OthersStay DEF Start
<1>2. blobs' = blobs /\ faults' = faults /\ \A h : ~Owned(call[p], h)
  BY DEF RemoveVersion, Ready, Owned
<1>3. PICK x \in Path, h \in Hash :
        /\ rows' = rows \ OldestMatch(x, h)
        /\ Goto(p, IF OldestMatch(x, h) = {} THEN NoCall
                   ELSE [NoCall EXCEPT !.pc = "count", !.deleted = <<h>>])
  BY DEF RemoveVersion
<1>4. CASE OldestMatch(x, h) = {}
  <2>1. rows' = rows
    BY <1>3, <1>4
  <2>2. \A g : Refs(g)' = Refs(g)
    BY <2>1 DEF Refs
  <2> QED
    BY <1>1, <1>2, <2>2, OrphanByCall
<1>5. CASE OldestMatch(x, h) # {}
  <2>1. call'[p] = [NoCall EXCEPT !.pc = "count", !.deleted = <<h>>]
    BY <1>3, <1>5 DEF Goto, TypeInv, TypeOK
  <2>2. call'[p].pc = "count" /\ call'[p].deleted = <<h>>
    BY <2>1 DEF NoCall
  <2>3. h \in Range(<<h>>)
    BY DEF Range
  <2>4. Owned(call'[p], h)
    BY <2>2, <2>3 DEF Owned
  <2>5. \A g : Refs(g) # {} /\ Refs(g)' = {} => g = h
    <3>1. OldestMatch(x, h) \subseteq Refs(h)
      BY OldestMatchHash
    <3> DEFINE gone == OldestMatch(x, h)
    <3>2. gone \subseteq Refs(h) /\ rows' = rows \ gone
      BY <1>3, <3>1
    <3> HIDE DEF gone
    <3> QED
      BY <3>2, OtherRefsStay
  <2> QED
    BY <1>1, <1>2, <2>4, <2>5, OrphanByCall
<1> QED
  BY <1>4, <1>5

\* Outside the window of NoGap the rows that the DELETE takes have hashes that
\* the SELECT has found.
LEMMA DeleteAllOrphan ==
  ASSUME TypeInv, NoGap, NoOrphan, NEW p \in Proc, DeleteAll(p)
  PROVE  NoOrphan'
<1> DEFINE c == [call[p] EXCEPT !.todo = Tail(@)]
           gone == RowsOf(Head(call[p].todo))
<1>1. \A q \in Proc \ {p} : call'[q] = call[q]
  BY OthersStay DEF Step
<1>2. blobs' = blobs /\ faults' = faults /\ \A h : ~Owned(call[p], h)
  BY DEF DeleteAll, At, Owned
<1>3. call[p] \in Call /\ call[p].todo # <<>>
  BY DEF DeleteAll, At, TypeInv, LoadedCall, Loaded
<1>4. c \in Call /\ c.deleted = call[p].deleted
  <2>1. call[p].todo \in Seq(Path)
    BY <1>3 DEF Call
  <2>2. Tail(call[p].todo) \in Seq(Path)
    BY <1>3, <2>1
  <2> QED
    BY <1>3, <2>2 DEF Call
<1>5. rows' = rows \ gone /\ call'[p] = Continue(c)
  BY DEF DeleteAll, Goto, TypeInv, TypeOK
<1>6. \A r \in gone : r.hash \in Range(call[p].deleted)
  BY DEF DeleteAll, At, NoGap
<1> HIDE DEF c, gone
<1>7. \A r \in gone : Owned(call'[p], r.hash)
  BY <1>4, <1>5, <1>6, ContinueOwned
<1>8. \A h : Refs(h) # {} => Refs(h)' # {} \/ Owned(call'[p], h)
  BY <1>5, <1>7 DEF Refs
<1> QED
  BY <1>1, <1>2, <1>8, OrphanByCall

LEMMA TrimDeleteOrphan ==
  ASSUME TypeInv, NoOrphan, NEW p \in Proc, TrimDelete(p)
  PROVE  NoOrphan'
<1> DEFINE h    == Head(call[p].victims)
           gone == UNION {OldestMatch(x, h) : x \in call[p].target}
           c    == [call[p] EXCEPT !.victims = Tail(@),
                      !.deleted = IF gone = {} THEN @ ELSE Append(@, h)]
<1>1. \A q \in Proc \ {p} : call'[q] = call[q]
  BY OthersStay DEF Step
<1>2. blobs' = blobs /\ faults' = faults /\ call[p].pc = "trim_delete"
  BY DEF TrimDelete, At
<1>3. /\ call[p] \in Call /\ call[p].victims # <<>>
      /\ call[p].victims \in Seq(Hash) /\ call[p].deleted \in Seq(Hash)
  BY <1>2 DEF TypeInv, LoadedCall, Loaded, Call
<1>4. h \in Hash /\ Tail(call[p].victims) \in Seq(Hash)
  BY <1>3
<1>5. /\ rows' = rows \ gone
      /\ Goto(p, IF c.victims # <<>> THEN c ELSE Continue(c))
  BY DEF TrimDelete
<1>6. /\ c \in Call /\ c.pc = "trim_delete"
      /\ c.deleted = IF gone = {} THEN call[p].deleted ELSE Append(call[p].deleted, h)
  <2>1. Append(call[p].deleted, h) \in Seq(Hash)
    BY <1>3, <1>4
  <2> HIDE DEF gone, h
  <2> QED
    BY <1>2, <1>3, <1>4, <2>1 DEF Call, h
<1>7. gone \subseteq Refs(h)
  BY OldestMatchHash
<1>8. call'[p] = IF c.victims # <<>> THEN c ELSE Continue(c)
  BY <1>5 DEF Goto, TypeInv, TypeOK
<1> HIDE DEF c, gone, h
<1>9. \A g \in Range(c.deleted) : Owned(call'[p], g)
  <2>1. \A g \in Range(c.deleted) : Owned(c, g)
    BY <1>6 DEF Owned
  <2>2. \A g \in Range(c.deleted) : Owned(Continue(c), g)
    BY <1>6, ContinueOwned
  <2> QED
    BY <1>8, <2>1, <2>2
<1>10. Range(call[p].deleted) \subseteq Range(c.deleted) /\ (gone # {} => h \in Range(c.deleted))
  BY <1>3, <1>4, <1>6, RangeOfAppend
<1>11. \A g : Owned(call[p], g) => Owned(call'[p], g)
  BY <1>2, <1>9, <1>10 DEF Owned
<1>12. \A g : Refs(g) # {} => Refs(g)' # {} \/ Owned(call'[p], g)
  <2>1. CASE gone = {}
    <3>1. \A g : Refs(g)' = Refs(g)
      BY <1>5, <2>1 DEF Refs
    <3> QED
      BY <3>1
  <2>2. CASE gone # {}
    <3>1. \A g : Refs(g) # {} /\ Refs(g)' = {} => g = h
      BY <1>5, <1>7, OtherRefsStay
    <3>2. Owned(call'[p], h)
      BY <1>9, <1>10, <2>2
    <3> QED
      BY <3>1, <3>2
  <2> QED
    BY <2>1, <2>2
<1> QED
  BY <1>1, <1>2, <1>11, <1>12, OrphanByCall

\* A removed hash leaves the call's care when a row refers to it, or with its
\* blob.
LEMMA CountOrphan ==
  ASSUME TypeInv, NoOrphan, NEW p \in Proc, Count(p) \/ Unlink(p)
  PROVE  NoOrphan'
<1> DEFINE h == Head(call[p].deleted)
           c == [call[p] EXCEPT !.deleted = Tail(@)]
<1>1. \A q \in Proc \ {p} : call'[q] = call[q]
  BY OthersStay DEF Step
<1>2. rows' = rows /\ faults' = faults /\ call[p].pc \in {"count", "unlink"}
  BY DEF Count, Unlink, At
<1>3. call[p] \in Call /\ call[p].deleted # <<>> /\ call[p].deleted \in Seq(Hash)
  BY <1>2 DEF TypeInv, LoadedCall, Loaded, Call
<1>4. c \in Call /\ c.deleted = Tail(call[p].deleted)
  <2>1. Tail(call[p].deleted) \in Seq(Hash)
    BY <1>3
  <2> QED
    BY <1>3, <2>1 DEF Call
<1>5. \A g : Owned(call[p], g) => g = h \/ g \in Range(c.deleted)
  BY <1>2, <1>3, <1>4, RangeOfTail DEF Owned
<1>6. call \in [Proc -> Call]
  BY DEF TypeInv, TypeOK
<1>7. \A g : Refs(g)' = Refs(g)
  BY <1>2 DEF Refs
<1>8. CASE Count(p) /\ Refs(h) = {}
  <2>1. blobs' = blobs /\ call'[p] = [call[p] EXCEPT !.pc = "unlink"]
    BY <1>6, <1>8 DEF Count, Goto
  <2>2. call'[p].pc = "unlink" /\ call'[p].deleted = call[p].deleted
    BY <1>3, <2>1 DEF Call
  <2>3. \A g : Owned(call[p], g) => Owned(call'[p], g)
    BY <1>2, <2>2 DEF Owned
  <2> QED
    BY <1>1, <1>2, <1>7, <2>1, <2>3, OrphanByCall
<1>9. CASE Count(p) /\ Refs(h) # {}
  <2>1. blobs' = blobs /\ call'[p] = Continue(c)
    BY <1>6, <1>9 DEF Count, Goto
  <2> HIDE DEF c
  <2>2. \A g : Owned(call[p], g) => Refs(g) # {} \/ Owned(call'[p], g)
    BY <1>4, <1>5, <1>9, <2>1, ContinueOwned
  <2> QED
    BY <1>1, <1>2, <1>7, <2>1, <2>2, OrphanByCall
<1>10. CASE Unlink(p)
  <2>1. blobs' = blobs \ {h} /\ call'[p] = Continue(c)
    BY <1>6, <1>10 DEF Unlink, Goto
  <2> HIDE DEF c
  <2>2. \A g \in blobs' : Owned(call[p], g) => Owned(call'[p], g)
    BY <1>4, <1>5, <2>1, ContinueOwned
  <2> QED
    BY <1>1, <1>2, <1>7, <2>1, <2>2, OrphanByCall
<1> QED
  BY <1>8, <1>9, <1>10

LEMMA OrphanStep == TypeInv /\ Fresh /\ NoGap /\ NoOrphan /\ [Next]_vars => NoOrphan'
<1> SUFFICES ASSUME TypeInv, Fresh, NoGap, NoOrphan, [Next]_vars PROVE NoOrphan'
  OBVIOUS
<1>1. CASE UNCHANGED vars
  BY <1>1 DEF vars, NoOrphan, Refs, Owners
<1>2. ASSUME NEW p \in Proc, Interrupt(p) PROVE NoOrphan'
  <2>1. faults' = faults + 1 /\ faults \in Nat
    BY <1>2 DEF Interrupt, TypeInv, TypeOK
  <2> QED
    BY <2>1 DEF NoOrphan
<1>3. ASSUME NEW p \in Proc, Start(p) \/ Step(p) PROVE NoOrphan'
  BY <1>3, AddOrphan, SelectOrphan, RemoveVersionOrphan, DeleteAllOrphan, TrimDeleteOrphan,
     CountOrphan DEF Start, Step
<1> QED
  BY <1>1, <1>2, <1>3 DEF Next

\* As long as no row comes in between the two statements of a removal with a
\* hash that the first did not select, and no call is cut short, no content
\* outlives its last version: a blob without a row is in the care of a call.
THEOREM NoOrphanOutsideWindow == Spec /\ []NoGap => []NoOrphan
BY TypeInvariance, FreshInit, FreshStep, OrphanInit, OrphanStep, PTL DEF Spec

\* Only an add of another process can open the window.
LEMMA GapInit == Init => NoGap
BY DEF Init, NoCall, NoGap

LEMMA GapStep ==
  ASSUME \A p, q \in Proc : p # q => "add" \notin Ops[p] \/ Ops[q] \cap Removals = {}
  PROVE  TypeInv /\ Roles /\ NoGap /\ [Next]_vars => NoGap'
<1> SUFFICES ASSUME TypeInv, Roles, NoGap, [Next]_vars PROVE NoGap'
  OBVIOUS
<1>1. CASE UNCHANGED vars
  BY <1>1 DEF vars, NoGap, RowsOf
<1>2. ASSUME NEW p \in Proc, Start(p) \/ Step(p) \/ Interrupt(p) PROVE NoGap'
  <2>1. \A q \in Proc \ {p} : call'[q] = call[q]
    BY <1>2, OthersStay
  <2>2. InsertEntries(p) \/ rows' \in SUBSET rows
    BY <1>2 DEF Start, Step, AddReader, Persist, NowV7, SelectHashes, RemovePath, RemoveVersion,
       RemoveFolder, RemoveNext, DeleteAll, TrimPath, TrimDelete, Count, Unlink, GetLatest,
       OpenBlob, GetReaderByHash, StatBlob, StatCount, Interrupt
  <2>3. ASSUME NEW q \in Proc \ {p}, call'[q].pc = "delete_all", NEW r \in rows',
               r.path = Head(call'[q].todo)
        PROVE  r.hash \in Range(call'[q].deleted)
    <3>1. ~InsertEntries(p)
      BY <2>1, <2>3 DEF InsertEntries, At, Roles
    <3>2. r \in RowsOf(Head(call[q].todo))
      BY <2>1, <2>2, <2>3, <3>1 DEF RowsOf
    <3> QED
      BY <2>1, <2>3, <3>2 DEF NoGap
  <2>4. ASSUME call'[p].pc = "delete_all", NEW r \in rows', r.path = Head(call'[p].todo)
        PROVE  r.hash \in Range(call'[p].deleted)
    <3>1. RemovePath(p) \/ RemoveNext(p)
      BY <1>2, <2>4, StartPc, StepPc DEF Start, Step
    <3>2. PICK c \in Call : SelectHashes(p, c)
      <4>1. call[p] \in Call
        BY DEF TypeInv, TypeOK
      <4>2. \A x \in Path : [NoCall EXCEPT !.target = {x}, !.todo = <<x>>] \in Call
        <5>1. NoCall \in Call
          BY NoCallType DEF LoadedCall
        <5>2. \A x \in Path : <<x>> \in Seq(Path)
          BY SingletonIsSeq
        <5> QED
          BY <5>1, <5>2 DEF Call
      <4> QED
        BY <3>1, <4>1, <4>2 DEF RemovePath, RemoveNext
    <3> DEFINE S == {o.hash : o \in RowsOf(Head(c.todo))}
    <3>3. PICK hs \in Orderings(S) : Goto(p, [c EXCEPT !.pc = "delete_all", !.deleted = hs])
      BY <3>2 DEF SelectHashes
    <3>4. call'[p].todo = c.todo /\ call'[p].deleted = hs /\ rows' = rows
      BY <3>2, <3>3 DEF SelectHashes, Goto, Call, TypeInv, TypeOK
    <3>5. r.hash \in S
      BY <2>4, <3>4 DEF RowsOf
    <3> HIDE DEF S
    <3>6. S \subseteq Range(hs)
      BY DEF Orderings, Surjection, Range
    <3> QED
      BY <3>4, <3>5, <3>6
  <2> QED
    BY <2>3, <2>4 DEF NoGap, RowsOf
<1> QED
  BY <1>1, <1>2 DEF Next

\* If no process removes while a different process adds, content never outlives
\* its last version, as long as no call is cut short.
THEOREM NoOrphanWhenRolesApart ==
  ASSUME \A p, q \in Proc : p # q => "add" \notin Ops[p] \/ Ops[q] \cap Removals = {}
  PROVE  Spec => []NoOrphan
<1>1. Spec => []NoGap
  BY TypeInvariance, InitRoles, NextRoles, GapInit, GapStep, PTL DEF Spec
<1> QED
  BY <1>1, NoOrphanOutsideWindow, PTL
-----------------------------------------------------------------------------
(* How long a call takes.                                                  *)

\* What a removal has still to do, up to the step it stands at.
PathWork(c) == PathSteps * Len(c.todo)
VictimWork(c) == 3 * Len(c.victims)
HashWork(c) == 2 * Len(c.deleted)
Work(c) == PathWork(c) + VictimWork(c) + HashWork(c)

LEMMA PathStepsNat == Cardinality(Hash) \in Nat /\ PathSteps \in Nat /\ PathSteps >= 2
BY DataAssumption, FS_CardinalityType DEF PathSteps

LEMMA StepsLeftByPc ==
  ASSUME NEW c \in Call
  PROVE  /\ c.pc = "idle" => StepsLeft(c) = 0
         /\ c.pc \in {"insert", "open", "stat_count"} => StepsLeft(c) = 1
         /\ c.pc \in {"uuid", "stat"} => StepsLeft(c) = 2
         /\ c.pc = "persist" => StepsLeft(c) = 3
         /\ c.pc \in {"folder", "trim_delete", "count"} => StepsLeft(c) = Work(c)
         /\ c.pc = "unlink" => StepsLeft(c) = Work(c) - 1
         /\ c.pc = "delete_all" => StepsLeft(c) = Work(c) - 2 * Cardinality(Hash) - 1
BY DEF StepsLeft, Work, PathWork, VictimWork, HashWork

LEMMA LengthsNat ==
  ASSUME NEW c \in Call
  PROVE  /\ Len(c.todo) \in Nat /\ (c.todo # <<>> => Len(c.todo) >= 1)
         /\ Len(c.victims) \in Nat /\ (c.victims # <<>> => Len(c.victims) >= 1)
         /\ Len(c.deleted) \in Nat /\ (c.deleted # <<>> => Len(c.deleted) >= 1)
<1>1. c.todo \in Seq(Path) /\ c.victims \in Seq(Hash) /\ c.deleted \in Seq(Hash)
  BY DEF Call
<1> QED
  BY <1>1, EmptySeq, LenProperties

LEMMA WorkNat ==
  ASSUME NEW c \in Call
  PROVE  /\ PathWork(c) \in Nat
         /\ VictimWork(c) \in Nat /\ (c.victims # <<>> => VictimWork(c) >= 3)
         /\ HashWork(c) \in Nat /\ (c.deleted # <<>> => HashWork(c) >= 2)
         /\ Work(c) \in Nat
         /\ Work(c) = PathWork(c) + VictimWork(c) + HashWork(c)
<1>1. PathWork(c) \in Nat
  BY LengthsNat, PathStepsNat DEF PathWork
<1>2. VictimWork(c) \in Nat /\ (c.victims # <<>> => VictimWork(c) >= 3)
  BY LengthsNat DEF VictimWork
<1>3. HashWork(c) \in Nat /\ (c.deleted # <<>> => HashWork(c) >= 2)
  BY LengthsNat DEF HashWork
<1> QED
  BY <1>1, <1>2, <1>3 DEF Work

\* The work for one more path.
LEMMA OnePathLess ==
  ASSUME NEW n \in Nat, n >= 1
  PROVE  /\ PathSteps * n = PathSteps * (n - 1) + PathSteps
         /\ PathSteps * (n - 1) \in Nat
<1>1. PathSteps \in Nat
  BY PathStepsNat
<1>2. \A k \in Nat : k * n = k * (n - 1) + k /\ k * (n - 1) \in Nat
  OBVIOUS
<1> QED
  BY <1>1, <1>2

LEMMA LoadedSteps ==
  ASSUME NEW c \in LoadedCall, c.pc # "idle"
  PROVE  StepsLeft(c) \in Nat /\ StepsLeft(c) >= 1
<1>1. c \in Call /\ Loaded(c) /\ c.pc \in PC
  BY DEF LoadedCall, Call
<1>2. CASE c.pc \in {"insert", "open", "stat_count", "uuid", "stat", "persist"}
  BY <1>1, <1>2, StepsLeftByPc
<1>3. CASE c.pc \in {"folder", "delete_all"}
  <2>1. Len(c.todo) \in Nat /\ Len(c.todo) >= 1
    BY <1>1, <1>3, LengthsNat DEF Loaded
  <2>2. PathWork(c) >= PathSteps
    BY <2>1, OnePathLess, PathStepsNat DEF PathWork
  <2>3. Work(c) \in Nat /\ Work(c) >= PathSteps
    BY <1>1, <2>2, WorkNat, PathStepsNat
  <2> QED
    BY <1>1, <1>3, <2>3, StepsLeftByPc, PathStepsNat DEF PathSteps
<1>4. CASE c.pc \in {"trim_delete", "count", "unlink"}
  <2>1. Work(c) \in Nat /\ Work(c) >= 2
    BY <1>1, <1>4, WorkNat DEF Loaded
  <2> QED
    BY <1>1, <1>4, <2>1, StepsLeftByPc
<1> QED
  BY <1>1, <1>2, <1>3, <1>4 DEF PC

\* What a removal goes on with is the work that is left.
LEMMA ContinueSteps ==
  ASSUME NEW c \in Call
  PROVE  StepsLeft(Continue(c)) \in 0..Work(c)
<1>1. Continue(c) \in Call /\ NoCall \in Call
  BY ContinueType, NoCallType DEF LoadedCall
<1>2. Work(c) \in Nat
  BY WorkNat
<1>3. CASE c.deleted # <<>> \/ c.todo # <<>>
  <2>1. /\ Continue(c).pc \in {"count", "folder"}
        /\ Continue(c).todo = c.todo /\ Continue(c).victims = c.victims
        /\ Continue(c).deleted = c.deleted
    BY <1>3 DEF Continue, Call
  <2>2. StepsLeft(Continue(c)) = Work(Continue(c))
    BY <1>1, <2>1, StepsLeftByPc
  <2>3. Work(Continue(c)) = Work(c)
    BY <2>1 DEF Work, PathWork, VictimWork, HashWork
  <2> QED
    BY <1>2, <2>2, <2>3
<1>4. CASE c.deleted = <<>> /\ c.todo = <<>>
  <2>1. Continue(c) = NoCall /\ NoCall.pc = "idle"
    BY <1>4 DEF Continue, NoCall
  <2>2. StepsLeft(Continue(c)) = 0
    BY <1>1, <2>1, StepsLeftByPc
  <2> QED
    BY <1>2, <2>2
<1> QED
  BY <1>3, <1>4

\* A path has at most every hash.
LEMMA OrderingShort ==
  ASSUME TypeInv, NEW x, NEW hs \in Orderings({r.hash : r \in RowsOf(x)})
  PROVE  hs \in Seq(Hash) /\ Len(hs) \in Nat /\ Len(hs) <= Cardinality(Hash)
<1> DEFINE H == {r.hash : r \in RowsOf(x)}
<1>1. IsFiniteSet(H) /\ H \in SUBSET Hash
  BY RowsOfFinite
<1> HIDE DEF H
<1>2. hs \in Seq(H) /\ Len(hs) = Cardinality(H)
  BY <1>1, OrderingIsSeq DEF H
<1>3. Cardinality(H) \in Nat /\ Cardinality(H) <= Cardinality(Hash)
  BY <1>1, DataAssumption, FS_CardinalityType, FS_Subset
<1> QED
  BY <1>1, <1>2, <1>3, SeqMonotonic

\* The SELECT of delete_all_versions, for a call that has paths to do.
LEMMA SelectSteps ==
  ASSUME TypeInv, NEW p \in Proc, NEW c \in Call, c.todo # <<>>, SelectHashes(p, c)
  PROVE  /\ StepsLeft(call'[p]) \in Nat
         /\ StepsLeft(call'[p]) < PathWork(c) + VictimWork(c)
<1>1. PICK hs \in Orderings({r.hash : r \in RowsOf(Head(c.todo))}) :
        Goto(p, [c EXCEPT !.pc = "delete_all", !.deleted = hs])
  BY DEF SelectHashes
<1>2. hs \in Seq(Hash) /\ Len(hs) \in Nat /\ Len(hs) <= Cardinality(Hash)
  BY OrderingShort
<1> DEFINE d == [c EXCEPT !.pc = "delete_all", !.deleted = hs]
<1>3. /\ d \in Call /\ d.pc = "delete_all" /\ d.deleted = hs
      /\ d.todo = c.todo /\ d.victims = c.victims
  BY <1>2 DEF Call, PC
<1>4. call'[p] = d
  BY <1>1 DEF Goto, TypeInv, TypeOK
<1> HIDE DEF d
<1>5. d \in LoadedCall
  BY <1>3 DEF LoadedCall, Loaded
<1>6. StepsLeft(d) \in Nat
  BY <1>3, <1>5, LoadedSteps
<1>7. StepsLeft(d) = Work(d) - 2 * Cardinality(Hash) - 1
  BY <1>3, StepsLeftByPc
<1>8. Work(d) = PathWork(c) + VictimWork(c) + 2 * Len(hs)
  BY <1>3 DEF Work, PathWork, VictimWork, HashWork
<1>9. PathWork(c) \in Nat /\ VictimWork(c) \in Nat
  BY WorkNat
<1>10. Cardinality(Hash) \in Nat
  BY PathStepsNat
<1>11. StepsLeft(d) < PathWork(c) + VictimWork(c)
  BY <1>2, <1>7, <1>8, <1>9, <1>10
<1> QED
  BY <1>4, <1>6, <1>11

\* The step that p takes is one of those it had left.
Shrinks(p) == StepsLeft(call'[p]) \in 0..(StepsLeft(call[p]) - 1)

LEMMA RemoveNextShrinks ==
  ASSUME TypeInv, NEW p \in Proc, RemoveNext(p)
  PROVE  Shrinks(p)
<1>1. call[p] \in Call /\ call[p].pc = "folder" /\ call[p].todo # <<>>
  BY DEF TypeInv, LoadedCall, Loaded, RemoveNext, At
<1>2. /\ StepsLeft(call'[p]) \in Nat
      /\ StepsLeft(call'[p]) < PathWork(call[p]) + VictimWork(call[p])
  BY <1>1, SelectSteps DEF RemoveNext
<1>3. StepsLeft(call[p]) = Work(call[p])
  BY <1>1, StepsLeftByPc
<1>4. /\ PathWork(call[p]) \in Nat /\ VictimWork(call[p]) \in Nat
      /\ HashWork(call[p]) \in Nat
      /\ Work(call[p]) = PathWork(call[p]) + VictimWork(call[p]) + HashWork(call[p])
  BY <1>1, WorkNat
<1>5. StepsLeft(call'[p]) <= StepsLeft(call[p]) - 1 /\ StepsLeft(call[p]) \in Int
  BY <1>2, <1>3, <1>4
<1> QED
  BY <1>2, <1>5 DEF Shrinks

LEMMA DeleteAllShrinks ==
  ASSUME TypeInv, NEW p \in Proc, DeleteAll(p)
  PROVE  Shrinks(p)
<1> DEFINE c == [call[p] EXCEPT !.todo = Tail(@)]
<1>1. /\ call[p] \in Call /\ call[p].pc = "delete_all"
      /\ call[p].todo \in Seq(Path) /\ call[p].todo # <<>>
  BY DEF TypeInv, LoadedCall, Loaded, DeleteAll, At, Call
<1>2. Tail(call[p].todo) \in Seq(Path) /\ Len(Tail(call[p].todo)) = Len(call[p].todo) - 1
  BY <1>1, HeadTailProperties
<1>3. /\ c \in Call /\ c.todo = Tail(call[p].todo) /\ c.victims = call[p].victims
      /\ c.deleted = call[p].deleted
  BY <1>1, <1>2 DEF Call
<1>4. call'[p] = Continue(c)
  BY DEF DeleteAll, Goto, TypeInv, TypeOK
<1> HIDE DEF c
<1>5. StepsLeft(call'[p]) \in 0..Work(c) /\ Work(c) \in Nat
  BY <1>3, <1>4, ContinueSteps, WorkNat
<1>6. Len(call[p].todo) \in Nat /\ Len(call[p].todo) >= 1
  BY <1>1, LengthsNat
<1>7. PathWork(call[p]) = PathWork(c) + PathSteps
  BY <1>2, <1>3, <1>6, OnePathLess DEF PathWork
<1>8. Work(call[p]) = Work(c) + PathSteps
  <2>1. VictimWork(c) = VictimWork(call[p]) /\ HashWork(c) = HashWork(call[p])
    BY <1>3 DEF VictimWork, HashWork
  <2>2. PathWork(c) \in Nat /\ VictimWork(c) \in Nat /\ HashWork(c) \in Nat
    BY <1>3, WorkNat
  <2> QED
    BY <1>7, <2>1, <2>2, PathStepsNat DEF Work
<1>9. StepsLeft(call[p]) = Work(c) + 1
  BY <1>1, <1>5, <1>8, StepsLeftByPc, PathStepsNat DEF PathSteps
<1> QED
  BY <1>5, <1>9 DEF Shrinks

LEMMA TrimDeleteShrinks ==
  ASSUME TypeInv, NEW p \in Proc, TrimDelete(p)
  PROVE  Shrinks(p)
<1> DEFINE h    == Head(call[p].victims)
           gone == UNION {OldestMatch(x, h) : x \in call[p].target}
           c    == [call[p] EXCEPT !.victims = Tail(@),
                      !.deleted = IF gone = {} THEN @ ELSE Append(@, h)]
<1>1. Goto(p, IF c.victims # <<>> THEN c ELSE Continue(c))
  BY DEF TrimDelete
<1>2. /\ call[p] \in Call /\ call[p].pc = "trim_delete"
      /\ call[p].victims \in Seq(Hash) /\ call[p].victims # <<>>
      /\ call[p].deleted \in Seq(Hash)
  BY DEF TypeInv, LoadedCall, Loaded, TrimDelete, At, Call
<1>3. /\ h \in Hash /\ Tail(call[p].victims) \in Seq(Hash)
      /\ Len(Tail(call[p].victims)) = Len(call[p].victims) - 1
  BY <1>2, HeadTailProperties
<1> HIDE DEF h, gone
<1>4. /\ Append(call[p].deleted, h) \in Seq(Hash)
      /\ Len(Append(call[p].deleted, h)) = Len(call[p].deleted) + 1
  BY <1>2, <1>3, AppendProperties
<1>5. /\ c \in Call /\ c.pc = "trim_delete" /\ c.todo = call[p].todo
      /\ c.victims = Tail(call[p].victims)
      /\ c.deleted \in {call[p].deleted, Append(call[p].deleted, h)}
  BY <1>2, <1>3, <1>4 DEF Call
<1> HIDE DEF c
<1>6. call'[p] = IF c.victims # <<>> THEN c ELSE Continue(c)
  BY <1>1 DEF Goto, TypeInv, TypeOK
<1>7. StepsLeft(call'[p]) \in 0..Work(c) /\ Work(c) \in Nat
  <2>1. StepsLeft(c) = Work(c) /\ Work(c) \in Nat
    BY <1>5, StepsLeftByPc, WorkNat
  <2>2. StepsLeft(Continue(c)) \in 0..Work(c)
    BY <1>5, ContinueSteps
  <2> QED
    BY <1>6, <2>1, <2>2
<1>8. StepsLeft(call[p]) >= Work(c) + 1 /\ StepsLeft(call[p]) \in Nat
  <2>1. StepsLeft(call[p]) = Work(call[p]) /\ Work(call[p]) \in Nat
    BY <1>2, StepsLeftByPc, WorkNat
  <2>2. PathWork(call[p]) = PathWork(c)
    BY <1>5 DEF PathWork
  <2>3. VictimWork(call[p]) = VictimWork(c) + 3
    <3>1. Len(c.victims) = Len(call[p].victims) - 1 /\ Len(call[p].victims) \in Nat
      BY <1>2, <1>3, <1>5, LengthsNat
    <3> QED
      BY <3>1 DEF VictimWork
  <2>4. HashWork(c) <= HashWork(call[p]) + 2
    <3>1. Len(call[p].deleted) \in Nat
      BY <1>2, LengthsNat
    <3>2. Len(c.deleted) \in {Len(call[p].deleted), Len(call[p].deleted) + 1}
      BY <1>4, <1>5
    <3> QED
      BY <3>1, <3>2 DEF HashWork
  <2>5. /\ PathWork(c) \in Nat /\ VictimWork(c) \in Nat
        /\ HashWork(c) \in Nat /\ HashWork(call[p]) \in Nat
    BY <1>2, <1>5, WorkNat
  <2>6. Work(call[p]) >= Work(c) + 1
    BY <2>2, <2>3, <2>4, <2>5 DEF Work
  <2> QED
    BY <2>1, <2>6
<1> QED
  BY <1>7, <1>8 DEF Shrinks

\* The tail of a removal.
LEMMA CountShrinks ==
  ASSUME TypeInv, NEW p \in Proc, Count(p) \/ Unlink(p)
  PROVE  Shrinks(p)
<1> DEFINE c == [call[p] EXCEPT !.deleted = Tail(@)]
           d == [call[p] EXCEPT !.pc = "unlink"]
<1>1. /\ call[p] \in Call /\ call[p].pc \in {"count", "unlink"}
      /\ call[p].deleted \in Seq(Hash) /\ call[p].deleted # <<>>
  BY DEF TypeInv, LoadedCall, Loaded, Count, Unlink, At, Call
<1>2. /\ Tail(call[p].deleted) \in Seq(Hash)
      /\ Len(Tail(call[p].deleted)) = Len(call[p].deleted) - 1
  BY <1>1, HeadTailProperties
<1>3. /\ c \in Call /\ c.todo = call[p].todo /\ c.victims = call[p].victims
      /\ c.deleted = Tail(call[p].deleted)
  BY <1>1, <1>2 DEF Call
<1>4. /\ d \in Call /\ d.pc = "unlink" /\ d.todo = call[p].todo
      /\ d.victims = call[p].victims /\ d.deleted = call[p].deleted
  BY <1>1 DEF Call, PC
<1>5. \/ call'[p] = Continue(c)
      \/ call[p].pc = "count" /\ call'[p] = d
  BY DEF Count, Unlink, Goto, At, TypeInv, TypeOK
<1> HIDE DEF c, d
<1>6. Work(call[p]) \in Nat /\ Work(c) \in Nat /\ Work(call[p]) = Work(c) + 2
  <2>1. PathWork(call[p]) = PathWork(c) /\ VictimWork(call[p]) = VictimWork(c)
    BY <1>3 DEF PathWork, VictimWork
  <2>2. HashWork(call[p]) = HashWork(c) + 2
    <3>1. Len(c.deleted) = Len(call[p].deleted) - 1 /\ Len(call[p].deleted) \in Nat
      BY <1>1, <1>2, <1>3, LengthsNat
    <3> QED
      BY <3>1 DEF HashWork
  <2>3. /\ PathWork(c) \in Nat /\ VictimWork(c) \in Nat /\ HashWork(c) \in Nat
        /\ Work(call[p]) \in Nat /\ Work(c) \in Nat
    BY <1>1, <1>3, WorkNat
  <2>4. Work(call[p]) = Work(c) + 2
    BY <2>1, <2>2, <2>3 DEF Work
  <2> QED
    BY <2>3, <2>4
<1>7. StepsLeft(call[p]) \in {Work(c) + 1, Work(c) + 2}
  BY <1>1, <1>6, StepsLeftByPc
<1>8. CASE call'[p] = Continue(c)
  BY <1>3, <1>6, <1>7, <1>8, ContinueSteps DEF Shrinks
<1>9. CASE call[p].pc = "count" /\ call'[p] = d
  <2>1. Work(d) = Work(call[p])
    BY <1>4 DEF Work, PathWork, VictimWork, HashWork
  <2>2. StepsLeft(d) = Work(d) - 1
    BY <1>4, StepsLeftByPc
  <2>3. StepsLeft(call[p]) = Work(call[p])
    BY <1>1, <1>9, StepsLeftByPc
  <2> QED
    BY <1>6, <1>9, <2>1, <2>2, <2>3 DEF Shrinks
<1> QED
  BY <1>5, <1>8, <1>9

\* The other calls go through a fixed list of steps.
LEMMA ShortCallShrinks ==
  ASSUME TypeInv, TypeInv', NEW p \in Proc,
         \/ Persist(p) \/ NowV7(p) \/ InsertEntries(p)
         \/ OpenBlob(p) \/ StatBlob(p) \/ StatCount(p) \/ Interrupt(p)
  PROVE  Shrinks(p)
<1>1. call[p] \in LoadedCall /\ call[p] \in Call /\ call'[p] \in Call
  BY DEF TypeInv, TypeOK
<1>2. CASE call'[p].pc = "idle"
  <2>1. call[p].pc # "idle"
    BY DEF Persist, NowV7, InsertEntries, OpenBlob, StatBlob, StatCount, Interrupt, At
  <2>2. StepsLeft(call[p]) \in Nat /\ StepsLeft(call[p]) >= 1
    BY <1>1, <2>1, LoadedSteps
  <2>3. StepsLeft(call'[p]) = 0
    BY <1>1, <1>2, StepsLeftByPc
  <2> QED
    BY <2>2, <2>3 DEF Shrinks
<1>3. CASE call'[p].pc # "idle"
  <2>1. \/ call[p].pc = "persist" /\ call'[p].pc = "uuid"
        \/ call[p].pc = "uuid" /\ call'[p].pc = "insert"
        \/ call[p].pc = "stat" /\ call'[p].pc = "stat_count"
    BY <1>3, StepPc DEF Persist, NowV7, StatBlob, At
  <2> QED
    BY <1>1, <2>1, StepsLeftByPc DEF Shrinks
<1> QED
  BY <1>2, <1>3

LEMMA StepShrinks ==
  ASSUME TypeInv, TypeInv', NEW p \in Proc, Step(p) \/ Interrupt(p)
  PROVE  Shrinks(p)
BY RemoveNextShrinks, DeleteAllShrinks, TrimDeleteShrinks, CountShrinks, ShortCallShrinks
   DEF Step

\* The bound on a call that begins.
LEMMA StartBound ==
  ASSUME TypeInv
  PROVE  /\ Cardinality(rows) \in Nat
         /\ PathSteps * (Cardinality(rows) + 1) \in Nat
         /\ \A n \in 0..Cardinality(rows) :
              PathSteps * n + PathSteps <= PathSteps * (Cardinality(rows) + 1)
         /\ PathSteps <= PathSteps * (Cardinality(rows) + 1)
<1> DEFINE k == PathSteps
           m == Cardinality(rows)
<1>1. k \in Nat /\ m \in Nat
  BY PathStepsNat, FS_CardinalityType DEF TypeInv
<1> HIDE DEF k, m
<1>2. \A b, c \in Nat : b * (c + 1) = b * c + b /\ b * c \in Nat
  OBVIOUS
<1>3. ASSUME NEW n \in 0..m PROVE k * n <= k * m
  <2>1. PICK d \in Nat : m = n + d
    BY <1>1, <1>3
  <2>2. \A a, b, c \in Nat : a * (b + c) = a * b + a * c /\ a * c \in Nat
    OBVIOUS
  <2>3. n \in Nat
    BY <1>1, <1>3
  <2>4. k * m = k * n + k * d /\ k * d \in Nat /\ k * n \in Nat
    BY <1>1, <2>1, <2>2, <2>3
  <2> HIDE DEF k, m
  <2> QED
    BY <2>4
<1>4. k * (m + 1) = k * m + k /\ k * m \in Nat
  BY <1>1, <1>2
<1>5. ASSUME NEW n \in 0..m PROVE k * n + k <= k * (m + 1)
  <2>1. n \in Nat
    BY <1>1
  <2>2. k * n \in Nat
    BY <1>1, <1>2, <2>1
  <2> QED
    BY <1>1, <1>3, <1>4, <2>2
<1>6. k * (m + 1) \in Nat /\ k <= k * (m + 1)
  BY <1>1, <1>4
<1> QED
  BY <1>1, <1>5, <1>6 DEF k, m

LEMMA StartSteps ==
  ASSUME TypeInv, TypeInv', NEW p \in Proc, Start(p)
  PROVE  StepsLeft(call'[p]) \in 0..(PathSteps * (Cardinality(rows) + 1))
<1> DEFINE bound == PathSteps * (Cardinality(rows) + 1)
<1>1. call'[p] \in Call /\ call'[p] \in LoadedCall /\ call \in [Proc -> Call]
  BY DEF TypeInv, TypeOK
<1>2. bound \in Nat /\ PathSteps \in Nat /\ PathSteps <= bound
  BY StartBound, PathStepsNat
<1>3. Cardinality(rows) \in Nat
  BY StartBound
<1>4. Hash # {} => PathSteps >= 4
  <2> SUFFICES ASSUME NEW h \in Hash PROVE PathSteps >= 4
    OBVIOUS
  <2>1. Cardinality(Hash) # 0
    BY DataAssumption, FS_EmptySet
  <2> QED
    BY <2>1, PathStepsNat DEF PathSteps
<1>5. \A n \in 0..Cardinality(rows) : PathSteps * n + PathSteps <= bound /\ PathSteps * n \in Nat
  <2>1. \A a, b \in Nat : a * b \in Nat
    OBVIOUS
  <2>2. \A n \in 0..Cardinality(rows) : n \in Nat
    OBVIOUS
  <2>3. \A n \in 0..Cardinality(rows) : PathSteps * n \in Nat
    BY <1>2, <2>1, <2>2
  <2> QED
    BY <2>3, StartBound
<1> HIDE DEF bound
<1>6. CASE call'[p].pc = "idle"
  BY <1>1, <1>2, <1>6, StepsLeftByPc DEF bound
<1>7. CASE AddReader(p)
  <2>1. call'[p].pc \in {"persist", "uuid"}
    BY <1>7, StartPc
  <2>2. Hash # {}
    BY <1>1, <2>1 DEF LoadedCall, Loaded
  <2>3. StepsLeft(call'[p]) \in {2, 3}
    BY <1>1, <2>1, StepsLeftByPc
  <2> QED
    BY <1>2, <1>4, <2>2, <2>3 DEF bound
<1>8. CASE GetLatest(p) \/ GetReaderByHash(p)
  <2>1. call'[p].pc \in {"idle", "open", "stat"}
    BY <1>8, StartPc
  <2>2. StepsLeft(call'[p]) \in {0, 1, 2}
    BY <1>1, <2>1, StepsLeftByPc
  <2> QED
    BY <1>2, <2>2, PathStepsNat DEF bound
<1>9. CASE RemovePath(p)
  <2>1. PICK x \in Path : SelectHashes(p, [NoCall EXCEPT !.target = {x}, !.todo = <<x>>])
    BY <1>9 DEF RemovePath
  <2> DEFINE t == <<x>>
             c == [NoCall EXCEPT !.target = {x}, !.todo = t]
  <2>2. t \in Seq(Path) /\ t # <<>> /\ Len(t) = 1
    BY SingletonIsSeq
  <2>3. SelectHashes(p, c)
    BY <2>1
  <2> HIDE DEF t
  <2>4. c \in Call /\ c.todo = t /\ c.victims = <<>>
    BY <2>2, NoCallType DEF NoCall, LoadedCall, Call
  <2> HIDE DEF c
  <2>5. /\ StepsLeft(call'[p]) \in Nat
        /\ StepsLeft(call'[p]) < PathWork(c) + VictimWork(c)
    BY <2>2, <2>3, <2>4, SelectSteps
  <2>6. PathWork(c) = PathSteps /\ VictimWork(c) = 0
    <3>1. PathWork(c) = PathSteps * 1
      BY <2>2, <2>4 DEF PathWork
    <3>2. \A n \in Nat : n * 1 = n
      OBVIOUS
    <3>3. VictimWork(c) = 0
      BY <2>4 DEF VictimWork
    <3> QED
      BY <1>2, <3>1, <3>2, <3>3
  <2> QED
    BY <1>2, <2>5, <2>6 DEF bound
<1>10. CASE RemoveVersion(p) /\ call'[p].pc # "idle"
  <2>1. PICK h \in Hash : call'[p] = [NoCall EXCEPT !.pc = "count", !.deleted = <<h>>]
    <3>1. PICK x \in Path, h \in Hash :
            Goto(p, IF OldestMatch(x, h) = {} THEN NoCall
                    ELSE [NoCall EXCEPT !.pc = "count", !.deleted = <<h>>])
      BY <1>10 DEF RemoveVersion
    <3> QED
      BY <1>1, <1>10, <3>1 DEF Goto, NoCall
  <2>2. /\ call'[p].pc = "count" /\ call'[p].todo = <<>> /\ call'[p].victims = <<>>
        /\ call'[p].deleted = <<h>>
    BY <2>1 DEF NoCall
  <2>3. StepsLeft(call'[p]) = Work(call'[p])
    BY <1>1, <2>2, StepsLeftByPc
  <2>4. Work(call'[p]) = 2
    BY <1>2, <2>2 DEF Work, PathWork, VictimWork, HashWork
  <2> QED
    BY <1>2, <2>3, <2>4, PathStepsNat DEF bound
<1>11. CASE RemoveFolder(p)
  <2>1. PICK f \in Folders : \E s \in Listings(f) :
          Goto(p, Continue([NoCall EXCEPT !.target = f, !.todo = s]))
    BY <1>11 DEF RemoveFolder
  <2>2. PICK s \in Listings(f) :
          Goto(p, Continue([NoCall EXCEPT !.target = f, !.todo = s]))
    BY <2>1
  <2>3. f \in SUBSET Path
    BY DataAssumption
  <2>4. s \in Seq(Path)
    BY <2>3, ListingIsSeq DEF TypeInv, TypeOK
  <2>5. Len(s) \in 0..Cardinality(rows)
    <3> DEFINE R == {r \in rows : r.path \in f}
    <3>1. IsFiniteSet(R) /\ Cardinality(R) <= Cardinality(rows) /\ Cardinality(R) \in Nat
      BY FS_Subset, FS_CardinalityType DEF TypeInv
    <3>2. DOMAIN s = 1..Cardinality(R)
      BY DEF Listings
    <3> HIDE DEF R
    <3>3. Len(s) = Cardinality(R)
      BY <2>4, <3>1, <3>2, LenProperties
    <3> QED
      BY <1>3, <3>1, <3>3
  <2> DEFINE c == [NoCall EXCEPT !.target = f, !.todo = s]
  <2>6. c \in Call /\ c.todo = s /\ c.victims = <<>> /\ c.deleted = <<>>
    BY <2>3, <2>4, NoCallType DEF NoCall, LoadedCall, Call
  <2>7. call'[p] = Continue(c)
    BY <1>1, <2>2 DEF Goto
  <2> HIDE DEF c
  <2>8. StepsLeft(call'[p]) \in 0..Work(c) /\ Work(c) \in Nat
    BY <2>6, <2>7, ContinueSteps, WorkNat
  <2>9. Work(c) = PathSteps * Len(s)
    <3>1. PathWork(c) = PathSteps * Len(s) /\ PathWork(c) \in Nat
      BY <2>6, WorkNat DEF PathWork
    <3>2. VictimWork(c) = 0 /\ HashWork(c) = 0
      BY <2>6 DEF VictimWork, HashWork
    <3> QED
      BY <3>1, <3>2 DEF Work
  <2>10. PathSteps * Len(s) + PathSteps <= bound /\ PathSteps * Len(s) \in Nat
    BY <1>5, <2>5
  <2> QED
    BY <1>2, <2>8, <2>9, <2>10 DEF bound
<1>12. CASE TrimPath(p) /\ call'[p].pc # "idle"
  <2>1. PICK x \in Path, k \in 1..MaxKeep : \E s \in Orderings(RowsOf(x)) :
          Goto(p, IF Len(s) <= k THEN NoCall
                  ELSE [NoCall EXCEPT !.pc = "trim_delete", !.target = {x}, !.keep = k,
                          !.victims = [i \in 1..(Len(s) - k) |-> s[k + i].hash]])
    BY <1>12 DEF TrimPath
  <2>2. PICK s \in Orderings(RowsOf(x)) :
          Goto(p, IF Len(s) <= k THEN NoCall
                  ELSE [NoCall EXCEPT !.pc = "trim_delete", !.target = {x}, !.keep = k,
                          !.victims = [i \in 1..(Len(s) - k) |-> s[k + i].hash]])
    BY <2>1
  <2>3. Len(s) \in 0..Cardinality(rows)
    <3>1. RowsOf(x) \in SUBSET rows
      BY DEF RowsOf
    <3>2. IsFiniteSet(RowsOf(x)) /\ Cardinality(RowsOf(x)) <= Cardinality(rows)
      BY <3>1, FS_Subset DEF TypeInv
    <3>3. Len(s) = Cardinality(RowsOf(x)) /\ Cardinality(RowsOf(x)) \in Nat
      BY <3>2, OrderingIsSeq, FS_CardinalityType
    <3> QED
      BY <1>3, <3>2, <3>3
  <2> DEFINE v == [i \in 1..(Len(s) - k) |-> s[k + i].hash]
  <2>4. ~(Len(s) <= k) /\ call'[p] = [NoCall EXCEPT !.pc = "trim_delete", !.target = {x},
                                        !.keep = k, !.victims = v]
    BY <1>1, <1>12, <2>2 DEF Goto, NoCall
  <2>5. Len(s) - k \in Nat /\ Len(s) - k >= 1 /\ Len(s) - k <= Len(s) /\ Len(s) \in Nat
    BY <1>3, <2>3, <2>4, BoundAssumption
  <2>6. DOMAIN v = 1..(Len(s) - k)
    OBVIOUS
  <2> HIDE DEF v
  <2>7. /\ call'[p].pc = "trim_delete" /\ call'[p].todo = <<>> /\ call'[p].deleted = <<>>
        /\ call'[p].victims = v
    BY <2>4 DEF NoCall
  <2>8. v \in Seq(Hash)
    BY <1>1, <2>7 DEF Call
  <2>9. Len(v) = Len(s) - k
    BY <2>5, <2>6, <2>8, LenProperties
  <2>10. PathSteps >= 4
    <3>1. v[1] \in Hash
      BY <2>5, <2>8, <2>9, ElementOfSeq
    <3> QED
      BY <1>4, <3>1
  <2>11. StepsLeft(call'[p]) = Work(call'[p])
    BY <1>1, <2>7, StepsLeftByPc
  <2>12. Work(call'[p]) = 3 * Len(v)
    <3>1. PathWork(call'[p]) = 0
      BY <1>2, <2>7 DEF PathWork
    <3>2. VictimWork(call'[p]) = 3 * Len(v) /\ HashWork(call'[p]) = 0
      BY <2>7 DEF VictimWork, HashWork
    <3>3. 3 * Len(v) \in Nat
      BY <2>5, <2>9
    <3> QED
      BY <3>1, <3>2, <3>3 DEF Work
  <2>13. 3 * Len(v) <= PathSteps * Len(s)
    <3>1. \A a, b \in Nat : a >= 4 => 3 * b <= a * b
      <4> SUFFICES ASSUME NEW a \in Nat, NEW b \in Nat, a >= 4 PROVE 3 * b <= a * b
        OBVIOUS
      <4>1. PICK d \in Nat : a = 3 + d
        BY Z3
      <4>2. a * b = 3 * b + d * b /\ d * b \in Nat
        BY <4>1
      <4> QED
        BY <4>2
    <3>2. 3 * Len(s) <= PathSteps * Len(s)
      BY <1>2, <2>5, <2>10, <3>1
    <3>3. PathSteps * Len(s) \in Nat
      BY <1>5, <2>3
    <3> QED
      BY <2>5, <2>9, <3>2, <3>3
  <2>14. PathSteps * Len(s) + PathSteps <= bound /\ PathSteps * Len(s) \in Nat
    BY <1>5, <2>3
  <2>15. 3 * Len(v) \in Nat
    BY <2>5, <2>9
  <2> QED
    BY <1>2, <2>11, <2>12, <2>13, <2>14, <2>15 DEF bound
<1> QED
  BY <1>6, <1>7, <1>8, <1>9, <1>10, <1>11, <1>12 DEF Start

\* No call can be kept busy by others: how long it takes is settled when it
\* begins, by the rows there are, and each of its steps is one less to go.
THEOREM CallsAreBounded == Spec => CallsShrink
<1> DEFINE Shrink ==
      \A p \in Proc : call'[p] # call[p] =>
        StepsLeft(call'[p]) \in
          0..(IF call[p].pc = "idle" THEN PathSteps * (Cardinality(rows) + 1)
                                    ELSE StepsLeft(call[p]) - 1)
<1>1. TypeInv /\ TypeInv' /\ [Next]_vars => Shrink
  <2> SUFFICES ASSUME TypeInv, TypeInv', [Next]_vars, NEW p \in Proc, call'[p] # call[p]
               PROVE  StepsLeft(call'[p]) \in
                        0..(IF call[p].pc = "idle" THEN PathSteps * (Cardinality(rows) + 1)
                                                  ELSE StepsLeft(call[p]) - 1)
    OBVIOUS
  <2>1. PICK q \in Proc : Start(q) \/ Step(q) \/ Interrupt(q)
    BY DEF Next, vars
  <2>2. q = p
    BY <2>1, OthersStay
  <2>3. CASE Start(p)
    <3>1. call[p].pc = "idle"
      BY <2>3 DEF Start, AddReader, RemovePath, RemoveVersion, RemoveFolder, TrimPath,
         GetLatest, GetReaderByHash, Ready
    <3> QED
      BY <2>3, <3>1, StartSteps
  <2>4. CASE Step(p) \/ Interrupt(p)
    <3>1. call[p].pc # "idle"
      BY <2>4 DEF Step, Interrupt, Persist, NowV7, InsertEntries, RemoveNext, DeleteAll,
         TrimDelete, Count, Unlink, OpenBlob, StatBlob, StatCount, At
    <3> QED
      BY <2>4, <3>1, StepShrinks DEF Shrinks
  <2> QED
    BY <2>1, <2>2, <2>3, <2>4
<1>2. Spec => [][TypeInv /\ TypeInv' /\ [Next]_vars]_vars
  BY TypeInvariance, PTL DEF Spec
<1> QED
  BY <1>1, <1>2, PTL DEF CallsShrink
=============================================================================
