------------------------------ MODULE Bloxtree ------------------------------
(***************************************************************************)
(* The engine of bloxtree-core: the public calls of `Bloxtree` (lib.rs)    *)
(* over the index table (index.rs) and the blob directory (store.rs).      *)
(*                                                                         *)
(* A store is shared by several open handles, each in a process of its own *)
(* (the README: "multiple processes can open and write the same store      *)
(* concurrently").  One handle runs one call at a time, since the calls    *)
(* take &mut self.  The index is a database, so ONE SQL STATEMENT is       *)
(* atomic; no call opens a transaction, so a call is NOT.  A blob file is  *)
(* created by a rename and destroyed by an unlink, each atomic.  Every     *)
(* statement and every file operation that another process can observe is  *)
(* therefore one action, and `call` holds a call's local variables between *)
(* two of them.                                                            *)
(*                                                                         *)
(* Content is identified with its BLAKE3 hash, which is collision-free     *)
(* here.  The staging of the content in objects/tmp is private to the      *)
(* call: it is part of AddReader.                                          *)
(***************************************************************************)
EXTENDS Integers, Sequences, FiniteSets, Functions

CONSTANTS
  Proc,       \* the open handles
  Path,       \* the virtual paths
  Hash,       \* the contents, each standing for its hash
  NoHash,     \* a call that has no hash yet
  Folders,    \* for each folder name, the set of paths below it
  Ops,        \* the calls each process makes
  MaxUuid,    \* bound: ids issued
  MaxKeep,    \* bound: largest max_versions of a trim (a u8 in the code)
  Seeded,     \* ids already issued in the store the processes open
  MaxFaults   \* bound: calls that fail or are cut short

OpName == {"add", "remove", "remove_version", "remove_folder", "trim",
           "get", "get_by_hash", "stat"}

ASSUME DataAssumption ==
  /\ IsFiniteSet(Path) /\ IsFiniteSet(Hash)
  /\ NoHash \notin Hash
  /\ Folders \subseteq SUBSET Path
ASSUME OpsAssumption == Ops \in [Proc -> SUBSET OpName]
ASSUME BoundAssumption ==
  /\ MaxUuid \in Nat /\ MaxKeep \in Nat /\ MaxFaults \in Nat
  /\ Seeded \in 0..MaxUuid

VARIABLES
  rows,    \* the table paths(path, uuid, hash)
  blobs,   \* the hashes that have a file under objects/
  clock,   \* ids issued so far; an id is its place in the order of issue
  faults,  \* calls that have failed or been cut short
  call     \* for each process, the local variables of its call

vars == <<rows, blobs, clock, faults, call>>

-----------------------------------------------------------------------------
(* The index: what its statements compute.                                 *)

Row == [path : Path, uuid : Nat, hash : Hash]

RowsOf(x) == {r \in rows : r.path = x}

\* ref_count: the rows that SELECT COUNT( * ) ... WHERE hash = ? counts.
Refs(h) == {r \in rows : r.hash = h}

\* Fault: ORDER BY uuid ASC.
LatestAscending(x) == {r \in RowsOf(x) : \A o \in RowsOf(x) : r.uuid <= o.uuid}

\* get_latest: ORDER BY uuid DESC LIMIT 1.
Latest(x) == {r \in RowsOf(x) : \A o \in RowsOf(x) : o.uuid <= r.uuid}

\* Fault: the newest row with the hash is deleted.
NewestMatch(x, h) ==
  {r \in RowsOf(x) \cap Refs(h) :
     \A o \in RowsOf(x) \cap Refs(h) : o.uuid <= r.uuid}

\* delete_version: the one row it deletes, if the path has the hash at all.
OldestMatch(x, h) ==
  {r \in RowsOf(x) \cap Refs(h) :
     \A o \in RowsOf(x) \cap Refs(h) : r.uuid <= o.uuid}

\* Every way of listing a finite set without repetition.
Orderings(S) == Surjection(1..Cardinality(S), S)

\* Fault: the versions are listed from the oldest on.
OldestFirst(s) == \A i, j \in DOMAIN s : i < j => s[i].uuid < s[j].uuid

\* list_versions: ORDER BY uuid DESC.
NewestFirst(s) == \A i, j \in DOMAIN s : i < j => s[i].uuid > s[j].uuid

\* The paths of the rows that list_prefix_entries returns for folder f: a path
\* once for each of its versions and, with ORDER BY path, uuid, all together.
Listings(f) ==
  LET R == {r \in rows : r.path \in f}
  IN  {s \in [1..Cardinality(R) -> {r.path : r \in R}] :
         /\ \A x \in f : Cardinality({i \in DOMAIN s : s[i] = x}) = Cardinality(RowsOf(x))
         /\ \A i, j, k \in DOMAIN s : i < j /\ j < k /\ s[i] = s[k] => s[j] = s[i]}

-----------------------------------------------------------------------------
(* Calls.                                                                  *)

PC == {"idle", "persist", "uuid", "insert", "folder", "delete_all",
       "trim_delete", "count", "unlink", "open", "stat", "stat_count"}

Call == [pc      : PC,
         target  : SUBSET Path,          \* the paths the call is about
         keep    : 0..MaxKeep,           \* versions a removal leaves of each
         hash    : Hash \cup {NoHash},
         uuid    : Nat,
         todo    : Seq(Path),            \* paths whose rows are still to go
         victims : Seq(Hash),            \* versions a trim is still to delete
         deleted : Seq(Hash),            \* hashes still to be counted
         reply   : {"unit", "none", "found", "error", "unreferenced"}]

NoCall == [pc |-> "idle", target |-> {}, keep |-> 0, hash |-> NoHash,
           uuid |-> 0, todo |-> <<>>, victims |-> <<>>, deleted |-> <<>>,
           reply |-> "unit"]

Ready(p, op) == call[p].pc = "idle" /\ op \in Ops[p]
At(p, pc) == call[p].pc = pc
Goto(p, c) == call' = [call EXCEPT ![p] = c]

\* A removal goes on with the hashes it collected, then with the next row of
\* its folder listing, then returns.
Continue(c) ==
  IF c.deleted # <<>> THEN [c EXCEPT !.pc = "count"]
  ELSE IF c.todo # <<>> THEN [c EXCEPT !.pc = "folder"]
  ELSE NoCall

\* A store that earlier calls left consistent: ids up to Seeded are issued,
\* any of their rows may have been removed again.
Init ==
  /\ rows \in SUBSET [path : Path, uuid : 1..Seeded, hash : Hash]
  /\ \A r, s \in rows : r.uuid = s.uuid => r.hash = s.hash
  /\ blobs = {r.hash : r \in rows}
  /\ clock = Seeded
  /\ faults = 0
  /\ call = [p \in Proc |-> NoCall]

-----------------------------------------------------------------------------
(* add: stage, look for the blob, rename, take an id, insert.              *)

Pending == {p \in Proc : call[p].pc \in {"persist", "uuid"}}

\* Fault: the hash of the staged content is not kept.
AddUnhashed(p) ==
  /\ Ready(p, "add")
  /\ clock + Cardinality(Pending) < MaxUuid
  /\ \E ps \in (SUBSET Path) \ {{}} :
       Goto(p, [NoCall EXCEPT !.pc = "persist", !.target = ps])
  /\ UNCHANGED <<rows, blobs, clock, faults>>

\* Fault: the rename is skipped, as though the blob were always there.
AddUnpersisted(p) ==
  /\ Ready(p, "add")
  /\ clock + Cardinality(Pending) < MaxUuid
  /\ \E ps \in (SUBSET Path) \ {{}}, h \in Hash :
       Goto(p, [NoCall EXCEPT !.pc = "uuid", !.target = ps, !.hash = h])
  /\ UNCHANGED <<rows, blobs, clock, faults>>

\* add_reader_to up to `path.exists()`.
AddReader(p) ==
  /\ Ready(p, "add")
  /\ clock + Cardinality(Pending) < MaxUuid
  /\ \E ps \in (SUBSET Path) \ {{}}, h \in Hash :
       Goto(p, [NoCall EXCEPT !.pc = IF h \in blobs THEN "uuid" ELSE "persist",
                              !.target = ps, !.hash = h])
  /\ UNCHANGED <<rows, blobs, clock, faults>>

\* `tmp_file.persist(&path)`: a rename, which replaces an existing file.
Persist(p) ==
  /\ At(p, "persist")
  /\ blobs' = blobs \cup {call[p].hash}
  /\ Goto(p, [call[p] EXCEPT !.pc = "uuid"])
  /\ UNCHANGED <<rows, clock, faults>>

NowV7(p) ==
  /\ At(p, "uuid")
  /\ clock' = clock + 1
  /\ Goto(p, [call[p] EXCEPT !.pc = "insert", !.uuid = clock + 1])
  /\ UNCHANGED <<rows, blobs, faults>>

\* One INSERT OR IGNORE for all the paths, then the call returns.
InsertEntries(p) ==
  /\ At(p, "insert")
  /\ LET c == call[p]
         taken == {r.path : r \in {o \in rows : o.uuid = c.uuid}}
     IN  rows' = rows \cup {[path |-> x, uuid |-> c.uuid, hash |-> c.hash] :
                              x \in c.target \ taken}
  /\ Goto(p, NoCall)
  /\ UNCHANGED <<blobs, clock, faults>>

-----------------------------------------------------------------------------
(* remove_path, remove_folder and trim_path.                               *)

\* Fault: the hashes are selected after the rows are gone.
SelectTooLate(p, c) ==
  /\ Goto(p, [c EXCEPT !.pc = "delete_all", !.deleted = <<>>])
  /\ UNCHANGED <<rows, blobs, clock, faults>>

\* The SELECT DISTINCT hash of delete_all_versions for the first path to do.
SelectHashes(p, c) ==
  /\ \E hs \in Orderings({r.hash : r \in RowsOf(Head(c.todo))}) :
       Goto(p, [c EXCEPT !.pc = "delete_all", !.deleted = hs])
  /\ UNCHANGED <<rows, blobs, clock, faults>>

\* remove_path(path, None), which trim_path(path, 0) calls too.
RemovePath(p) ==
  /\ Ready(p, "remove")
  /\ \E x \in Path : SelectHashes(p, [NoCall EXCEPT !.target = {x}, !.todo = <<x>>])

\* Fault: the references of the removed version are not counted.
RemoveVersionUncounted(p) ==
  /\ Ready(p, "remove_version")
  /\ \E x \in Path, h \in Hash : rows' = rows \ OldestMatch(x, h)
  /\ UNCHANGED <<blobs, clock, faults, call>>

\* remove_path(path, Some(hash)) up to its one DELETE.
RemoveVersion(p) ==
  /\ Ready(p, "remove_version")
  /\ \E x \in Path, h \in Hash :
       LET gone == OldestMatch(x, h)
       IN  /\ rows' = rows \ gone
           /\ Goto(p, IF gone = {} THEN NoCall
                      ELSE [NoCall EXCEPT !.pc = "count", !.deleted = <<h>>])
  /\ UNCHANGED <<blobs, clock, faults>>

\* remove_folder lists the folder once, and then removes path after path.
RemoveFolder(p) ==
  /\ Ready(p, "remove_folder")
  /\ \E f \in Folders : \E s \in Listings(f) :
       Goto(p, Continue([NoCall EXCEPT !.target = f, !.todo = s]))
  /\ UNCHANGED <<rows, blobs, clock, faults>>

\* Fault: the folder is listed again before each of its paths.
RemoveNextRelisted(p) ==
  /\ At(p, "folder")
  /\ \E s \in Listings(call[p].target) :
       s # <<>> /\ SelectHashes(p, [call[p] EXCEPT !.todo = s])

RemoveNext(p) ==
  /\ At(p, "folder")
  /\ SelectHashes(p, call[p])

\* Fault: remove_folder ends with its first path.
DeleteFirst(p) ==
  /\ At(p, "delete_all")
  /\ rows' = rows \ RowsOf(Head(call[p].todo))
  /\ Goto(p, Continue([call[p] EXCEPT !.todo = <<>>]))
  /\ UNCHANGED <<blobs, clock, faults>>

\* The DELETE of delete_all_versions, a statement of its own.
DeleteAll(p) ==
  /\ At(p, "delete_all")
  /\ rows' = rows \ RowsOf(Head(call[p].todo))
  /\ Goto(p, Continue([call[p] EXCEPT !.todo = Tail(@)]))
  /\ UNCHANGED <<blobs, clock, faults>>

\* trim_path lists the versions and keeps the hashes of the surplus ones.
TrimPath(p) ==
  /\ Ready(p, "trim")
  /\ \E x \in Path, k \in 1..MaxKeep : \E s \in Orderings(RowsOf(x)) :
       /\ NewestFirst(s)
       /\ Goto(p, IF Len(s) <= k THEN NoCall
                  ELSE [NoCall EXCEPT !.pc = "trim_delete", !.target = {x}, !.keep = k,
                          !.victims = [i \in 1..(Len(s) - k) |-> s[k + i].hash]])
  /\ UNCHANGED <<rows, blobs, clock, faults>>

\* Fault: a trim does not collect the hashes of the rows it deletes.
TrimDeleteUncollected(p) ==
  /\ At(p, "trim_delete")
  /\ LET c == [call[p] EXCEPT !.victims = Tail(@)]
     IN  /\ rows' = rows \ UNION {OldestMatch(x, Head(call[p].victims)) : x \in c.target}
         /\ Goto(p, IF c.victims # <<>> THEN c ELSE Continue(c))
  /\ UNCHANGED <<blobs, clock, faults>>

\* delete_version for the next victim: by hash, not by id.
TrimDelete(p) ==
  /\ At(p, "trim_delete")
  /\ LET h    == Head(call[p].victims)
         gone == UNION {OldestMatch(x, h) : x \in call[p].target}
         c    == [call[p] EXCEPT !.victims = Tail(@),
                    !.deleted = IF gone = {} THEN @ ELSE Append(@, h)]
     IN  /\ rows' = rows \ gone
         /\ Goto(p, IF c.victims # <<>> THEN c ELSE Continue(c))
  /\ UNCHANGED <<blobs, clock, faults>>

\* Fault: the blob goes with the version, whoever else refers to it.
CountNothing(p) ==
  /\ At(p, "count")
  /\ Goto(p, [call[p] EXCEPT !.pc = "unlink"])
  /\ UNCHANGED <<rows, blobs, clock, faults>>

\* Fault: the loop over the removed hashes does not move on.
CountForever(p) ==
  /\ At(p, "count")
  /\ Goto(p, IF Refs(Head(call[p].deleted)) = {}
             THEN [call[p] EXCEPT !.pc = "unlink"] ELSE call[p])
  /\ UNCHANGED <<rows, blobs, clock, faults>>

\* The tail of every removal: `ref_count(h) == 0`, and then `store.delete(h)`.
Count(p) ==
  /\ At(p, "count")
  /\ Goto(p, IF Refs(Head(call[p].deleted)) = {}
             THEN [call[p] EXCEPT !.pc = "unlink"]
             ELSE Continue([call[p] EXCEPT !.deleted = Tail(@)]))
  /\ UNCHANGED <<rows, blobs, clock, faults>>

\* Fault: the file is looked for in another place, and NotFound is no error.
UnlinkElsewhere(p) ==
  /\ At(p, "unlink")
  /\ Goto(p, Continue([call[p] EXCEPT !.deleted = Tail(@)]))
  /\ UNCHANGED <<rows, blobs, clock, faults>>

Unlink(p) ==
  /\ At(p, "unlink")
  /\ blobs' = blobs \ {Head(call[p].deleted)}
  /\ Goto(p, Continue([call[p] EXCEPT !.deleted = Tail(@)]))
  /\ UNCHANGED <<rows, clock, faults>>

-----------------------------------------------------------------------------
(* Reads.                                                                  *)

\* What a read hands back, and the path it was asked for.
Return(p, reply, ps, h) ==
  Goto(p, [NoCall EXCEPT !.reply = reply, !.target = ps, !.hash = h])

\* get_reader, get_bytes and stat_path begin with get_latest.
GetLatest(p) ==
  /\ \E op \in {"get", "stat"}, x \in Path :
       /\ Ready(p, op)
       /\ \/ RowsOf(x) = {} /\ Return(p, "none", {x}, NoHash)
          \/ \E r \in Latest(x) :
               Goto(p, [NoCall EXCEPT !.pc = IF op = "get" THEN "open" ELSE "stat",
                                      !.target = {x}, !.hash = r.hash])
  /\ UNCHANGED <<rows, blobs, clock, faults>>

\* BloxtreeReader::new opens the file or fails; it never answers None.
OpenBlob(p) ==
  /\ At(p, "open")
  /\ Return(p, IF call[p].hash \in blobs THEN "found" ELSE "error",
            call[p].target, call[p].hash)
  /\ UNCHANGED <<rows, blobs, clock, faults>>

GetReaderByHash(p) ==
  /\ Ready(p, "get_by_hash")
  /\ \E h \in Hash : Return(p, IF h \in blobs THEN "found" ELSE "error", {}, h)
  /\ UNCHANGED <<rows, blobs, clock, faults>>

StatBlob(p) ==
  /\ At(p, "stat")
  /\ IF call[p].hash \in blobs
     THEN Goto(p, [call[p] EXCEPT !.pc = "stat_count"])
     ELSE Return(p, "error", call[p].target, call[p].hash)
  /\ UNCHANGED <<rows, blobs, clock, faults>>

\* stat_path counts the references last; a racing removal makes that zero.
StatCount(p) ==
  /\ At(p, "stat_count")
  /\ Return(p, IF Refs(call[p].hash) = {} THEN "unreferenced" ELSE "found",
            call[p].target, call[p].hash)
  /\ UNCHANGED <<rows, blobs, clock, faults>>

-----------------------------------------------------------------------------
(* A file operation or a statement fails and `?` returns, the future is    *)
(* dropped, or the process dies and another opens the store: in each case  *)
(* the rest of the call never happens and nothing undoes its first part.   *)
Interrupt(p) ==
  /\ call[p].pc # "idle"
  /\ faults < MaxFaults
  /\ faults' = faults + 1
  /\ Goto(p, NoCall)
  /\ UNCHANGED <<rows, blobs, clock>>

Start(p) ==
  \/ AddReader(p) \/ RemovePath(p) \/ RemoveVersion(p) \/ RemoveFolder(p)
  \/ TrimPath(p) \/ GetLatest(p) \/ GetReaderByHash(p)

Step(p) ==
  \/ Persist(p) \/ NowV7(p) \/ InsertEntries(p)
  \/ RemoveNext(p) \/ DeleteAll(p) \/ TrimDelete(p) \/ Count(p) \/ Unlink(p)
  \/ OpenBlob(p) \/ StatBlob(p) \/ StatCount(p)

Next == \E p \in Proc : Start(p) \/ Step(p) \/ Interrupt(p)

Spec == Init /\ [][Next]_vars

\* A call that has begun is polled to its end; nobody has to make calls.
FairSpec == Spec /\ \A p \in Proc : WF_vars(Step(p))
-----------------------------------------------------------------------------
(* What the engine promises.                                               *)

\* The state of every variable and of every local variable of a call.
TypeOK ==
  /\ rows \in SUBSET Row
  /\ blobs \in SUBSET Hash
  /\ clock \in Nat
  /\ faults \in 0..MaxFaults
  /\ call \in [Proc -> Call]

\* No version loses its content: every row of the index has its blob, at
\* every moment, also between the statements of the calls under way and after
\* calls that were cut short.
NoDangling == \A r \in rows : r.hash \in blobs

\* Processes whose call is bound to look after the blob of h: an add that will
\* insert a row for it, or a removal that will still count its references.
Owners(h) ==
  {p \in Proc :
     \/ call[p].pc \in {"uuid", "insert"} /\ call[p].hash = h
     \/ call[p].pc \in {"trim_delete", "count", "unlink"} /\ h \in Range(call[p].deleted)}

\* No content outlives its last version: unless a call was cut short, a blob
\* without a row is in the care of some call that has not returned yet.
NoOrphan == faults = 0 => \A h \in blobs : Refs(h) # {} \/ Owners(h) # {}

\* The k newest versions of path x.
Newest(x, k) ==
  {r \in RowsOf(x) : Cardinality({o \in RowsOf(x) : o.uuid > r.uuid}) < k}

\* No statement of trim_path deletes one of the newest max_versions versions
\* its path has at that moment, though it deletes by hash and hashes repeat.
TrimKeepsNewest ==
  [][\A p \in Proc : At(p, "trim_delete") /\ call'[p] # call[p] =>
       \A x \in call[p].target : Newest(x, call[p].keep) \subseteq rows']_vars

\* When a removal returns, each path it was called for has at most the number
\* of versions it was told to leave: none for remove_path and remove_folder,
\* max_versions for trim_path.
RemovalDone ==
  [][\A p \in Proc :
       /\ call[p].pc \in {"delete_all", "trim_delete", "count", "unlink"}
       /\ call'[p].pc = "idle" /\ faults' = faults
       => \A x \in call[p].target : Cardinality(RowsOf(x)') <= call[p].keep]_vars

\* A read of a path fails, or counts no reference, only when the version it
\* looked up has been removed in the meantime.
ReadsAnswer ==
  [][\A p \in Proc :
       /\ call[p].pc \in {"open", "stat", "stat_count"}
       /\ call'[p].reply \in {"error", "unreferenced"}
       => \A x \in call[p].target : call[p].hash \notin {r.hash : r \in RowsOf(x)}]_vars

\* The statements it takes to remove one path: a SELECT and a DELETE, then for
\* each hash a count and an unlink.
PathSteps == 2 + 2 * Cardinality(Hash)

\* The most statements and file operations that call c has still to make.
StepsLeft(c) ==
  LET removal == PathSteps * Len(c.todo) + 3 * Len(c.victims) + 2 * Len(c.deleted)
  IN  CASE c.pc = "idle" -> 0
        [] c.pc \in {"insert", "open", "stat_count"} -> 1
        [] c.pc \in {"uuid", "stat"} -> 2
        [] c.pc = "persist" -> 3
        [] c.pc \in {"folder", "trim_delete", "count"} -> removal
        [] c.pc = "unlink" -> removal - 1
        [] c.pc = "delete_all" -> removal - 2 * Cardinality(Hash) - 1

\* No call can be kept busy by the calls of other processes: how many steps it
\* takes is settled by the rows there are when it begins, and every step it takes
\* brings it nearer to its end, whatever is added below its folder meanwhile.
CallsShrink ==
  [][\A p \in Proc : call'[p] # call[p] =>
       StepsLeft(call'[p]) \in
         0..(IF call[p].pc = "idle" THEN PathSteps * (Cardinality(rows) + 1)
                                   ELSE StepsLeft(call[p]) - 1)]_vars

\* Every call that has begun returns.
CallsReturn == \A p \in Proc : call[p].pc # "idle" ~> call[p].pc = "idle"

\* A blob that no version references is deleted, or referenced again.
Reclaimed == \A h \in Hash : h \in blobs /\ Refs(h) = {} ~> h \notin blobs \/ Refs(h) # {}

-----------------------------------------------------------------------------
(* The windows in which two processes can break these promises.            *)

\* No process is about to unlink a blob that an add of another process has
\* found or renamed into place but not yet inserted.
NoOverlap ==
  \A p, q \in Proc :
    call[p].pc \in {"uuid", "insert"} /\ call[q].pc = "unlink"
      => call[p].hash # Head(call[q].deleted)

\* Between the two statements of delete_all_versions, no row has come in with
\* a hash that the first did not select.
NoGap ==
  \A p \in Proc :
    call[p].pc = "delete_all" =>
      \A r \in RowsOf(Head(call[p].todo)) : r.hash \in Range(call[p].deleted)

\* What keeps NoDangling true from one step to the next, outside the first
\* window: an add that goes on to insert has its blob in place, and the blob a
\* removal is about to unlink has no row.
Consistent ==
  /\ NoDangling
  /\ \A p \in Proc : call[p].pc \in {"uuid", "insert"} => call[p].hash \in blobs
  /\ \A p \in Proc : call[p].pc = "unlink" => Refs(Head(call[p].deleted)) = {}

\* The executions that stay out of both windows.
SerializedSpec == Init /\ [][Next /\ NoOverlap' /\ NoGap']_vars
=============================================================================
