# A specification of bloxtree

bloxtree is a content-addressed store: virtual paths have versions, a version
is a row in a database that names a content by its BLAKE3 hash, and a content
is a file named by that hash. This directory holds TLA+ modules that model the
store, TLC configurations that check them on small instances, and proofs that
the TLA+ proof system checks for every instance.

## 1. The system

| part | source | state | operations |
|---|---|---|---|
| Engine API | `bloxtree-core/src/lib.rs` | none of its own: a connection and a blob store | `open`, `add_*`, `get_*`, `remove_path`, `remove_folder`, `trim_path`, `list_folder`, `list_paths`, `versions`, `stat_path`, `shutdown` |
| Index | `bloxtree-core/src/index.rs` | table `paths(path, uuid, hash)` | one SQL statement per function; `delete_all_versions` has two |
| Blob store | `bloxtree-core/src/store.rs` | files under `objects/`, staging files under `objects/tmp` | stage and rename, open, stat, unlink |
| Verifying reader | `bloxtree-core/src/reader.rs` | a file, an incremental hash, `verified` | `read` |
| Path rules | `bloxtree-core/src/path.rs` | none | `validate` |
| FUSE driver | `bloxtree-fuse/src/lib.rs` | inode map, ephemeral directories, write buffers, next handle | the handlers of a file system |
| Command line | `bloxtree-cli/src` | none | one engine call per command |

How they interact. The command line and the FUSE driver each open the store in
a process of their own and call the engine. Nothing but the database and the
file system connects two processes: there is no lock around a call, and no call
opens a transaction. The engine keeps no reference counts; a removal asks the
index for the number of rows with a hash and unlinks the blob when it is zero.

What is hard:

* *Interleaving of processes.* A statement is atomic, a call is not: count then
  unlink, look for a blob then insert a row, select hashes then delete rows,
  list versions then delete them by hash.
* *Calls cut short.* A statement or file operation fails, a future is dropped,
  a process dies: the second half of a call never happens, nothing undoes the
  first.
* *Repeated contents.* A path may hold the same hash several times, and so may
  other paths, while deletion of a single version is by hash.
* *The FUSE driver's caches.* Inodes, handles and buffers outlive the paths
  they were made for.

What makes each part correct:

* Engine, index and blob store: no row without its blob; no blob without a row
  once nobody is at work on it; a trim never takes one of the versions it is to
  keep; a removal is complete when it returns; a read fails only if its version
  is gone; every call returns.
* Engine towards its user: with one handle, the sequential store that its
  documentation describes.
* Listings: one level of a folder, each component once, a file if and only if
  it is a path, in agreement with `versions`.
* Reader: content that does not have the expected hash is never accepted as
  complete.
* FUSE driver: what was written to a file and released is what the next read of
  that file returns; rename loses nothing; lookup, readdir and create agree
  about names.

`PROJECT.json` lists every hazard at its line, with the properties that cover
it or the reason why none does yet.

## 2. Modules

| module | what it is |
|---|---|
| `Bloxtree` | the engine over the index and the blob store, for any number of processes |
| `VersionStore` | what a store promises: a history of contents per path and the answer of the last read |
| `BloxtreeRefinement` | the mapping under which the engine with one handle implements `VersionStore` |
| `FolderListing` | paths as sequences of names, and `list_folder` as an operator |
| `BloxtreeFuse` | the FUSE driver over the engine as `VersionStore` describes it, with the kernel and other processes around it |
| `PathBytes` | paths as strings of bytes: `validate`, the range of the index for a prefix, `list_folder` computed from it |
| `BloxtreeReader` | one `read` of the verifying reader |
| `BloxtreeCli` | the commands of `bloxtree-cli`, with other processes and damaged files around them |
| `ListingRefinement` | the listing over bytes against the one over names |
| `MCBloxtree`, `MCBloxtreeFuse`, `MCBloxtreeCli` | instances for TLC: who makes which calls, small sets of names and contents, symmetry |
| `BloxtreeProofs` | theorems about `Bloxtree`: types, and no version without its content |
| `BloxtreeReclaimProofs` | theorems about `Bloxtree`: no content without a version, reads, how long a call takes |
| `BloxtreeRemovalProofs` | theorems about `Bloxtree`: what trims and removals leave |
| `BloxtreeRefinementProofs` | the engine with one handle implements `VersionStore` |
| `BloxtreeFuseProofs` | theorems about `BloxtreeFuse`: handles, buffers, release, rename |
| `BloxtreeFuseNamesProofs` | theorems about the names and directories of `BloxtreeFuse` |
| `BloxtreeCliProofs` | theorems about `get` and `info` |
| `ListingProofs` | theorems about the range of a prefix and about `list_folder` over bytes |

`BloxtreeFuse` uses `VersionStore` by `INSTANCE`: an engine call of the driver
*is* an action of that store (`Engine!Add`, `Engine!RemovePath`), which
`BloxtreeRefinement` shows the engine to implement for one handle.
`BloxtreeCli` extends `Bloxtree`, whose steps its engine calls and those of
other processes take, `PathBytes`, and `BloxtreeReader`, with which `get` reads; `ListingRefinement` instantiates `FolderListing`, so that the listing
the driver is modelled with is compared with the one computed from bytes.

### `Bloxtree`

State. `rows` is the table, `blobs` the set of hashes that have a file, `clock`
the number of ids issued, `faults` the number of calls cut short so far. For
every process, `call` is the record of the local variables that its call
carries from one statement to the next (`deleted` is the vector of that name in
`remove_path` and `trim_path`, `victims` the rest of the slice that `trim_path`
loops over, `todo` the rest of the listing that `remove_folder` loops over),
with `pc` as the place it has reached.

Grain. One action is one SQL statement or one file operation that another
process can observe, with the local code that follows it. Where the code goes
on from one call into the next (`remove_folder` into `remove_path` for each
entry, every removal into its counting loop), `Continue` decides what comes
next, as the code's loops do.

| code | actions |
|---|---|
| `add_reader_to` | `AddReader` (stage, `exists`), `Persist` (rename), `NowV7`, `InsertEntries` |
| `remove_path(path, None)`, `trim_path(path, 0)` | `RemovePath` (SELECT DISTINCT), `DeleteAll`, then `Count`/`Unlink` for each hash |
| `remove_path(path, Some(hash))` | `RemoveVersion` (its one DELETE), `Count`, `Unlink` |
| `remove_folder` | `RemoveFolder` (the listing), `RemoveNext` and on as `remove_path` for each entry |
| `trim_path` | `TrimPath` (the listing), `TrimDelete` for each surplus hash, `Count`, `Unlink` |
| `get_reader`, `get_bytes` | `GetLatest`, `OpenBlob` |
| `get_reader_by_hash` | `GetReaderByHash` |
| `stat_path` | `GetLatest`, `StatBlob`, `StatCount` |
| an error returned by `?`, a dropped future, the death of the process | `Interrupt` |

Abstractions. A content *is* its hash: collisions do not exist. A path is a
model value and a folder the set of paths below it. Ids are numbers in the
order of issue, which the code guarantees within a process and, between
processes, only as far as their clocks agree. The listing of a table whose
order no `ORDER BY` fixes is taken in every order. Staging files are private to
a call. A reply is kept only for reads. The initial states are the stores that
earlier calls left consistent, with up to `Seeded` ids issued and any of their
rows removed again.

### `VersionStore` and `BloxtreeRefinement`

`VersionStore` knows neither ids nor rows nor steps: an add puts a content on
top of the history of each of its paths at once, a removal empties a history or
drops the oldest copy of one content, a read answers with the newest content. A
read by hash must find a content that some path holds, and may find one that
none holds (a blob that a cut-short call left behind). `ImplementsVersionStore`
says that with one open handle, and with a call cut short anywhere, every step
of the engine is a step of that store or changes nothing in it. In particular a
read never fails, and an add is visible under all of its paths or under none.

### `FolderListing`

A name is a base with some leading underscores, a path a sequence of names.
`ListFolder(history, d)` is what `list_folder` returns: it counts the rows of
each component, versions included, as the code does.

### `BloxtreeFuse`

State. `history` is the store. `known` is `ino_info` for files (an inode is a
hash of path and kind, taken to be free of collisions; the inode of a directory
is registered by the lookups that lead to it), `dirs` is `ephemeral_dirs`,
`bufs` is `write_bufs` (the inode that the code keeps beside each buffer is
never read), `nextFh` is `next_fh`. `busy` holds the local variables of a
handler between two engine calls. `files` belongs to the environment: the files
the kernel has open, with the path of their inode, their handle, and what the
client's writes to them amount to.

Grain. The session runs one handler at a time under a mutex, so a handler is
one action, unless it changes the store after an earlier engine call:
`rename` is `Rename` (`get_reader`), `RenameAdd`, `RenameRemove`; `setattr` with
a size is `Truncate`, `TruncateAdd`. Another process may act between any two
actions (`OtherProcess`). Engine calls that change the store may fail (`Fails`,
at most `MaxFaults` times; `faults` counts them) in `release`, `unlink`, `rename` and
`setattr`, and the listing of `rmdir` may, each with what the code then does:
`release`, `setattr` and the removal in `rename` ignore the failure, `unlink`
and the add in `rename` return it, `rmdir` takes it for an empty listing and
removes the directory. A `remove_path` that fails may have removed the rows or not. The other
handlers carry their names: `Lookup`,
`Readdir`, `Create`, `Open`, `Write`, `Release`, `Unlink`, `Mkdir`, `Rmdir`.

Environment. The driver gives entries a lifetime of zero, so the kernel looks
every component of a path up before it calls a handler: a parent directory is
one that can be reached from the root at that moment (`Dirs`), `create` and
`mkdir` are called only for names that lookup does not find, `open` and
`unlink` only for files it does find. The kernel does nothing for a rename
between two names of one inode, replaces like by like only, and moves no
directory into itself.

### `PathBytes` and `ListingRefinement`

`Valid` is `validate`. `Less` is the order in which the database compares two
blobs, `RangeEnd` the end that `prefix_range` computes (`wrapping_add` on the last
byte, one byte 255 for the empty prefix), `InRange` the condition of the range
statement. `ListFolder` is `list_folder` on rows whose paths are bytes: the
folder's prefix, the range, then each row cut at its next slash and counted.
`ListingRefinement` joins the names of `FolderListing` with slashes and says
that both listings are the same (`ListIsFolderListing`).

### `BloxtreeReader` and `BloxtreeCli`

The reader is a record of its fields: what is left of the file, what was hashed
so far, the expected hash, and the flag `verified`. `Counts(n)` are the numbers of
bytes that a read into a buffer of `n` may return, `Mismatch` when `read` returns
an error instead, `Advance` what a read that succeeds changes.

State of `BloxtreeCli`. To the variables of `Bloxtree` it adds `holds`, what the
file of each hash holds (a content other than its own when it is damaged),
`out`, the user's file that `get --out` writes, `cmd`, the local variables
of the command that runs or what remains of one that has exited, and `reader`,
the reader of `get`. `apart` is history: whether `NoOverlap` has held so far.

| code | actions |
|---|---|
| `add`, `remove`, `trim` | `CmdAdd`, `CmdRemove`, `CmdTrim` (the arguments and the first step of the engine call, or the refusal of an argument), `CallStep` for each further step, `CallFails` |
| `list` | `CmdList`, one statement |
| `get` | `CmdGet` (`get_latest`) or `CmdGetHash`, `Open` (the blob, then `File::create`), `Copy` for each buffer, `CopyFails` |
| `info` | `CmdInfo` (`list_paths`), `CountVersions` for each path (a failure counts as none) |
| other processes | `OtherProcess`: a call of theirs begins, takes a step or is cut short |
| a file that no longer holds its content | `Damage` |

One process, `User`, runs the commands. An engine call, of a command or of
another process, takes the steps it has in `Bloxtree`: `exists` and the insert
of an add, the count and the unlink of a removal are separate, and anybody may
act in between. So the race that the run `dangling` finds can happen here too,
and then `get` fails though the version is there and nothing has failed;
`GetFailsOnlyWhenGone` is about the executions in which, so far, no add and
removal have met in that window (`apart`). `GetExact`, `InfoBounds` and
`CommandsExit` hold with it and without it. A store is empty at first: the
commands and the other processes fill it.

## 3. Runs

The runs of the engine are instances of `MCBloxtree`, those of the driver of
`MCBloxtreeFuse`, that of the command line of `MCBloxtreeCli`.

| run | configuration | what it shows |
|---|---|---|
| `one_handle` | `OneHandle.cfg` | one process, every call, one call may be cut short: `TypeOK`, `NoDangling`, `NoOrphan`, `TrimKeepsNewest`, `RemovalDone`, and the refinement |
| `shared` | `Shared.cfg` | a process with every call beside one that adds and reads, outside two windows (below): `NoDangling`, `NoOrphan`, `Consistent`, `TrimKeepsNewest`, `ReadsAnswer`, `CallsShrink` |
| `removers` | `Removers.cfg` | two processes that remove and trim, unrestricted, weakly fair: `NoOrphan`, `CallsReturn`, `Reclaimed` |
| `dangling` | `Dangling.cfg` | `NoDangling` is violated when an add looks for the blob before a remove of the same content unlinks it, and inserts its row afterwards |
| `trim_race` | `TrimRace.cfg` | `TrimKeepsNewest` is violated when two trims of a path that has two versions of one content both list before either deletes |
| `fuse_files` | `FuseFiles.cfg` | everything clients do with two files and a directory, next to another process that adds and to an engine call that fails, outside three windows: `FuseTypeOK`, `BuffersOwned`, `ReleaseCommits`, `OnlyWrittenFilesChange`, `RenameKeepsContent` |
| `fuse_names` | `FuseNames.cfg` | two levels of files, folders and ephemeral directories, made and removed by clients and by another process, unrestricted: `NamesListed`, `StoredFilesReachable`, `NamesUnambiguous`, `ReaddirAgrees`, `DirectoriesStay` |
| `handle_zero` | `HandleZero.cfg` | `OnlyWrittenFilesChange` is violated when two files are open |
| `rename_onto_self` | `RenameOntoSelf.cfg` | `RenameKeepsContent` is violated by renaming `a` to `_a` |
| `lost_write` | `LostWrite.cfg` | `ReleaseCommits` is violated by renaming an open file |
| `listing_kinds` | `ListingKinds.cfg` | `ListingAgrees` is violated by a file with two versions |
| `cli` | `Cli.cfg` | all commands on one store, next to another process that adds and removes, step by step, and to one failure, interrupted call or damaged file: `CliTypeOK`, `GetExact`, `ListIsFolderListing`, `GetFailsOnlyWhenGone`, `InfoBounds`, and under fairness `CommandsExit` |

The windows of the engine. `NoOverlap` says that no process is about to unlink a
blob that another process's add has found or renamed into place and not yet
inserted. `NoGap` says that between the SELECT and the DELETE of
`delete_all_versions` no row came in with a hash the SELECT did not return. The
code does not close either window, and `dangling` shows what happens in the
first. `SerializedSpec` keeps the executions that stay out of both. It cuts
nothing else: every other interleaving of the two processes is explored, and
that run therefore says that these windows are the *only* places where an adding
process can break `NoDangling`, `NoOrphan`, `Consistent` and `ReadsAnswer` of a
removing one, within the bounds. For all four this is also proved (section 4),
each from the window that it needs. `CallsShrink`, in the same run, says that
every step of a call brings it nearer to its end, by the measure `StepsLeft`: at
most so many statements and file operations as the rows there are when it begins
account for.

The windows of the driver. `OwnHandles`: no two open files have one handle
(every opened file has handle 0). `InodesKept`: no open file is unlinked or
renamed. `NoAlias`: no rename between two names of one stored path.
`handle_zero`, `lost_write` and `rename_onto_self` show what happens in them.
`fuse_files` names the three as state constraints: TLC does not go on from a
state in a window, and checks that outside of them the driver keeps its
promises. `CalmSpec` says the same as a specification; it is the one of the
theorems. `BuffersOwned` needs no window, as a theorem says. `OneOfAKind` says
of all shown names what sets `readdir` against `lookup` otherwise, and
`listing_kinds` shows a state without it: a file with two versions and nothing
below it. `ReaddirAgrees` is `ListingAgrees` in the states that `OneOfAKind`
leaves, and `fuse_names` checks it next to the rest. `fuse_names` is not
restricted: what it checks depends on the store and the ephemeral directories
alone.

Bounds of the engine, and why they are enough. Two paths and two contents give a content
shared by two paths, a path with two contents, and a path that holds the same
content twice; those are the distinctions the code makes. Four ids, two of them
in the initial store, make histories of up to four versions, one more than what
it takes for a trim to two versions to have two surplus rows with the same hash
as a kept one. `MaxKeep` is 2 for one process and 1 for two; larger values only
shift the boundary `len() <= max_versions`. One cut-short call is enough to
leave the store in any state a call can leave half-done, and all the other
calls then run on it. Two processes are enough for each of the code's races,
all of which are between a removal and one other call. The symmetry sets
permute contents and paths, which the specification treats alike in the
configurations that use them; the run with liveness properties uses none.

Bounds of the driver. Two bases with one or two underscores in front give each
form of a name that the code tells apart (none, one, two), and a second name
that must not be confused with the first. Two levels of names give a path that
is both file and folder, a folder with one entry and with two, and an ephemeral
directory inside another and inside a folder. Three versions in the store give
a file with two versions beside another file, and a shadowed file with two
files below it. Two open files are what it takes to share a handle; contents
of up to two bytes, with one byte to write and one for holes, tell a write at
an offset from one at the start, a truncated file from a whole one, and an
empty version from none.
One handle from `create`, next to handle 0 of `open`, gives the two files of
`fuse_files` different handles, and one failing call leaves each handler in each
state that a failure can leave it in. The theorems about the driver have none
of these bounds.

Bounds of the command line. The arguments are `a`, `a/a`, `a.`, `a0` and the
invalid `/a`: dot and zero are the bytes right before and right after the slash, so
their paths lie at both ends of the range of the folder `a`. The contents are a
piece of one another, so that a read that ends too early and a damaged file
that is longer or shorter both give a wrong content; buffers of one and two
bytes cut them at every place. The commands have one process and another process has a
second, which adds to and removes `a` (`OtherPaths`), so that every statement of the
one can come between two of the other; for `a` the commands do so too. Two ids give
a path two versions, or two paths one content; an add command takes one path
(`MaxBatch`; adds to several are in `one_handle`) and a trim keeps one. The
store begins empty (`Seeded` is 0). One failure, cut-short call or damaged file
is enough, as a command that fails ends and `get` reads one file. `Folders` is
empty because no command calls `remove_folder`.

Deadlock is checked in every run: a process can always start another call,
except that adds stop at `MaxUuid`, and a removal of nothing is a call too; the
kernel can always look a name up, and another process can always remove a
path; a user can always run another command.

Fairness. `FairSpec` has weak fairness for the steps of a call that has begun:
an `async` call that its caller awaits is polled to its end, the database
serves every statement, and no step of a call waits for another process. There
is no fairness for starting calls, nor for failures, and none is needed: a blob
without a row belongs to a call that has begun. `CallsReturn` and `Reclaimed`
are checked with two removing processes because there the hazard is (each may
see the other's row when it counts). In `BloxtreeCli` a command that has begun
goes on (`WF_cliVars(CmdStep)`): nothing in the code makes it wait for another. Its
loops end because a file has an end and a list of paths that was read once
does not grow.

Sensitivity. A definition whose comment begins with `Fault:` is no part of a
specification: it is a plausible bug in the definition of a similar name.
`PROJECT.json` pairs each property of a passing run with one; with the faulty
definition in place TLC finds the property violated.

## 4. Proofs

Every theorem is about all values of the constants, under the assumptions that
the modules name and, where stated, one of its own. None bounds the number of
steps, processes, paths, contents or failures.

`BloxtreeProofs` holds for any set of processes, any finite sets of paths and
contents, any folders, any assignment of calls to processes and any bounds:
only `DataAssumption`, `OpsAssumption` and `BoundAssumption` of `Bloxtree` are
assumed.

* `TypeCorrect`: `Spec => []TypeOK`. `TypeOK` is not inductive: `Head` and
  `Tail` need their sequence not to be empty. `TypeInv` adds to it that `rows`
  is finite (listings and counts range over it) and that a call is *loaded*:
  where its `pc` says that it takes the first element of a sequence, there is
  one. There is one lemma per action, and `NextType` puts them together.
* `NoDanglingOutsideWindow`: `Spec /\ []NoOverlap => []NoDangling`. The
  inductive invariant is `Consistent`: besides `NoDangling`, an add between its
  look for the blob and its insert has the blob in place, and the blob that a
  removal is about to unlink has no row. Every step preserves it from a state
  in which `NoOverlap` holds. So the race that the run `dangling` finds is the
  only way for a version to lose its content, however many processes there are
  and wherever their calls are cut short.
* `NoDanglingWhenRolesApart`: if no two processes are such that one may add and
  the other may remove (a single process may do both), then
  `Spec => []NoDangling`. The roles of the processes rule the window out.

`BloxtreeReclaimProofs`, from the same assumptions:

* `ConsistentOutsideWindow`: `Spec /\ []NoOverlap => []Consistent`, the invariant
  itself.
* `ReadsAnswerOutsideWindow`: `Spec /\ []NoOverlap => ReadsAnswer`. `Unanswered`
  says that a read that is under way has looked its hash up and not answered;
  with `Consistent`, a blob that is not there then has no row.
* `NoOrphanOutsideWindow`: `Spec /\ []NoGap => []NoOrphan`. `NoOrphan` alone is
  not inductive: nothing in it says that a row which goes leaves its hash in
  the care of whoever deleted it. `Owned` says where a blob without a row is
  (an add that will insert it, or a removal that has its hash on the list of
  those to count), and `Fresh` that an id that is drawn is in no row and belongs
  to no other call, so that an insert adds its rows.
* `NoOrphanWhenRolesApart`: `Spec => []NoOrphan` if no process removes beside a
  different one that adds, since only an add of another process enters `NoGap`.
* `CallsAreBounded`: `Spec => CallsShrink`, with no hypothesis: no window, no
  roles, any number of processes. `StepsLeft` is a sum over the lists a call
  still has to go through, and each action is shown to lower it. A call that begins
  has at most `PathSteps * (Cardinality(rows) + 1)` steps before it:
  `remove_folder` goes through the listing it has read, so paths that appear
  below its folder meanwhile do not keep it busy. That is the safety half
  of `CallsReturn`; the other half is that a call takes its steps, which is
  the fairness.

`BloxtreeRemovalProofs`:

* `TrimKeepsNewestWhenAlone`: `Spec => TrimKeepsNewest`, if no process removes
  beside another that trims (`TrimsAlone`). A trim deletes by hash the oldest
  row that has it, and the same hash may be among the versions to keep, and
  other processes add. `TrimInv` says that a trim under way has
  `Spared` what it keeps: there is a set of as many rows of the path as it is to
  keep, and to each hash on its list a row of its own with that hash, older than
  all of these. The oldest row of the hash is then never one of them.
* `RemovalsComplete`: `Spec => RemovalDone`, if no process removes beside another
  that adds (`RolesApart`); other removals may run. `RemovalInv` says what is
  `Left` of the paths a removal was called for: rows only where its to-do list
  will still come, and in a
  trim each row in a place of its own, among those that stay or at its hash on
  that list (`Slotted`).

`BloxtreeRefinementProofs`:

* `OneHandleImplements`: `Spec => ImplementsVersionStore` for a set of processes
  with one element. The invariant is `TypeInv`, `Consistent`, `Fresh` and `Solo`,
  which says that nothing has changed since the one process looked: the hash it
  found is still the latest, the id it drew is above all others.
  The lemmas on histories say what the history of a path becomes when a row is
  added, when the oldest of a hash goes and when all go: a history is the
  sequence of hashes in the order of ids, and a row's place in it is its `Rank`.

`BloxtreeFuseProofs` holds for any names, any depth of paths, any contents up
to any size, any number of open files and handles, any choice of handlers and
any other processes; only `NameAssumption` of `FolderListing` and
`FuseAssumption` of `BloxtreeFuse` (the bounds are numbers) are assumed.

* `FuseTypeCorrect`: `Spec => []FuseTypeOK`, and `NoBufferLeftBehind`:
  `Spec => []BuffersOwned`. `FuseTypeOK` says that a buffer has handle 0 or one
  that `create` gave out, and a write makes a buffer for whatever handle the
  file has: `HandlesGiven` says that this handle was given out. `FuseInv` is
  the two together with `BuffersOwned`, which `release` preserves because of
  the other file that shares the handle, if there is one. The lemmas named
  `...Effect` say what a handler does to files and buffers, and each step
  lemma follows from them.
* `ReleaseStoresWhatWasWritten`: `CalmSpec => ReleaseCommits`. A step in which
  the engine call fails is excepted by the property. The inductive invariant
  `CalmInv` adds to `FuseInv` that the three windows are not entered, and
  `DataBuffered`: the buffer
  of an open file's handle is what the client wrote to that file. That is
  where handle 0 bites: a file that is opened finds no buffer only because
  every buffer has an owner and the new file shares its handle with none.
* `OnlyWrittenFilesChangeWithOwnHandles`:
  `Spec /\ []OwnHandles => OnlyWrittenFilesChange`. One of the three windows is
  enough for this one: files may be renamed and unlinked while they are open.
  The invariant `HandleInv` is what `CalmInv` is without the other two. So the
  handle that opened files share is the only cause of what `handle_zero` finds.
* `RenameLosesNothing`: `CalmSpec => RenameKeepsContent`, if `"other_remove"`
  is not among the operations. `Moved` says that between its two engine calls
  `rename` has its content under the new path; only other processes take steps
  in between, and what they add buries it without removing it.

`BloxtreeFuseNamesProofs`, under the same assumptions:

* `ShownNamesAreFound` (`Spec => []NamesListed`), `StoredFilesAreReachable`
  (`Spec => []StoredFilesReachable`) and `NamesAreUnambiguous`
  (`Spec => []NamesUnambiguous`) hold in every state, reachable or not, with
  typed variables: `ResolveCases` says what a name can stand for and
  `PlainResolves` what a name without underscores does. That the three forms of a
  name do not collide, and that an ephemeral directory is hidden by exactly the
  names that lookup prefers to it, is then a matter of cases, for any depth and
  any number of underscores.
* `ListingAgreesOtherwise`: `Spec => []ReaddirAgrees`, if there
  are finitely many base names (a name has at most 255 bytes; the listing counts
  rows). What `listing_kinds` finds has no other causes than the three that
  `OneOfAKind` rules out: two versions of a file with nothing below it, an
  ephemeral directory whose path has become a stored file, and leading
  underscores. `KindListed` says what `list_folder`'s count of rows amounts to.
* `DirectoriesStayInSight`: `Spec => DirectoriesStay`. `Reachable` asks lookup
  once for each directory on the way; `ReachableIsStraight` turns this into
  `Straight`: each name is plain and each directory on the way has something
  below it. Nothing but `rmdir` takes a directory from `dirs` (`DirsGoByRmdir`), and it
  refuses one with an ephemeral directory below it, so that what goes out of sight
  went itself, or lost the last file that it or one above it existed through.
  The check of `rmdir` for stored files does not matter for this, and the theorem
  holds although a listing that fails passes it.

`BloxtreeCliProofs`, for any contents, arguments, buffers, damages and other
processes, on top of `BloxtreeProofs`: `EngineMoves` says what a step of an
engine call does to rows, blobs and files, and the lemmas about the store
(`TypeInv` and `Consistent` are kept by each of its steps) are used as they are.

* `CliTypeCorrect`: `CliSpec => []CliTypeOK`, and `GetWritesTheContent`:
  `CliSpec => []GetExact`. `CliInv` adds to the types what a command knows at each
  place (`Doing`): in a copy, that the user's file is what was hashed and
  that the reader stands somewhere in a content.
* `GetFailsOnlyWhenVersionGone`: `CliSpec => GetFailsOnlyWhenGone`, if no buffer is
  empty (`0 \notin Buffer`). `ApartInv` says that as long as no add and removal
  have met in the window of `NoOverlap`, the store is `Consistent`, which is the
  invariant of `NoDanglingOutsideWindow`; `Intact` says that without a failure
  each file holds its content. A read into an empty buffer
  before the end of the file returns nothing, which the reader takes for the end
  and answers with a mismatch; `io::copy` never reads into one.
* `InfoCountsInBounds`: `CliSpec => InfoBounds`. `info` lists the paths once and
  asks for the versions of one path after the other, while others add and
  remove them. `Tallied` bounds the total from both sides by the versions of the
  paths that are behind it: it is at least the number of those that stayed,
  if nothing failed, and at most the number of those that were met.

`ListingProofs`, for any bytes and any names made of them:

* `PrefixRangeExact` says that the range from a prefix to its `RangeEnd` holds
  exactly the strings that begin with the prefix, for any prefix and any string;
  that needs `ByteAssumption`, as UTF-8 has no byte above 244 (with a byte 255
  `wrapping_add` would make the range empty). `EntriesAreBelow`: so the rows
  that `list_folder` counts are those of the paths below the folder.
* `ListIsOfNames`: `Spec => []ListIsFolderListing`. What `list_folder` computes
  byte by byte is the listing over names that the driver is modelled with, for
  any depth and any rows. Its hypothesis is that the paths given to the store
  are names with single slashes between them; `a//b` is a valid path, and
  without the hypothesis the property is false. `MCBloxtreeCli` assumes the same
  of the instance of the run, where TLC evaluates it.
  `NamesAssumption` says that a name is not empty and has no slash. The proof
  first says what joining is: the library flattens a sequence of sequences by
  recursion, and `FlattenAppend` follows from the least length at
  which it would fail. Then joined paths begin with each other, at a slash, exactly when
  their names do (`BelowIsPrefix`), the first slash after a folder ends the next name
  (`FirstNameBelow`), and the rows below a path are as many as the versions
  that `RowsUnder` pairs with paths, by a bijection (`CountsAgree`).

Every invariant and every action property of a passing run is stated by a
theorem, some from a hypothesis that the theorem names. Only model-checked are
the liveness properties (`CallsReturn`, `Reclaimed`, `CommandsExit`), because the prover has
no rule for liveness under fairness. Of the properties that a run violates, a
theorem states under which condition each holds. No module declares a `RECURSIVE`
operator; where the proofs need induction they take a least number from the
library's theorem on well-founded sets.

## 5. Findings

* `dangling`: `remove_path` counts references and unlinks in two steps
  (`lib.rs:195`), and `add` looks for the blob several steps before it inserts
  (`store.rs:75`). In the run an add finds the blob of the one version there is, a
  remove then deletes that version, counts zero and unlinks the blob, and the
  add inserts a row without its content.
* `trim_race`: `trim_path` deletes by hash what an earlier listing called
  surplus (`lib.rs:227`). In the run a path has two versions of one content and two
  processes trim it to one: both list, and each then deletes the oldest row
  that has the hash, the second one the newest version.
* `handle_zero`: every opened file has handle 0 and buffers are kept by handle
  (`bloxtree-fuse/src/lib.rs:516`), so what is written to one file can be stored
  under another.
* `rename_onto_self`: `rename` adds and then removes (`lib.rs:648`), and two
  names can be one stored path.
* `lost_write`: `release` drops the buffer of a file whose inode `rename` has
  removed (`lib.rs:532`).
* `listing_kinds`: `list_folder` takes a second version for a second path
  (`bloxtree-core/src/lib.rs:286`).

Other places where the code and its documents differ, too plain for a run:

* `get PATH --hash HASH` never looks at `PATH` (`bloxtree-cli/src/commands.rs:114`); the
  README says that `get` fails if the path does not exist.
* A hash that is no hash is a runtime error and exits with 1; the README gives 2
  for bad arguments.
* Adding a content whose file is damaged leaves the damaged file
  (`bloxtree-core/src/store.rs:75`), so every `get` of it goes on failing. It
  fails, though: a damaged file is never taken for its content (`GetExact`).

## 6. Not modelled, and what is left

Not modelled, because it keeps no state: decoding of column values, the
printing of `paths` and `versions`, parsing of arguments and hashes, the choice of the store,
error types, the mounting program (arguments and one blocking call), `getattr`
and `read` of the driver with their attributes (size, times).

Not modelled, because the code only relies on it: the database (a statement is
atomic, as SQLite promises), the hash function (no collisions), the kernel beyond
what section 2 says of it.

Left out of what could be modelled:

* Power loss. `add` syncs the content of a blob, not its directory entry; what
  survives depends on the file system. A process that dies is `Interrupt`.
* Ids. `Uuid::now_v7` orders ids of different processes by their clocks; the
  model issues them in one order, so "newest" is by issue.
* The reply of `add` (`blob_already_existed`), which two adds of one new content
  may both report as false.
* Failures of `open` in the command line, a file that is damaged while it is
  being read, and damaged files under the driver, which stores what it reads of
  one when it truncates (`bloxtree-fuse/src/lib.rs:695`).
* The window `NoGap`: no run shows the blob that stays behind when a row comes
  in between the SELECT and the DELETE of `delete_all_versions`. That nothing
  else leaves one behind, as long as no call is cut short, is checked (`shared`)
  and proved (`NoOrphanOutsideWindow`).
* White space of several bytes at the ends of a path, and the listing of paths
  with empty names (`a//b`), of which no document says what it is.

The plan of this development, the engine, the driver, the names, the reader
and the command line, the refinement and the theorems about each, is complete
up to these points.
