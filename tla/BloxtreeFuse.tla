---------------------------- MODULE BloxtreeFuse ----------------------------
(***************************************************************************)
(* The FUSE driver (bloxtree-fuse/src/lib.rs) over the engine as           *)
(* VersionStore describes it.                                              *)
(*                                                                         *)
(* The session runs one handler at a time under a mutex.  Other processes  *)
(* use the store in the meantime, also between two engine calls of one     *)
(* handler: a handler that changes the store after an earlier engine call  *)
(* (rename, setattr) is therefore several actions, with `busy` holding its *)
(* local variables; every other handler is one.                            *)
(*                                                                         *)
(* The kernel is the environment.  The driver gives it no time to cache a  *)
(* name (a lifetime of zero), so it looks a path up, component by          *)
(* component, before it calls a handler on it; that lookup is part of the  *)
(* action.  Inodes are hashes of path and kind, without collisions here.   *)
(* The inodes of directories are registered by that same lookup, so only   *)
(* those of files are kept.                                                *)
(***************************************************************************)
EXTENDS FolderListing

CONSTANTS
  Byte,       \* what a client may write
  Zero,       \* the byte that fills a hole
  MaxSize,    \* bound: length of a file
  Slot,       \* bound: the files that are open at a time
  MaxFh,      \* bound: handles that create hands out
  MaxStored,  \* bound: versions in the store
  MaxDirs,    \* bound: ephemeral directories
  MaxFaults,  \* bound: engine calls that fail
  FuseOps,    \* which handlers the clients use, and what other processes do
  Seeds,      \* the paths that the store may hold when it is mounted
  OtherPaths, \* the paths that other processes add to and remove
  NoHash, Missing, NoAnswer   \* see VersionStore

ASSUME FuseAssumption == MaxSize \in Nat /\ MaxFh \in Nat /\ MaxFaults \in Nat

Content == UNION {[1..n -> Byte \cup {Zero}] : n \in 0..MaxSize}

\* An open file: its path, its handle, and the content that the client's
\* writes to it amount to, in a set that is empty before the first.
OpenState == [path : NamePath, fh : 0..MaxFh, data : SUBSET Content]
NoFile == [path |-> Root, fh |-> 0, data |-> {}]

VARIABLES
  history,  \* the versions of each path, newest first
  known,    \* ino_info: the files whose inode is registered
  dirs,     \* ephemeral_dirs
  bufs,     \* write_bufs: the content of the buffer of a handle
  nextFh,   \* next_fh
  busy,     \* the handler that is between two of its engine calls
  faults,   \* engine calls that have failed
  files     \* the kernel's open files, and what clients wrote to each

vars == <<history, known, dirs, bufs, nextFh, busy, faults, files>>

Engine == INSTANCE VersionStore WITH Path <- NamePath, Hash <- Content, answer <- NoAnswer

Idle == [op |-> "idle", from |-> Root, to |-> Root, content |-> <<>>]

-----------------------------------------------------------------------------
(* Names.                                                                  *)

\* child_path after trim_start_matches('_'), in create, unlink and rename.
RealPath(d, n) == Child(d, [n EXCEPT !.under = 0])

\* The name that lookup takes n to stand for: one underscore off, or two.
Candidate(n) == [n EXCEPT !.under = IF @ >= 2 THEN @ - 2 ELSE 0]

File(x)   == [path |-> x, kind |-> "file"]
Folder(x) == [path |-> x, kind |-> "dir"]

\* Fault: a file wins over the directory of its name.
ResolveFileFirst(d, n) ==
  LET x    == Child(d, Candidate(n))
      leaf == history[x] # <<>>
      kids == HasChildren(history, x) \/ x \in dirs
  IN  {r \in {File(x), Folder(x)} :
         \/ r.kind = "dir" /\ kids /\ ~leaf /\ n.under = 0
         \/ r.kind = "file" /\ leaf /\ (n.under > 0 => kids)}

\* Fault: an underscored name finds the file whether or not it is shadowed.
ResolveUnshadowed(d, n) ==
  LET x    == Child(d, Candidate(n))
      leaf == history[x] # <<>>
      kids == HasChildren(history, x) \/ x \in dirs
  IN  {r \in {File(x), Folder(x)} :
         \/ r.kind = "dir" /\ kids /\ n.under = 0
         \/ r.kind = "file" /\ leaf /\ (kids => n.under > 0)}

\* resolve_child: what name n in directory d stands for, if anything.  What is
\* below a path takes its plain name, and leaves the others to its file.
Resolve(d, n) ==
  LET x    == Child(d, Candidate(n))
      leaf == history[x] # <<>>
      kids == HasChildren(history, x) \/ x \in dirs
  IN  {r \in {File(x), Folder(x)} :
         \/ r.kind = "dir" /\ kids /\ n.under = 0
         \/ r.kind = "file" /\ leaf /\ (kids <=> n.under > 0)}

\* The directories a client can reach from the root.
Reachable(d) ==
  \A i \in 1..Len(d) :
    LET up == SubSeq(d, 1, i - 1)
    IN  Folder(SubSeq(d, 1, i)) \in Resolve(up, d[i])

Dirs == {d \in Dir : Len(d) < MaxDepth /\ Reachable(d)}

Shadowed(n) == [n EXCEPT !.under = @ + 1]
Entry(n, r) == [name |-> n, is |-> r]

\* readdir without `.` and `..`: the listing of the folder, a file beside each
\* directory that is also a path, then the ephemeral directories whose names
\* are free.  (Their own leaf check finds nothing: a stored child is listed.)
DirEntries(d) ==
  LET core  == ListFolder(history, d)
      both  == {e \in core : e.kind = "prefix" /\ history[e.path] # <<>>}
      named == {Entry(Last(e.path),
                      IF e.kind = "prefix" THEN Folder(e.path) ELSE File(e.path)) : e \in core}
                 \cup {Entry(Shadowed(Last(e.path)), File(e.path)) : e \in both}
      taken == {e.name : e \in named}
  IN  named \cup {Entry(Last(x), Folder(x)) :
                    x \in {y \in dirs \cap Children(d) : Last(y) \notin taken}}

-----------------------------------------------------------------------------
(* The store and the client when the driver starts.                        *)

Stored == UNION {{x} \X DOMAIN history[x] : x \in NamePath}
Pending == IF busy.op \in {"rename_add", "truncate"} THEN 1 ELSE 0
Room == Cardinality(Stored) + Pending < MaxStored

Does(op) == busy = Idle /\ op \in FuseOps

\* An engine call returns an error.
Fails == faults < MaxFaults /\ faults' = faults + 1

Init ==
  /\ \E S \in SUBSET Seeds, b \in Byte :
       history = [x \in NamePath |->
                    IF x \in S THEN <<IF MaxSize = 0 THEN <<>> ELSE <<b>> >> ELSE <<>>]
  /\ known = {} /\ dirs = {} /\ nextFh = 1
  /\ bufs = <<>>
  /\ busy = Idle
  /\ faults = 0
  /\ files = [s \in Slot |-> NoFile]

OpenFiles == {s \in Slot : files[s] # NoFile}

-----------------------------------------------------------------------------
(* Names and directories.                                                  *)

Found(d, n) == {r.path : r \in {o \in Resolve(d, n) : o.kind = "file"}}

Lookup(d, n) ==
  /\ Does("lookup")
  /\ known' = known \cup Found(d, n)
  /\ UNCHANGED <<history, dirs, bufs, nextFh, busy, files, faults>>

\* readdir registers an inode for each entry it returns.
Readdir(d) ==
  /\ Does("readdir")
  /\ known' = known \cup {e.is.path : e \in {o \in DirEntries(d) : o.is.kind = "file"}}
  /\ UNCHANGED <<history, dirs, bufs, nextFh, busy, files, faults>>

\* The kernel asks for a directory only where lookup found nothing.
Mkdir(d, n) ==
  /\ Does("mkdir")
  /\ Cardinality(dirs) < MaxDirs
  /\ Resolve(d, n) = {}
  /\ dirs' = dirs \cup {Child(d, n)}
  /\ UNCHANGED <<history, known, bufs, nextFh, busy, files, faults>>

\* Fault: only the store is asked what is below.
RmdirDeep(d, n) ==
  /\ Does("rmdir")
  /\ Folder(Child(d, n)) \in Resolve(d, n)
  /\ LET x == Child(d, n)
     IN  /\ x \in dirs
         /\ ~HasChildren(history, x) /\ UNCHANGED faults
         /\ dirs' = dirs \ {x}
  /\ UNCHANGED <<history, known, bufs, nextFh, busy, files>>

\* Only an ephemeral directory, with nothing ephemeral or stored below it; a
\* listing that fails counts as nothing stored.
Rmdir(d, n) ==
  /\ Does("rmdir")
  /\ Folder(Child(d, n)) \in Resolve(d, n)
  /\ LET x == Child(d, n)
     IN  /\ x \in dirs
         /\ ~\E y \in dirs : IsStrictPrefix(x, y)
         /\ (~HasChildren(history, x) /\ UNCHANGED faults) \/ Fails
         /\ dirs' = dirs \ {x}
  /\ UNCHANGED <<history, known, bufs, nextFh, busy, files>>

\* A remove_path that fails may have removed the rows and not the blobs.
Unlink(d, n) ==
  /\ Does("unlink")
  /\ Found(d, n) # {}
  /\ \/ /\ Engine!RemovePath(RealPath(d, n))
        /\ known' = (known \cup Found(d, n)) \ {RealPath(d, n)}
        /\ UNCHANGED faults
     \/ /\ Fails
        /\ Engine!RemovePath(RealPath(d, n)) \/ UNCHANGED history
        /\ known' = known \cup Found(d, n)
  /\ UNCHANGED <<dirs, bufs, nextFh, busy, files>>

-----------------------------------------------------------------------------
(* Open files.                                                             *)

OpenFile(s, x, fh, data) ==
  /\ files[s] = NoFile
  /\ files' = [files EXCEPT ![s] = [path |-> x, fh |-> fh, data |-> data]]

\* Fault: the next handle is not advanced.
CreateAgain(s, d, n) ==
  /\ Does("create")
  /\ Resolve(d, n) = {} /\ nextFh <= MaxFh
  /\ LET x == RealPath(d, n)
     IN  /\ known' = known \cup {x}
         /\ OpenFile(s, x, nextFh, {<<>>})
  /\ bufs' = [fh \in DOMAIN bufs \cup {nextFh} |->
                IF fh = nextFh THEN <<>> ELSE bufs[fh]]
  /\ UNCHANGED <<history, dirs, busy, nextFh, faults>>

\* A buffer for a handle of its own; nothing is stored before release.
Create(s, d, n) ==
  /\ Does("create")
  /\ Resolve(d, n) = {} /\ nextFh <= MaxFh
  /\ LET x == RealPath(d, n)
     IN  /\ known' = known \cup {x}
         /\ OpenFile(s, x, nextFh, {<<>>})
  /\ bufs' = [fh \in DOMAIN bufs \cup {nextFh} |->
                IF fh = nextFh THEN <<>> ELSE bufs[fh]]
  /\ nextFh' = nextFh + 1
  /\ UNCHANGED <<history, dirs, busy, faults>>

\* Every file that exists is opened with handle 0, and no buffer.
Open(s, d, n) ==
  /\ Does("open")
  /\ \E x \in Found(d, n) : OpenFile(s, x, 0, {}) /\ known' = known \cup {x}
  /\ UNCHANGED <<history, dirs, bufs, nextFh, busy, faults>>

\* Content c with byte b at offset i, zeros in between.
Put(c, i, b) ==
  [j \in 1..(IF Len(c) > i THEN Len(c) ELSE i + 1) |->
     IF j = i + 1 THEN b ELSE IF j <= Len(c) THEN c[j] ELSE Zero]

\* Fault: a write replaces the buffer.
WriteOver(s, i, b) ==
  /\ Does("write") /\ files[s] # NoFile /\ i < MaxSize
  /\ LET fh  == files[s].fh
         own == IF files[s].data = {} THEN {<<>>} ELSE files[s].data
     IN  /\ bufs' = [f \in DOMAIN bufs \cup {fh} |->
                       IF f = fh THEN Put(<<>>, i, b) ELSE bufs[f]]
         /\ files' = [files EXCEPT ![s].data = {Put(c, i, b) : c \in own}]
  /\ UNCHANGED <<history, known, dirs, nextFh, busy, faults>>

\* write goes to the buffer of the handle, which it makes if there is none.
Write(s, i, b) ==
  /\ Does("write") /\ files[s] # NoFile /\ i < MaxSize
  /\ LET fh  == files[s].fh
         old == IF fh \in DOMAIN bufs THEN bufs[fh] ELSE <<>>
         own == IF files[s].data = {} THEN {<<>>} ELSE files[s].data
     IN  /\ bufs' = [f \in DOMAIN bufs \cup {fh} |->
                       IF f = fh THEN Put(old, i, b) ELSE bufs[f]]
         /\ files' = [files EXCEPT ![s].data = {Put(c, i, b) : c \in own}]
  /\ UNCHANGED <<history, known, dirs, nextFh, busy, faults>>

Without(fh) == [f \in DOMAIN bufs \ {fh} |-> bufs[f]]

\* Fault: the buffer is kept for another attempt when the engine call fails.
ReleaseKept(s) ==
  /\ Does("release") /\ files[s] # NoFile
  /\ LET f == files[s]
     IN  IF f.fh \in DOMAIN bufs /\ f.path \in known
         THEN \/ Room /\ Engine!Add({f.path}, bufs[f.fh]) /\ bufs' = Without(f.fh) /\ UNCHANGED faults
              \/ Fails /\ UNCHANGED <<history, bufs>>
         ELSE bufs' = Without(f.fh) /\ UNCHANGED <<history, faults>>
  /\ files' = [files EXCEPT ![s] = NoFile]
  /\ UNCHANGED <<known, dirs, nextFh, busy>>

\* release takes the buffer of the handle, and stores it under the path that
\* the inode stands for, if it stands for any; that this failed is not told.
Release(s) ==
  /\ Does("release") /\ files[s] # NoFile
  /\ LET f == files[s]
     IN  /\ IF f.fh \in DOMAIN bufs /\ f.path \in known
            THEN \/ Room /\ Engine!Add({f.path}, bufs[f.fh]) /\ UNCHANGED faults
                 \/ Fails /\ UNCHANGED history
            ELSE UNCHANGED <<history, faults>>
         /\ bufs' = Without(f.fh)
  /\ files' = [files EXCEPT ![s] = NoFile]
  /\ UNCHANGED <<known, dirs, nextFh, busy>>

-----------------------------------------------------------------------------
(* Handlers of several engine calls.                                       *)

\* rename up to get_reader.  The kernel does nothing when both names have the
\* same inode, replaces like by like only, and moves no directory into itself.
Rename(d, n, e, m) ==
  /\ Does("rename")
  /\ Room
  /\ Resolve(d, n) # {} /\ Resolve(d, n) # Resolve(e, m)
  /\ \A r \in Resolve(d, n), t \in Resolve(e, m) : r.kind = t.kind
  /\ \A r \in Resolve(d, n) : r.kind = "dir" => ~IsPrefix(r.path, e)
  /\ history[RealPath(d, n)] # <<>>
  /\ busy' = [op |-> "rename_add", from |-> RealPath(d, n), to |-> RealPath(e, m),
              content |-> Head(history[RealPath(d, n)])]
  /\ known' = known \cup Found(d, n) \cup Found(e, m)
  /\ UNCHANGED <<history, dirs, bufs, nextFh, files, faults>>

\* add_reader under the new path; if it fails, rename does.
RenameAdd ==
  /\ busy.op = "rename_add"
  /\ \/ /\ Engine!Add({busy.to}, busy.content)
        /\ busy' = [busy EXCEPT !.op = "rename_remove"]
        /\ UNCHANGED faults
     \/ /\ Fails
        /\ busy' = Idle
        /\ UNCHANGED history
  /\ UNCHANGED <<known, dirs, bufs, nextFh, files>>

\* Fault: the wrong one of the two paths is removed.
RenameRemoveNew ==
  /\ busy.op = "rename_remove"
  /\ Engine!RemovePath(busy.to)
  /\ known' = known \ {busy.from}
  /\ busy' = Idle
  /\ UNCHANGED <<dirs, bufs, nextFh, faults, files>>

\* remove_path of the old path; its failure is ignored.
RenameRemove ==
  /\ busy.op = "rename_remove"
  /\ \/ Engine!RemovePath(busy.from) /\ UNCHANGED faults
     \/ Fails /\ UNCHANGED history
  /\ known' = known \ {busy.from}
  /\ busy' = Idle
  /\ UNCHANGED <<dirs, bufs, nextFh, files>>

\* setattr with a size, up to get_reader.
Truncate(x, size) ==
  /\ Does("truncate")
  /\ Room /\ x \in known /\ history[x] # <<>>
  /\ LET c == Head(history[x])
     IN  busy' = [op |-> "truncate", from |-> x, to |-> x,
                  content |-> SubSeq(c, 1, IF size < Len(c) THEN size ELSE Len(c))]
  /\ UNCHANGED <<history, known, dirs, bufs, nextFh, files, faults>>

\* add_reader of the first `size` bytes; its failure is ignored.
TruncateAdd ==
  /\ busy.op = "truncate"
  /\ \/ Engine!Add({busy.to}, busy.content) /\ UNCHANGED faults
     \/ Fails /\ UNCHANGED history
  /\ busy' = Idle
  /\ UNCHANGED <<known, dirs, bufs, nextFh, files>>

\* Another process adds a version or removes a path.
OtherProcess ==
  /\ \E x \in OtherPaths :
       \/ "other_add" \in FuseOps /\ Room /\ \E c \in Content : Engine!Add({x}, c)
       \/ "other_remove" \in FuseOps /\ history[x] # <<>> /\ Engine!RemovePath(x)
  /\ UNCHANGED <<known, dirs, bufs, nextFh, busy, files, faults>>

Next ==
  \/ \E d \in Dirs :
       \/ Readdir(d)
       \/ \E n \in Name :
            \/ Lookup(d, n) \/ Mkdir(d, n) \/ Rmdir(d, n) \/ Unlink(d, n)
            \/ \E s \in Slot : Create(s, d, n) \/ Open(s, d, n)
            \/ \E e \in Dirs, m \in Name : Rename(d, n, e, m)
  \/ \E s \in Slot, i \in 0..MaxSize, b \in Byte : Write(s, i, b)
  \/ \E s \in Slot : Release(s)
  \/ \E x \in NamePath, size \in 0..MaxSize : Truncate(x, size)
  \/ RenameAdd \/ RenameRemove \/ TruncateAdd
  \/ OtherProcess

Spec == Init /\ [][Next]_vars

-----------------------------------------------------------------------------
(* What a client may expect.                                               *)

\* The state of every variable; a handle that has a buffer is 0 or was handed
\* out by create.
FuseTypeOK ==
  /\ history \in [NamePath -> Seq(Content)]
  /\ known \subseteq NamePath /\ dirs \subseteq NamePath
  /\ nextFh \in 1..(MaxFh + 1)
  /\ DOMAIN bufs \subseteq 0..(nextFh - 1)
  /\ \A fh \in DOMAIN bufs : bufs[fh] \in Content
  /\ busy \in [op : {"idle", "rename_add", "rename_remove", "truncate"},
               from : Dir, to : Dir, content : Content]
  /\ faults \in 0..MaxFaults
  /\ files \in [Slot -> {NoFile} \cup OpenState]

\* A buffer lives only as long as some open file has its handle: what is
\* written and never stored does not pile up, whatever becomes of the file.
BuffersOwned == \A fh \in DOMAIN bufs : \E s \in OpenFiles : files[s].fh = fh

\* When a file is released, what was written to it since it was opened, and
\* nothing else, becomes its newest version, unless the engine call fails; a
\* file that was opened and not written gets none.
ReleaseCommits ==
  [][\A s \in OpenFiles :
       files'[s] = NoFile /\ faults' = faults =>
         history' = [x \in NamePath |->
                       IF x = files[s].path /\ files[s].data # {}
                       THEN <<CHOOSE c \in files[s].data : TRUE>> \o history[x]
                       ELSE history[x]]]_vars

\* Releasing a file changes nothing if nobody has written to that file.
OnlyWrittenFilesChange ==
  [][\A s \in OpenFiles :
       files'[s] = NoFile /\ (\A t \in OpenFiles :
                               files[t].path = files[s].path => files[t].data = {})
         => history' = history]_vars

\* When rename returns ok, the content it moved is under the new path, also
\* when the removal of the old path failed.
RenameKeepsContent ==
  [][busy.op = "rename_remove" /\ busy' = Idle =>
       \E i \in DOMAIN history'[busy.to] : history'[busy.to][i] = busy.content]_vars

Plain(n) == n.under = 0

\* readdir shows a name if and only if lookup finds it, for the names that have
\* no leading underscore.
NamesListed ==
  \A d \in Dirs :
    LET shown == {e.name : e \in DirEntries(d)}
    IN  \A n \in {m \in Name : Plain(m)} : n \in shown <=> Resolve(d, n) # {}

\* Every stored path without leading underscores is a file a client can reach,
\* under its own name or, beside a directory, under the underscored one.
StoredFilesReachable ==
  \A x \in NamePath :
    history[x] # <<>> /\ (\A i \in DOMAIN x : Plain(x[i])) =>
      /\ Reachable(Front(x))
      /\ \E n \in {Last(x), Shadowed(Last(x))} : File(x) \in Resolve(Front(x), n)

\* Two names of one directory stand for the same file only when they are the
\* two documented forms of a shadowed file.
NamesUnambiguous ==
  \A d \in Dirs :
    LET is == [n \in Name |-> Resolve(d, n)]
    IN  \A n, m \in Name :
          is[n] \cap is[m] # {} =>
            n.base = m.base /\ (n = m \/ {n.under, m.under} = {1, 2})

\* A directory that a client reaches leaves its sight only by its own rmdir, or
\* when it or one above it existed only through its files and the last of them
\* goes: removing one directory never hides another, adding never hides any.
DirectoriesStay ==
  [][\A d \in Dir :
       Reachable(d) /\ ~Reachable(d)' =>
         \/ d \in dirs /\ dirs' = dirs \ {d}
         \/ \E i \in 1..Len(d) :
              LET u == SubSeq(d, 1, i)
              IN  u \notin dirs /\ HasChildren(history, u) /\ ~HasChildren(history', u)]_vars

\* What readdir says that a name is, lookup says too.
ListingAgrees ==
  \A d \in Dirs : \A e \in DirEntries(d) : e.is \in Resolve(d, e.name)

-----------------------------------------------------------------------------
(* The windows in which the driver breaks these promises.                  *)

\* No two open files have one handle.
OwnHandles == \A s, t \in OpenFiles : files[s].fh = files[t].fh => s = t

\* No open file has lost its inode to unlink, or is being renamed.
InodesKept ==
  \A s \in OpenFiles :
    /\ files[s].path \in known
    /\ busy.op \in {"rename_add", "rename_remove"} => files[s].path # busy.from

\* No rename between two names of one path.
NoAlias == busy.op \in {"rename_add", "rename_remove"} => busy.from # busy.to

\* Every name that a directory has to show is plain, and with nothing stored
\* below it a name is either an ephemeral directory or a file of one version.
OneOfAKind ==
  \A d \in Dirs : \A x \in Children(d) :
    /\ RowsUnder(history, x) # {} \/ x \in dirs => Plain(Last(x))
    /\ HasChildren(history, x)
         \/ IF x \in dirs THEN Len(history[x]) # 1 ELSE Len(history[x]) <= 1

\* Where there is no other name readdir says what lookup says, also of a path
\* that is both a file and a folder, whichever it was first.
ReaddirAgrees == OneOfAKind => ListingAgrees

\* The executions that stay out of these windows.
CalmSpec == Init /\ [][Next /\ OwnHandles' /\ InodesKept' /\ NoAlias']_vars
=============================================================================
