------------------------- MODULE BloxtreeFuseProofs -------------------------
(***************************************************************************)
(* Theorems about BloxtreeFuse, for any number of open files, handles,     *)
(* names, contents and other processes: type correctness, that no write    *)
(* buffer outlives the open files of its handle, and what a release and a  *)
(* rename leave in the store outside the windows.                          *)
(***************************************************************************)
EXTENDS BloxtreeFuse, SequenceTheorems, TLAPS

-----------------------------------------------------------------------------
(* Names and paths.                                                        *)

LEMMA RealName ==
  ASSUME NEW n \in Name
  PROVE  [n EXCEPT !.under = 0] \in Name
BY NameAssumption DEF Name

LEMMA CandidateName ==
  ASSUME NEW n \in Name
  PROVE  Candidate(n) \in Name
<1>1. n.under \in 0..MaxUnder
  BY DEF Name
<1>2. (IF n.under >= 2 THEN n.under - 2 ELSE 0) \in 0..MaxUnder
  BY <1>1, NameAssumption
<1> QED
  BY <1>2 DEF Candidate, Name

LEMMA DirIsSeq ==
  ASSUME NEW d \in Dir
  PROVE  d \in Seq(Name) /\ Len(d) \in 0..MaxDepth
<1>1. CASE d = Root
  BY <1>1, NameAssumption DEF Root
<1>2. CASE d \in NamePath
  <2>1. PICK k \in 1..MaxDepth : d \in [1..k -> Name]
    BY <1>2 DEF NamePath
  <2>2. d \in Seq(Name) /\ Len(d) = k
    BY <2>1, SeqDef, LenProperties, NameAssumption
  <2> QED
    BY <2>2, NameAssumption
<1> QED
  BY <1>1, <1>2 DEF Dir

LEMMA SeqIsPath ==
  ASSUME NEW x \in Seq(Name), Len(x) \in 1..MaxDepth
  PROVE  x \in NamePath
<1>1. x \in [1..Len(x) -> Name]
  BY LenProperties
<1> QED
  BY <1>1 DEF NamePath

\* A name in a directory that is not at the last level is a path.
LEMMA ChildIsPath ==
  ASSUME NEW d \in Dir, Len(d) < MaxDepth, NEW n \in Name
  PROVE  Child(d, n) \in NamePath
<1>1. d \in Seq(Name) /\ Len(d) \in 0..MaxDepth
  BY DirIsSeq
<1>2. Append(d, n) \in Seq(Name) /\ Len(Append(d, n)) = Len(d) + 1
  BY <1>1, AppendProperties
<1>3. Len(Append(d, n)) \in 1..MaxDepth
  BY <1>1, <1>2, NameAssumption
<1> QED
  BY <1>2, <1>3, SeqIsPath DEF Child

LEMMA NamesArePaths ==
  ASSUME NEW d \in Dirs, NEW n \in Name
  PROVE  /\ d \in Dir /\ Len(d) < MaxDepth
         /\ Child(d, n) \in NamePath
         /\ RealPath(d, n) \in NamePath
         /\ Found(d, n) \subseteq NamePath
<1>1. d \in Dir /\ Len(d) < MaxDepth
  BY DEF Dirs
<1>2. Child(d, n) \in NamePath /\ RealPath(d, n) \in NamePath /\ Child(d, Candidate(n)) \in NamePath
  BY <1>1, ChildIsPath, RealName, CandidateName DEF RealPath
<1>3. Found(d, n) \subseteq {Child(d, Candidate(n))}
  BY DEF Found, Resolve, File, Folder
<1> QED
  BY <1>1, <1>2, <1>3

LEMMA EntriesArePaths ==
  ASSUME NEW d \in Dirs, NEW e \in DirEntries(d), e.is.kind = "file"
  PROVE  e.is.path \in NamePath
<1>1. d \in Dir /\ Len(d) < MaxDepth
  BY DEF Dirs
<1>2. Children(d) \subseteq NamePath
  BY <1>1, ChildIsPath DEF Children
<1>3. \A o \in ListFolder(history, d) : o.path \in NamePath
  BY <1>2 DEF ListFolder, Leaf, Prefix
<1> QED
  BY <1>3 DEF DirEntries, Entry, File, Folder

-----------------------------------------------------------------------------
(* Contents.                                                               *)

LEMMA ContentIsSeq ==
  ASSUME NEW c \in Content
  PROVE  /\ c \in Seq(Byte \cup {Zero})
         /\ Len(c) \in 0..MaxSize
<1>1. PICK k \in 0..MaxSize : c \in [1..k -> Byte \cup {Zero}]
  BY DEF Content
<1> QED
  BY <1>1, SeqDef, LenProperties, FuseAssumption

LEMMA EmptyContent == <<>> \in Content
<1>1. <<>> \in [1..0 -> Byte \cup {Zero}]
  OBVIOUS
<1> QED
  BY <1>1, FuseAssumption DEF Content

LEMMA PutContent ==
  ASSUME NEW c \in Content, NEW i \in 0..MaxSize, i < MaxSize, NEW b \in Byte
  PROVE  Put(c, i, b) \in Content
<1> DEFINE k == IF Len(c) > i THEN Len(c) ELSE i + 1
<1>1. c \in Seq(Byte \cup {Zero}) /\ Len(c) \in 0..MaxSize
  BY ContentIsSeq
<1>2. k \in 0..MaxSize
  BY <1>1, FuseAssumption
<1>3. \A j \in 1..k : (IF j = i + 1 THEN b ELSE IF j <= Len(c) THEN c[j] ELSE Zero)
                        \in Byte \cup {Zero}
  BY <1>1, <1>2, ElementOfSeq
<1> HIDE DEF k
<1>4. [j \in 1..k |-> IF j = i + 1 THEN b ELSE IF j <= Len(c) THEN c[j] ELSE Zero]
        \in [1..k -> Byte \cup {Zero}]
  BY <1>3
<1>5. Put(c, i, b) \in [1..k -> Byte \cup {Zero}]
  BY <1>4 DEF Put, k
<1> QED
  BY <1>2, <1>5 DEF Content

LEMMA CutContent ==
  ASSUME NEW c \in Content, NEW size \in 0..MaxSize
  PROVE  SubSeq(c, 1, IF size < Len(c) THEN size ELSE Len(c)) \in Content
<1> DEFINE k == IF size < Len(c) THEN size ELSE Len(c)
<1>1. c \in Seq(Byte \cup {Zero}) /\ Len(c) \in 0..MaxSize
  BY ContentIsSeq
<1>2. k \in 0..MaxSize /\ k <= Len(c)
  BY <1>1, FuseAssumption
<1> HIDE DEF k
<1>3. SubSeq(c, 1, k) = [j \in 1..k |-> c[j]]
  BY <1>1, <1>2, FuseAssumption
<1>4. \A j \in 1..k : c[j] \in Byte \cup {Zero}
  BY <1>1, <1>2, ElementOfSeq, FuseAssumption
<1>5. SubSeq(c, 1, k) \in [1..k -> Byte \cup {Zero}]
  BY <1>3, <1>4
<1> QED
  BY <1>2, <1>5 DEF Content, k

-----------------------------------------------------------------------------
(* Histories: each call of the engine keeps them sequences of contents.    *)

HistoryType == history \in [NamePath -> Seq(Content)]

LEMMA AddType ==
  ASSUME HistoryType, NEW ps, NEW c \in Content, Engine!Add(ps, c)
  PROVE  HistoryType'
<1> DEFINE grown(x) == IF x \in ps THEN <<c>> \o history[x] ELSE history[x]
<1>1. ASSUME NEW x \in NamePath
      PROVE  grown(x) \in Seq(Content)
  <2>1. history[x] \in Seq(Content) /\ <<c>> \in Seq(Content)
    BY DEF HistoryType
  <2>2. <<c>> \o history[x] \in Seq(Content)
    BY <2>1, ConcatProperties
  <2> QED
    BY <2>1, <2>2
<1>2. history' = [x \in NamePath |-> grown(x)]
  BY DEF Engine!Add
<1> HIDE DEF grown
<1> QED
  BY <1>1, <1>2 DEF HistoryType

LEMMA RemoveType ==
  ASSUME HistoryType, NEW x, Engine!RemovePath(x)
  PROVE  HistoryType'
<1>1. history' = [history EXCEPT ![x] = <<>>]
  BY DEF Engine!RemovePath
<1>2. <<>> \in Seq(Content)
  OBVIOUS
<1> QED
  BY <1>1, <1>2 DEF HistoryType

LEMMA NewestType ==
  ASSUME HistoryType, NEW x \in NamePath, history[x] # <<>>
  PROVE  Head(history[x]) \in Content
<1>1. history[x] \in Seq(Content)
  BY DEF HistoryType
<1> QED
  BY <1>1, HeadTailProperties

-----------------------------------------------------------------------------
(* Type correctness, one lemma per action.                                 *)

\* The parts of FuseTypeOK that most actions leave alone.
FilesType == files \in [Slot -> {NoFile} \cup OpenState]
BufsType ==
  /\ nextFh \in 1..(MaxFh + 1)
  /\ DOMAIN bufs \subseteq 0..(nextFh - 1)
  /\ \A fh \in DOMAIN bufs : bufs[fh] \in Content
BusyType ==
  /\ busy \in [op : {"idle", "rename_add", "rename_remove", "truncate"},
               from : Dir, to : Dir, content : Content]
  /\ faults \in 0..MaxFaults
NamesType == known \subseteq NamePath /\ dirs \subseteq NamePath

LEMMA TypeParts ==
  /\ FuseTypeOK <=> HistoryType /\ NamesType /\ BufsType /\ BusyType /\ FilesType
  /\ FuseTypeOK' <=> HistoryType' /\ NamesType' /\ BufsType' /\ BusyType' /\ FilesType'
BY DEF FuseTypeOK, HistoryType, NamesType, BufsType, BusyType, FilesType

\* An open file has handle 0 or one that create has handed out; FuseTypeOK
\* alone is not inductive, since a write makes a buffer for that handle.
HandlesGiven == \A s \in OpenFiles : files[s].fh < nextFh

FuseInv == FuseTypeOK /\ HandlesGiven /\ BuffersOwned

\* What a step owes that leaves open files and buffers alone.
LEMMA FilesAlone ==
  ASSUME FuseInv, FuseTypeOK', UNCHANGED <<bufs, nextFh, files>>
  PROVE  FuseInv'
BY DEF FuseInv, HandlesGiven, BuffersOwned, OpenFiles

LEMMA IdleType == Idle \in [op : {"idle", "rename_add", "rename_remove", "truncate"},
                             from : Dir, to : Dir, content : Content]
BY EmptyContent DEF Idle, Dir

LEMMA InitInv == Init => FuseInv
<1> SUFFICES ASSUME Init PROVE FuseInv
  OBVIOUS
<1>1. PICK S \in SUBSET Seeds, b \in Byte :
        history = [x \in NamePath |->
                     IF x \in S THEN <<IF MaxSize = 0 THEN <<>> ELSE <<b>> >> ELSE <<>>]
  BY DEF Init
<1>2. (IF MaxSize = 0 THEN <<>> ELSE <<b>>) \in Content
  <2>1. CASE MaxSize = 0
    BY <2>1, EmptyContent
  <2>2. CASE MaxSize # 0
    <3>1. <<b>> \in [1..1 -> Byte \cup {Zero}] /\ 1 \in 0..MaxSize
      BY <2>2, FuseAssumption
    <3> QED
      BY <2>2, <3>1 DEF Content
  <2> QED
    BY <2>1, <2>2
<1>3. HistoryType
  <2> DEFINE c == IF MaxSize = 0 THEN <<>> ELSE <<b>>
  <2>1. c \in Content /\ history = [x \in NamePath |-> IF x \in S THEN <<c>> ELSE <<>>]
    BY <1>1, <1>2
  <2> HIDE DEF c
  <2> QED
    BY <2>1 DEF HistoryType
<1>4. BusyType
  BY IdleType, FuseAssumption DEF Init, BusyType
<1>5. BufsType
  <2>1. DOMAIN bufs = {}
    BY DEF Init
  <2> QED
    BY <2>1, FuseAssumption DEF Init, BufsType
<1>6. FuseTypeOK
  BY <1>3, <1>4, <1>5, TypeParts DEF Init, NamesType, FilesType
<1>7. HandlesGiven /\ BuffersOwned
  BY DEF Init, HandlesGiven, BuffersOwned, OpenFiles
<1> QED
  BY <1>6, <1>7 DEF FuseInv

LEMMA FailsType ==
  ASSUME BusyType, Fails \/ UNCHANGED faults
  PROVE  faults' \in 0..MaxFaults
BY FuseAssumption DEF BusyType, Fails

LEMMA NamesStep ==
  ASSUME FuseInv, NEW d \in Dirs, NEW n \in Name,
         Lookup(d, n) \/ Mkdir(d, n) \/ Rmdir(d, n) \/ Unlink(d, n)
  PROVE  FuseInv'
<1>1. Child(d, n) \in NamePath /\ Found(d, n) \subseteq NamePath
  BY NamesArePaths
<1>2. CASE Lookup(d, n)
  BY <1>1, <1>2, FilesAlone DEF Lookup, FuseTypeOK, FuseInv
<1>3. CASE Mkdir(d, n)
  BY <1>1, <1>3, FilesAlone DEF Mkdir, FuseTypeOK, FuseInv
<1>4. CASE Rmdir(d, n)
  <2>1. faults' \in 0..MaxFaults
    BY <1>4, FailsType, TypeParts DEF Rmdir, FuseInv
  <2>2. dirs' \subseteq dirs /\ UNCHANGED <<history, known, bufs, nextFh, busy, files>>
    BY <1>4 DEF Rmdir
  <2>3. FuseTypeOK'
    BY <2>1, <2>2 DEF FuseTypeOK, FuseInv
  <2> QED
    BY <2>2, <2>3, FilesAlone
<1>5. CASE Unlink(d, n)
  <2>1. HistoryType'
    BY <1>5, RemoveType, TypeParts DEF Unlink, FuseInv, HistoryType
  <2>2. NamesType'
    BY <1>1, <1>5 DEF Unlink, FuseTypeOK, NamesType, FuseInv
  <2>3. BusyType'
    <3>1. faults' \in 0..MaxFaults
      BY <1>5, FailsType, TypeParts DEF Unlink, FuseInv
    <3> QED
      BY <1>5, <3>1, TypeParts DEF Unlink, FuseInv, BusyType
  <2>4. UNCHANGED <<bufs, nextFh, files>>
    BY <1>5 DEF Unlink
  <2>5. FuseTypeOK'
    BY <2>1, <2>2, <2>3, <2>4, TypeParts DEF FuseInv, BufsType, FilesType
  <2> QED
    BY <2>4, <2>5, FilesAlone
<1> QED
  BY <1>2, <1>3, <1>4, <1>5

LEMMA ReaddirStep ==
  ASSUME FuseInv, NEW d \in Dirs, Readdir(d)
  PROVE  FuseInv'
<1>1. \A e \in DirEntries(d) : e.is.kind = "file" => e.is.path \in NamePath
  BY EntriesArePaths
<1> QED
  BY <1>1, FilesAlone DEF Readdir, FuseTypeOK, FuseInv

\* The parts of a file that a step puts in slot s.
LEMMA FileInSlot ==
  ASSUME FilesType, NEW s \in Slot, NEW f \in OpenState, f # NoFile,
         files' = [files EXCEPT ![s] = f]
  PROVE  /\ FilesType'
         /\ OpenFiles' = OpenFiles \cup {s}
         /\ files'[s] = f
         /\ \A t \in Slot \ {s} : files'[t] = files[t]
BY DEF FilesType, OpenFiles

\* What each handler of an open file does to files and buffers.
LEMMA CreateEffect ==
  ASSUME FuseInv, NEW d \in Dirs, NEW n \in Name, NEW s \in Slot, Create(s, d, n)
  PROVE  /\ nextFh \in 1..MaxFh
         /\ s \notin OpenFiles
         /\ FilesType'
         /\ OpenFiles' = OpenFiles \cup {s}
         /\ files'[s].fh = nextFh /\ files'[s].data = {<<>>}
         /\ \A t \in OpenFiles : files'[t] = files[t]
         /\ nextFh' = nextFh + 1
         /\ DOMAIN bufs' = DOMAIN bufs \cup {nextFh}
         /\ \A fh \in DOMAIN bufs' :
              bufs'[fh] = IF fh = nextFh THEN <<>> ELSE bufs[fh]
         /\ NamesType'
         /\ UNCHANGED <<history, busy, faults>>
<1> DEFINE x == RealPath(d, n)
           f == [path |-> x, fh |-> nextFh, data |-> {<<>>}]
<1>1. x \in NamePath
  BY NamesArePaths
<1>2. nextFh \in 1..MaxFh
  BY FuseAssumption DEF Create, FuseInv, FuseTypeOK
<1>3. f \in OpenState /\ f # NoFile /\ f.fh = nextFh /\ f.data = {<<>>}
  BY <1>1, <1>2, EmptyContent, FuseAssumption DEF OpenState, NoFile
<1>4. files' = [files EXCEPT ![s] = f] /\ s \notin OpenFiles
  BY DEF Create, OpenFile, OpenFiles
<1> HIDE DEF f
<1>5. /\ FilesType'
      /\ OpenFiles' = OpenFiles \cup {s}
      /\ files'[s] = f
      /\ \A t \in OpenFiles : files'[t] = files[t]
  BY <1>3, <1>4, FileInSlot, TypeParts DEF FuseInv, OpenFiles
<1>6. /\ nextFh' = nextFh + 1
      /\ DOMAIN bufs' = DOMAIN bufs \cup {nextFh}
      /\ \A fh \in DOMAIN bufs' :
           bufs'[fh] = IF fh = nextFh THEN <<>> ELSE bufs[fh]
  BY DEF Create
<1>7. NamesType' /\ UNCHANGED <<history, busy, faults>>
  BY <1>1 DEF Create, FuseInv, FuseTypeOK, NamesType
<1> QED
  BY <1>2, <1>3, <1>4, <1>5, <1>6, <1>7

LEMMA OpenEffect ==
  ASSUME FuseInv, NEW d \in Dirs, NEW n \in Name, NEW s \in Slot, Open(s, d, n)
  PROVE  /\ s \notin OpenFiles
         /\ FilesType'
         /\ OpenFiles' = OpenFiles \cup {s}
         /\ files'[s].fh = 0 /\ files'[s].data = {}
         /\ \A t \in OpenFiles : files'[t] = files[t]
         /\ NamesType'
         /\ UNCHANGED <<history, bufs, nextFh, busy, faults>>
<1>1. PICK x \in Found(d, n) : OpenFile(s, x, 0, {}) /\ known' = known \cup {x}
  BY DEF Open
<1> DEFINE f == [path |-> x, fh |-> 0, data |-> {}]
<1>2. x \in NamePath /\ x # Root
  <2>1. x \in NamePath
    BY NamesArePaths
  <2>2. PICK k \in 1..MaxDepth : x \in [1..k -> Name]
    BY <2>1 DEF NamePath
  <2> QED
    BY <2>1, <2>2, NameAssumption DEF Root
<1>3. f \in OpenState /\ f # NoFile /\ f.fh = 0 /\ f.data = {}
  BY <1>2, FuseAssumption DEF OpenState, NoFile
<1>4. files' = [files EXCEPT ![s] = f] /\ s \notin OpenFiles
  BY <1>1 DEF OpenFile, OpenFiles
<1> HIDE DEF f
<1>5. /\ FilesType'
      /\ OpenFiles' = OpenFiles \cup {s}
      /\ files'[s] = f
      /\ \A t \in OpenFiles : files'[t] = files[t]
  BY <1>3, <1>4, FileInSlot, TypeParts DEF FuseInv, OpenFiles
<1>6. NamesType' /\ UNCHANGED <<history, bufs, nextFh, busy, faults>>
  BY <1>1, <1>2 DEF Open, FuseInv, FuseTypeOK, NamesType
<1> QED
  BY <1>3, <1>4, <1>5, <1>6

\* What the buffer holds that a write starts from, and what the client's
\* writes amount to before it.
Buffered(s) == IF files[s].fh \in DOMAIN bufs THEN bufs[files[s].fh] ELSE <<>>
Written(s) == IF files[s].data = {} THEN {<<>>} ELSE files[s].data
BufferedAfter(s, i, b) == Put(Buffered(s), i, b)
WrittenAfter(s, i, b) == {Put(c, i, b) : c \in Written(s)}

LEMMA WriteEffect ==
  ASSUME FuseInv, NEW s \in Slot, NEW i \in 0..MaxSize, NEW b \in Byte, Write(s, i, b)
  PROVE  /\ s \in OpenFiles
         /\ files[s].fh \in 0..(nextFh - 1)
         /\ FilesType'
         /\ OpenFiles' = OpenFiles
         /\ \A t \in OpenFiles : files'[t].fh = files[t].fh
         /\ \A t \in OpenFiles \ {s} : files'[t] = files[t]
         /\ files'[s].data = WrittenAfter(s, i, b)
         /\ BufferedAfter(s, i, b) \in Content
         /\ DOMAIN bufs' = DOMAIN bufs \cup {files[s].fh}
         /\ \A g \in DOMAIN bufs' :
              bufs'[g] = IF g = files[s].fh THEN BufferedAfter(s, i, b) ELSE bufs[g]
         /\ UNCHANGED <<history, known, dirs, nextFh, busy, faults>>
<1> DEFINE new == WrittenAfter(s, i, b)
           f   == [files[s] EXCEPT !.data = new]
<1>1. s \in OpenFiles /\ files[s] \in OpenState /\ i < MaxSize
  BY DEF Write, FuseInv, FuseTypeOK, OpenFiles
<1>2. Buffered(s) \in Content /\ Written(s) \in SUBSET Content /\ Written(s) # {}
  BY <1>1, EmptyContent DEF FuseInv, FuseTypeOK, OpenState, Buffered, Written
<1>3. BufferedAfter(s, i, b) \in Content /\ new \in SUBSET Content /\ new # {}
  BY <1>1, <1>2, PutContent DEF BufferedAfter, WrittenAfter
<1>4. /\ bufs' = [g \in DOMAIN bufs \cup {files[s].fh} |->
                    IF g = files[s].fh THEN BufferedAfter(s, i, b) ELSE bufs[g]]
      /\ files' = [files EXCEPT ![s] = f]
  BY DEF Write, Buffered, Written, BufferedAfter, WrittenAfter
<1> HIDE DEF new
<1>5. f \in OpenState /\ f # NoFile /\ f.fh = files[s].fh /\ f.data = new
  BY <1>1, <1>3 DEF OpenState, NoFile
<1> HIDE DEF f
<1>6. /\ FilesType'
      /\ OpenFiles' = OpenFiles
      /\ files'[s] = f
      /\ \A t \in OpenFiles \ {s} : files'[t] = files[t]
  BY <1>1, <1>4, <1>5, FileInSlot, TypeParts DEF FuseInv, OpenFiles
<1>7. files[s].fh \in 0..(nextFh - 1)
  BY <1>1, FuseAssumption DEF FuseInv, FuseTypeOK, HandlesGiven, OpenState
<1>8. /\ DOMAIN bufs' = DOMAIN bufs \cup {files[s].fh}
      /\ \A g \in DOMAIN bufs' :
           bufs'[g] = IF g = files[s].fh THEN BufferedAfter(s, i, b) ELSE bufs[g]
  BY <1>4
<1>9. UNCHANGED <<history, known, dirs, nextFh, busy, faults>>
  BY DEF Write
<1> QED
  BY <1>1, <1>3, <1>5, <1>6, <1>7, <1>8, <1>9 DEF new

LEMMA ReleaseEffect ==
  ASSUME FuseInv, NEW s \in Slot, Release(s)
  PROVE  /\ s \in OpenFiles
         /\ FilesType'
         /\ OpenFiles' = OpenFiles \ {s}
         /\ \A t \in OpenFiles \ {s} : files'[t] = files[t]
         /\ DOMAIN bufs' = DOMAIN bufs \ {files[s].fh}
         /\ \A g \in DOMAIN bufs' : bufs'[g] = bufs[g]
         /\ UNCHANGED <<known, dirs, nextFh, busy>>
         /\ Fails \/ UNCHANGED faults
<1>1. s \in OpenFiles
  BY DEF Release, OpenFiles
<1>2. /\ FilesType'
      /\ OpenFiles' = OpenFiles \ {s}
      /\ \A t \in OpenFiles \ {s} : files'[t] = files[t]
  BY DEF Release, FuseInv, FuseTypeOK, FilesType, OpenFiles
<1>3. /\ DOMAIN bufs' = DOMAIN bufs \ {files[s].fh}
      /\ \A g \in DOMAIN bufs' : bufs'[g] = bufs[g]
  BY DEF Release, Without
<1>4. UNCHANGED <<known, dirs, nextFh, busy>> /\ (Fails \/ UNCHANGED faults)
  BY DEF Release
<1> QED
  BY <1>1, <1>2, <1>3, <1>4

LEMMA CreateStep ==
  ASSUME FuseInv, NEW d \in Dirs, NEW n \in Name, NEW s \in Slot, Create(s, d, n)
  PROVE  FuseInv'
<1>1. /\ OpenFiles' = OpenFiles \cup {s}
      /\ files'[s].fh = nextFh
      /\ \A t \in OpenFiles : files'[t] = files[t]
  BY CreateEffect
<1>2. /\ nextFh \in 1..MaxFh /\ nextFh' = nextFh + 1
      /\ DOMAIN bufs' = DOMAIN bufs \cup {nextFh}
      /\ \A fh \in DOMAIN bufs' :
           bufs'[fh] = IF fh = nextFh THEN <<>> ELSE bufs[fh]
  BY CreateEffect
<1>3. FilesType' /\ NamesType' /\ UNCHANGED <<history, busy, faults>>
  BY CreateEffect
<1>4. BufsType'
  <2>1. BufsType
    BY TypeParts DEF FuseInv
  <2>2. nextFh' \in 1..(MaxFh + 1) /\ DOMAIN bufs' \subseteq 0..(nextFh' - 1)
    BY <1>2, <2>1, FuseAssumption DEF BufsType
  <2>3. \A fh \in DOMAIN bufs' : bufs'[fh] \in Content
    BY <1>2, <2>1, EmptyContent DEF BufsType
  <2> QED
    BY <2>2, <2>3 DEF BufsType
<1>5. FuseTypeOK'
  BY <1>3, <1>4, TypeParts DEF FuseInv, HistoryType, BusyType
<1>6. HandlesGiven'
  <2>1. \A t \in OpenFiles : files[t].fh \in 0..MaxFh
    BY DEF FuseInv, FuseTypeOK, OpenFiles, OpenState
  <2> QED
    BY <1>1, <1>2, <2>1, FuseAssumption DEF FuseInv, HandlesGiven
<1>7. BuffersOwned'
  BY <1>1, <1>2 DEF FuseInv, BuffersOwned
<1> QED
  BY <1>5, <1>6, <1>7 DEF FuseInv

LEMMA OpenStep ==
  ASSUME FuseInv, NEW d \in Dirs, NEW n \in Name, NEW s \in Slot, Open(s, d, n)
  PROVE  FuseInv'
<1>1. /\ OpenFiles' = OpenFiles \cup {s}
      /\ files'[s].fh = 0
      /\ \A t \in OpenFiles : files'[t] = files[t]
  BY OpenEffect
<1>2. FilesType' /\ NamesType' /\ UNCHANGED <<history, bufs, nextFh, busy, faults>>
  BY OpenEffect
<1>3. FuseTypeOK'
  BY <1>2, TypeParts DEF FuseInv, HistoryType, BufsType, BusyType
<1>4. HandlesGiven'
  BY <1>1, <1>2, FuseAssumption DEF FuseInv, FuseTypeOK, HandlesGiven
<1>5. BuffersOwned'
  BY <1>1, <1>2 DEF FuseInv, BuffersOwned
<1> QED
  BY <1>3, <1>4, <1>5 DEF FuseInv

LEMMA WriteStep ==
  ASSUME FuseInv, NEW s \in Slot, NEW i \in 0..MaxSize, NEW b \in Byte, Write(s, i, b)
  PROVE  FuseInv'
<1>0. BufsType
  BY TypeParts DEF FuseInv
<1>1. BufsType'
  <2>1. /\ files[s].fh \in 0..(nextFh - 1) /\ nextFh' = nextFh
        /\ BufferedAfter(s, i, b) \in Content
        /\ DOMAIN bufs' = DOMAIN bufs \cup {files[s].fh}
        /\ \A g \in DOMAIN bufs' :
             bufs'[g] = IF g = files[s].fh THEN BufferedAfter(s, i, b) ELSE bufs[g]
    BY WriteEffect
  <2> QED
    BY <1>0, <2>1 DEF BufsType
<1>2. FuseTypeOK'
  BY <1>1, WriteEffect, TypeParts DEF FuseInv, HistoryType, NamesType, BusyType
<1>3. HandlesGiven' /\ BuffersOwned'
  <2>1. /\ s \in OpenFiles /\ OpenFiles' = OpenFiles /\ nextFh' = nextFh
        /\ \A t \in OpenFiles : files'[t].fh = files[t].fh
        /\ DOMAIN bufs' = DOMAIN bufs \cup {files[s].fh}
    BY WriteEffect
  <2> QED
    BY <2>1 DEF FuseInv, HandlesGiven, BuffersOwned
<1> QED
  BY <1>2, <1>3 DEF FuseInv

\* Of the buffers, release takes the one whose handle it closes; all the
\* others have another open file.
LEMMA ReleaseStep ==
  ASSUME FuseInv, NEW s \in Slot, Release(s)
  PROVE  FuseInv'
<1>1. HistoryType'
  <2>1. CASE Engine!Add({files[s].path}, bufs[files[s].fh]) /\ files[s].fh \in DOMAIN bufs
    BY <2>1, AddType, TypeParts DEF FuseInv, BufsType
  <2>2. CASE history' = history
    BY <2>2, TypeParts DEF FuseInv, HistoryType
  <2> QED
    BY <2>1, <2>2 DEF Release
<1>2. BufsType'
  <2>1. /\ nextFh' = nextFh
        /\ DOMAIN bufs' = DOMAIN bufs \ {files[s].fh}
        /\ \A g \in DOMAIN bufs' : bufs'[g] = bufs[g]
    BY ReleaseEffect
  <2> QED
    BY <2>1, TypeParts DEF FuseInv, BufsType
<1>3. FuseTypeOK'
  <2>1. /\ FilesType' /\ UNCHANGED <<known, dirs, busy>>
        /\ Fails \/ UNCHANGED faults
    BY ReleaseEffect
  <2>2. BusyType'
    BY <2>1, FailsType, TypeParts DEF FuseInv, BusyType
  <2> QED
    BY <1>1, <1>2, <2>1, <2>2, TypeParts DEF FuseInv, NamesType
<1>4. HandlesGiven' /\ BuffersOwned'
  <2>1. /\ nextFh' = nextFh
        /\ OpenFiles' = OpenFiles \ {s}
        /\ \A t \in OpenFiles \ {s} : files'[t] = files[t]
        /\ DOMAIN bufs' = DOMAIN bufs \ {files[s].fh}
    BY ReleaseEffect
  <2> QED
    BY <2>1 DEF FuseInv, HandlesGiven, BuffersOwned
<1> QED
  BY <1>3, <1>4 DEF FuseInv

\* The handlers of several engine calls, and the other processes.
LEMMA RenameStep ==
  ASSUME FuseInv, NEW d \in Dirs, NEW n \in Name, NEW e \in Dirs, NEW m \in Name,
         Rename(d, n, e, m)
  PROVE  FuseInv'
<1>1. /\ RealPath(d, n) \in NamePath /\ Found(d, n) \subseteq NamePath
      /\ RealPath(e, m) \in NamePath /\ Found(e, m) \subseteq NamePath
  BY NamesArePaths
<1>2. Head(history[RealPath(d, n)]) \in Content
  BY <1>1, NewestType, TypeParts DEF Rename, FuseInv
<1>3. BusyType'
  BY <1>1, <1>2, TypeParts DEF Rename, FuseInv, BusyType, Dir
<1>4. NamesType'
  BY <1>1 DEF Rename, FuseInv, FuseTypeOK, NamesType
<1>5. FuseTypeOK'
  BY <1>3, <1>4, TypeParts DEF Rename, FuseInv, HistoryType, BufsType, FilesType
<1> QED
  BY <1>5, FilesAlone DEF Rename

LEMMA BusyStep ==
  ASSUME FuseInv, RenameAdd \/ RenameRemove \/ TruncateAdd
  PROVE  FuseInv'
<1>1. BusyType /\ busy.content \in Content
  BY TypeParts DEF FuseInv, BusyType
<1>2. HistoryType'
  <2>1. CASE \E ps : Engine!Add(ps, busy.content)
    BY <1>1, <2>1, AddType, TypeParts DEF FuseInv
  <2>2. CASE Engine!RemovePath(busy.from)
    BY <2>2, RemoveType, TypeParts DEF FuseInv
  <2>3. CASE history' = history
    BY <2>3, TypeParts DEF FuseInv, HistoryType
  <2> QED
    BY <2>1, <2>2, <2>3 DEF RenameAdd, RenameRemove, TruncateAdd
<1>3. BusyType'
  <2>1. busy' = Idle \/ busy' = [busy EXCEPT !.op = "rename_remove"]
    BY DEF RenameAdd, RenameRemove, TruncateAdd
  <2>2. faults' \in 0..MaxFaults
    BY <1>1, FailsType DEF RenameAdd, RenameRemove, TruncateAdd
  <2> QED
    BY <1>1, <2>1, <2>2, IdleType DEF BusyType
<1>4. NamesType'
  BY DEF RenameAdd, RenameRemove, TruncateAdd, FuseInv, FuseTypeOK, NamesType
<1>5. UNCHANGED <<bufs, nextFh, files>>
  BY DEF RenameAdd, RenameRemove, TruncateAdd
<1>6. FuseTypeOK'
  BY <1>2, <1>3, <1>4, <1>5, TypeParts DEF FuseInv, BufsType, FilesType
<1> QED
  BY <1>5, <1>6, FilesAlone

LEMMA TruncateStep ==
  ASSUME FuseInv, NEW x \in NamePath, NEW size \in 0..MaxSize, Truncate(x, size)
  PROVE  FuseInv'
<1> DEFINE c == Head(history[x])
           cut == SubSeq(c, 1, IF size < Len(c) THEN size ELSE Len(c))
<1>1. c \in Content
  BY NewestType, TypeParts DEF Truncate, FuseInv
<1>2. cut \in Content
  BY <1>1, CutContent
<1>3. busy' = [op |-> "truncate", from |-> x, to |-> x, content |-> cut] /\ faults' = faults
  BY DEF Truncate
<1> HIDE DEF c, cut
<1>4. BusyType'
  BY <1>2, <1>3, TypeParts DEF FuseInv, BusyType, Dir
<1>5. FuseTypeOK'
  BY <1>4, TypeParts DEF Truncate, FuseInv, HistoryType, NamesType, BufsType, FilesType
<1> QED
  BY <1>5, FilesAlone DEF Truncate

LEMMA OtherStep ==
  ASSUME FuseInv, OtherProcess
  PROVE  FuseInv'
<1>1. HistoryType'
  <2>1. CASE \E ps : \E c \in Content : Engine!Add(ps, c)
    BY <2>1, AddType, TypeParts DEF FuseInv
  <2>2. CASE \E x : Engine!RemovePath(x)
    BY <2>2, RemoveType, TypeParts DEF FuseInv
  <2> QED
    BY <2>1, <2>2 DEF OtherProcess
<1>2. FuseTypeOK'
  BY <1>1, TypeParts DEF OtherProcess, FuseInv, NamesType, BufsType, BusyType, FilesType
<1> QED
  BY <1>2, FilesAlone DEF OtherProcess

LEMMA NextInv == FuseInv /\ [Next]_vars => FuseInv'
<1> SUFFICES ASSUME FuseInv, [Next]_vars
             PROVE  FuseInv'
  OBVIOUS
<1>1. CASE \E d \in Dirs : Readdir(d)
  BY <1>1, ReaddirStep
<1>2. CASE \E d \in Dirs, n \in Name :
             Lookup(d, n) \/ Mkdir(d, n) \/ Rmdir(d, n) \/ Unlink(d, n)
  BY <1>2, NamesStep
<1>3. CASE \E d \in Dirs, n \in Name, s \in Slot : Create(s, d, n) \/ Open(s, d, n)
  BY <1>3, CreateStep, OpenStep
<1>4. CASE \E d \in Dirs, n \in Name, e \in Dirs, m \in Name : Rename(d, n, e, m)
  BY <1>4, RenameStep
<1>5. CASE \E s \in Slot, i \in 0..MaxSize, b \in Byte : Write(s, i, b)
  BY <1>5, WriteStep
<1>6. CASE \E s \in Slot : Release(s)
  BY <1>6, ReleaseStep
<1>7. CASE \E x \in NamePath, size \in 0..MaxSize : Truncate(x, size)
  BY <1>7, TruncateStep
<1>8. CASE RenameAdd \/ RenameRemove \/ TruncateAdd
  BY <1>8, BusyStep
<1>9. CASE OtherProcess
  BY <1>9, OtherStep
<1>10. CASE UNCHANGED vars
  <2>1. FuseTypeOK'
    BY <1>10 DEF vars, FuseInv, FuseTypeOK
  <2> QED
    BY <1>10, <2>1, FilesAlone DEF vars
<1> QED
  BY <1>1, <1>2, <1>3, <1>4, <1>5, <1>6, <1>7, <1>8, <1>9, <1>10 DEF Next

\* Every reachable state of the driver has the declared types: contents stay
\* within the size a file may have, and a buffer exists only for handle 0 or a
\* handle that create gave out.
THEOREM FuseTypeCorrect == Spec => []FuseTypeOK
<1>1. FuseInv => FuseTypeOK
  BY DEF FuseInv
<1> QED
  BY <1>1, InitInv, NextInv, PTL DEF Spec

\* However many clients have files open, and however handle 0 is shared, no
\* write buffer is left behind when the last file with its handle is released.
THEOREM NoBufferLeftBehind == Spec => []BuffersOwned
<1>1. FuseInv => BuffersOwned
  BY DEF FuseInv
<1> QED
  BY <1>1, InitInv, NextInv, PTL DEF Spec

-----------------------------------------------------------------------------
(* What a client wrote is what is stored, outside the windows.             *)

\* As long as no two open files share a handle, the buffer of an open file's
\* handle is what the client wrote to that file.
DataBuffered ==
  \A s \in OpenFiles :
    files[s].data = IF files[s].fh \in DOMAIN bufs THEN {bufs[files[s].fh]} ELSE {}

HandleInv == FuseInv /\ OwnHandles /\ DataBuffered

LEMMA DataCreate ==
  ASSUME HandleInv, NEW d \in Dirs, NEW n \in Name, NEW s \in Slot, Create(s, d, n)
  PROVE  DataBuffered'
<1>0. FuseInv
  BY DEF HandleInv
<1>1. /\ OpenFiles' = OpenFiles \cup {s}
      /\ files'[s].fh = nextFh /\ files'[s].data = {<<>>}
      /\ \A t \in OpenFiles : files'[t] = files[t]
      /\ DOMAIN bufs' = DOMAIN bufs \cup {nextFh}
      /\ \A fh \in DOMAIN bufs' : bufs'[fh] = IF fh = nextFh THEN <<>> ELSE bufs[fh]
  <2>1. /\ OpenFiles' = OpenFiles \cup {s}
        /\ files'[s].fh = nextFh /\ files'[s].data = {<<>>}
        /\ \A t \in OpenFiles : files'[t] = files[t]
    BY <1>0, CreateEffect
  <2>2. /\ DOMAIN bufs' = DOMAIN bufs \cup {nextFh}
        /\ \A fh \in DOMAIN bufs' : bufs'[fh] = IF fh = nextFh THEN <<>> ELSE bufs[fh]
    BY <1>0, CreateEffect
  <2> QED
    BY <2>1, <2>2
<1>2. \A t \in OpenFiles : files[t].fh # nextFh
  <2>1. HandlesGiven /\ nextFh \in Nat
    BY DEF HandleInv, FuseInv, FuseTypeOK
  <2> QED
    BY <2>1 DEF HandlesGiven
<1>3. ASSUME NEW t \in OpenFiles
      PROVE  files'[t].data =
               IF files'[t].fh \in DOMAIN bufs' THEN {bufs'[files'[t].fh]} ELSE {}
  <2>1. files[t].data = IF files[t].fh \in DOMAIN bufs THEN {bufs[files[t].fh]} ELSE {}
    BY DEF HandleInv, DataBuffered
  <2>2. files'[t] = files[t]
    BY <1>1
  <2>3. /\ files[t].fh \in DOMAIN bufs' <=> files[t].fh \in DOMAIN bufs
        /\ files[t].fh \in DOMAIN bufs' => bufs'[files[t].fh] = bufs[files[t].fh]
    BY <1>1, <1>2
  <2> QED
    BY <2>1, <2>2, <2>3
<1>4. files'[s].data = {bufs'[files'[s].fh]} /\ files'[s].fh \in DOMAIN bufs'
  BY <1>1
<1> QED
  BY <1>1, <1>3, <1>4 DEF DataBuffered

\* A file is opened with handle 0; if that had a buffer, its file would now
\* share the handle.
LEMMA DataOpen ==
  ASSUME HandleInv, NEW d \in Dirs, NEW n \in Name, NEW s \in Slot, Open(s, d, n), OwnHandles'
  PROVE  DataBuffered'
<1>1. /\ s \notin OpenFiles
      /\ OpenFiles' = OpenFiles \cup {s}
      /\ files'[s].fh = 0 /\ files'[s].data = {}
      /\ \A t \in OpenFiles : files'[t] = files[t]
      /\ bufs' = bufs
  BY OpenEffect DEF HandleInv
<1>2. 0 \notin DOMAIN bufs
  <2> SUFFICES ASSUME 0 \in DOMAIN bufs PROVE FALSE
    OBVIOUS
  <2>1. PICK t \in OpenFiles : files[t].fh = 0
    BY DEF HandleInv, FuseInv, BuffersOwned
  <2>2. t \in OpenFiles' /\ s \in OpenFiles' /\ files'[t].fh = files'[s].fh
    BY <1>1, <2>1
  <2> QED
    BY <1>1, <2>2 DEF OwnHandles
<1> QED
  BY <1>1, <1>2 DEF HandleInv, DataBuffered

LEMMA DataWrite ==
  ASSUME HandleInv, NEW s \in Slot, NEW i \in 0..MaxSize, NEW b \in Byte, Write(s, i, b)
  PROVE  DataBuffered'
<1> DEFINE p == BufferedAfter(s, i, b)
<1>1. /\ s \in OpenFiles /\ OpenFiles' = OpenFiles
      /\ \A t \in OpenFiles : files'[t].fh = files[t].fh
      /\ \A t \in OpenFiles \ {s} : files'[t] = files[t]
      /\ files'[s].data = WrittenAfter(s, i, b)
      /\ DOMAIN bufs' = DOMAIN bufs \cup {files[s].fh}
      /\ \A g \in DOMAIN bufs' : bufs'[g] = IF g = files[s].fh THEN p ELSE bufs[g]
  <2>1. FuseInv
    BY DEF HandleInv
  <2> HIDE DEF p
  <2>2. s \in OpenFiles /\ OpenFiles' = OpenFiles
    BY <2>1, WriteEffect
  <2>3. files'[s].data = WrittenAfter(s, i, b)
    <3>1. files' = [files EXCEPT ![s].data = WrittenAfter(s, i, b)]
      BY DEF Write, Written, WrittenAfter
    <3>2. files \in [Slot -> {NoFile} \cup OpenState] /\ files[s] \in OpenState
      BY <2>1, <2>2 DEF FuseInv, FuseTypeOK, OpenFiles
    <3> QED
      BY <3>1, <3>2 DEF OpenState
  <2>4. /\ \A t \in OpenFiles : files'[t].fh = files[t].fh
        /\ \A t \in OpenFiles \ {s} : files'[t] = files[t]
    BY <2>1, WriteEffect
  <2>5. /\ DOMAIN bufs' = DOMAIN bufs \cup {files[s].fh}
        /\ \A g \in DOMAIN bufs' :
             bufs'[g] = IF g = files[s].fh THEN BufferedAfter(s, i, b) ELSE bufs[g]
    <3>1. bufs' = [g \in DOMAIN bufs \cup {files[s].fh} |->
                     IF g = files[s].fh THEN BufferedAfter(s, i, b) ELSE bufs[g]]
      BY DEF Write, BufferedAfter, Buffered
    <3> QED
      BY <3>1
  <2> QED
    BY <2>2, <2>3, <2>4, <2>5 DEF p
<1>2. Written(s) = {Buffered(s)}
  BY <1>1 DEF HandleInv, DataBuffered, Written, Buffered
<1>3. files'[s].data = {p}
  BY <1>1, <1>2 DEF BufferedAfter, WrittenAfter
<1> HIDE DEF p
<1>4. \A t \in OpenFiles \ {s} : files[t].fh # files[s].fh
  BY <1>1 DEF HandleInv, OwnHandles
<1>5. ASSUME NEW t \in OpenFiles \ {s}
      PROVE  files'[t].data =
               IF files'[t].fh \in DOMAIN bufs' THEN {bufs'[files'[t].fh]} ELSE {}
  <2>1. files[t].data = IF files[t].fh \in DOMAIN bufs THEN {bufs[files[t].fh]} ELSE {}
    BY DEF HandleInv, DataBuffered
  <2>2. files'[t] = files[t]
    BY <1>1
  <2>3. /\ files[t].fh \in DOMAIN bufs' <=> files[t].fh \in DOMAIN bufs
        /\ files[t].fh \in DOMAIN bufs' => bufs'[files[t].fh] = bufs[files[t].fh]
    BY <1>1, <1>4
  <2> QED
    BY <2>1, <2>2, <2>3
<1>6. files'[s].data = {bufs'[files'[s].fh]} /\ files'[s].fh \in DOMAIN bufs'
  BY <1>1, <1>3
<1> QED
  BY <1>1, <1>5, <1>6 DEF DataBuffered

LEMMA DataRelease ==
  ASSUME HandleInv, NEW s \in Slot, Release(s)
  PROVE  DataBuffered'
<1>1. /\ s \in OpenFiles
      /\ OpenFiles' = OpenFiles \ {s}
      /\ \A t \in OpenFiles \ {s} : files'[t] = files[t]
      /\ DOMAIN bufs' = DOMAIN bufs \ {files[s].fh}
      /\ \A g \in DOMAIN bufs' : bufs'[g] = bufs[g]
  BY ReleaseEffect DEF HandleInv
<1>2. \A t \in OpenFiles \ {s} : files[t].fh # files[s].fh
  BY <1>1 DEF HandleInv, OwnHandles
<1>3. ASSUME NEW t \in OpenFiles \ {s}
      PROVE  files'[t].data =
               IF files'[t].fh \in DOMAIN bufs' THEN {bufs'[files'[t].fh]} ELSE {}
  <2>1. files[t].data = IF files[t].fh \in DOMAIN bufs THEN {bufs[files[t].fh]} ELSE {}
    BY DEF HandleInv, DataBuffered
  <2>2. files'[t] = files[t]
    BY <1>1
  <2>3. /\ files[t].fh \in DOMAIN bufs' <=> files[t].fh \in DOMAIN bufs
        /\ files[t].fh \in DOMAIN bufs' => bufs'[files[t].fh] = bufs[files[t].fh]
    BY <1>1, <1>2
  <2> QED
    BY <2>1, <2>2, <2>3
<1> QED
  BY <1>1, <1>3 DEF DataBuffered

\* The steps that touch neither open files nor buffers.
OtherHandlers ==
  \/ \E d \in Dirs : Readdir(d)
  \/ \E d \in Dirs, n \in Name : Lookup(d, n) \/ Mkdir(d, n) \/ Rmdir(d, n) \/ Unlink(d, n)
  \/ \E d \in Dirs, n \in Name, e \in Dirs, m \in Name : Rename(d, n, e, m)
  \/ \E x \in NamePath, size \in 0..MaxSize : Truncate(x, size)
  \/ RenameAdd \/ RenameRemove \/ TruncateAdd \/ OtherProcess

LEMMA OthersKeepFiles == OtherHandlers => UNCHANGED <<bufs, nextFh, files>>
BY DEF OtherHandlers, Readdir, Lookup, Mkdir, Rmdir, Unlink, Rename, Truncate,
       RenameAdd, RenameRemove, TruncateAdd, OtherProcess

LEMMA NextCases ==
  Next <=>
    \/ \E d \in Dirs, n \in Name, s \in Slot : Create(s, d, n)
    \/ \E d \in Dirs, n \in Name, s \in Slot : Open(s, d, n)
    \/ \E s \in Slot, i \in 0..MaxSize, b \in Byte : Write(s, i, b)
    \/ \E s \in Slot : Release(s)
    \/ OtherHandlers
BY DEF Next, OtherHandlers

LEMMA InitHandles == Init => HandleInv
<1> SUFFICES ASSUME Init PROVE HandleInv
  OBVIOUS
<1>1. OpenFiles = {}
  BY DEF Init, OpenFiles
<1> QED
  BY <1>1, InitInv DEF HandleInv, OwnHandles, DataBuffered

LEMMA NextHandles == HandleInv /\ [Next]_vars /\ OwnHandles' => HandleInv'
<1> SUFFICES ASSUME HandleInv, [Next]_vars, OwnHandles'
             PROVE  HandleInv'
  OBVIOUS
<1>1. FuseInv'
  BY NextInv DEF HandleInv
<1>2. CASE Next
  <2>1. DataBuffered'
    <3>1. CASE \E d \in Dirs, n \in Name, s \in Slot : Create(s, d, n)
      BY <3>1, DataCreate
    <3>2. CASE \E d \in Dirs, n \in Name, s \in Slot : Open(s, d, n)
      BY <3>2, DataOpen
    <3>3. CASE \E s \in Slot, i \in 0..MaxSize, b \in Byte : Write(s, i, b)
      BY <3>3, DataWrite
    <3>4. CASE \E s \in Slot : Release(s)
      BY <3>4, DataRelease
    <3>5. CASE OtherHandlers
      BY <3>5, OthersKeepFiles DEF HandleInv, DataBuffered, OpenFiles
    <3> QED
      BY <1>2, <3>1, <3>2, <3>3, <3>4, <3>5, NextCases
  <2> QED
    BY <1>1, <2>1 DEF HandleInv
<1>3. CASE UNCHANGED vars
  BY <1>1, <1>3 DEF vars, HandleInv, DataBuffered, OpenFiles
<1> QED
  BY <1>2, <1>3

\* Only release closes a file.
LEMMA OnlyReleaseCloses ==
  ASSUME FuseInv, Next, NEW s \in OpenFiles, files'[s] = NoFile
  PROVE  Release(s)
<1>1. s \in Slot /\ s \notin OpenFiles'
  BY DEF OpenFiles
<1>2. CASE \E d \in Dirs, n \in Name, t \in Slot : Create(t, d, n)
  BY <1>1, <1>2, CreateEffect
<1>3. CASE \E d \in Dirs, n \in Name, t \in Slot : Open(t, d, n)
  BY <1>1, <1>3, OpenEffect
<1>4. CASE \E t \in Slot, i \in 0..MaxSize, b \in Byte : Write(t, i, b)
  BY <1>1, <1>4, WriteEffect
<1>5. CASE \E t \in Slot : Release(t)
  BY <1>1, <1>5, ReleaseEffect
<1>6. CASE OtherHandlers
  BY <1>1, <1>6, OthersKeepFiles DEF OpenFiles
<1> QED
  BY <1>2, <1>3, <1>4, <1>5, <1>6, NextCases

LEMMA ReleaseQuiet ==
  ASSUME HandleInv, NEW s \in OpenFiles, Release(s), files[s].data = {}
  PROVE  history' = history
<1>1. files[s].fh \notin DOMAIN bufs
  BY DEF HandleInv, DataBuffered
<1> QED
  BY <1>1 DEF Release

\* The handle that open shares is all that stands in the way: as long as no two
\* open files have one, closing a file that nobody has written to changes
\* nothing, also when files are renamed or unlinked while they are open.
THEOREM OnlyWrittenFilesChangeWithOwnHandles ==
  Spec /\ []OwnHandles => OnlyWrittenFilesChange
<1> DEFINE A == \A s \in OpenFiles :
                  files'[s] = NoFile /\ (\A t \in OpenFiles :
                      files[t].path = files[s].path => files[t].data = {})
                    => history' = history
<1>1. HandleInv /\ [Next]_vars => [A]_vars
  BY OnlyReleaseCloses, ReleaseQuiet DEF HandleInv
<1> QED
  BY <1>1, InitHandles, NextHandles, PTL DEF Spec, OnlyWrittenFilesChange

\* Outside the other windows too, an open file has its inode.
CalmInv == HandleInv /\ InodesKept /\ NoAlias

CalmNext == Next /\ OwnHandles' /\ InodesKept' /\ NoAlias'

LEMMA InitCalm == Init => CalmInv
<1> SUFFICES ASSUME Init PROVE CalmInv
  OBVIOUS
<1>1. OpenFiles = {} /\ busy.op = "idle"
  BY DEF Init, OpenFiles, Idle
<1> QED
  BY <1>1, InitHandles DEF CalmInv, InodesKept, NoAlias

LEMMA NextCalm == CalmInv /\ [CalmNext]_vars => CalmInv'
<1> SUFFICES ASSUME CalmInv, [CalmNext]_vars
             PROVE  CalmInv'
  OBVIOUS
<1>1. CASE CalmNext
  BY <1>1, NextHandles DEF CalmInv, CalmNext
<1>2. CASE UNCHANGED vars
  <2>1. OwnHandles'
    BY <1>2 DEF vars, CalmInv, HandleInv, OwnHandles, OpenFiles
  <2>2. HandleInv'
    BY <1>2, <2>1, NextHandles DEF CalmInv
  <2> QED
    BY <1>2, <2>2 DEF vars, CalmInv, InodesKept, NoAlias, OpenFiles
<1> QED
  BY <1>1, <1>2

LEMMA ReleaseStores ==
  ASSUME CalmInv, NEW s \in OpenFiles, Release(s), faults' = faults
  PROVE  history' = [x \in NamePath |->
                       IF x = files[s].path /\ files[s].data # {}
                       THEN <<CHOOSE c \in files[s].data : TRUE>> \o history[x]
                       ELSE history[x]]
<1>1. files[s].path \in known
  BY DEF CalmInv, InodesKept
<1>2. history = [x \in NamePath |-> history[x]] /\ ~Fails
  BY FuseAssumption DEF CalmInv, HandleInv, FuseInv, FuseTypeOK, Fails
<1>3. CASE files[s].fh \in DOMAIN bufs
  <2> DEFINE v == bufs[files[s].fh]
  <2>1. files[s].data = {v}
    BY <1>3 DEF CalmInv, HandleInv, DataBuffered
  <2>2. (CHOOSE c \in files[s].data : TRUE) = v
    BY <2>1
  <2>3. Engine!Add({files[s].path}, v)
    BY <1>1, <1>2, <1>3 DEF Release
  <2> HIDE DEF v
  <2>4. history' = [x \in NamePath |->
                      IF x \in {files[s].path} THEN <<v>> \o history[x] ELSE history[x]]
    BY <2>3 DEF Engine!Add
  <2> QED
    BY <2>1, <2>2, <2>4
<1>4. CASE files[s].fh \notin DOMAIN bufs
  <2>1. files[s].data = {}
    BY <1>4 DEF CalmInv, HandleInv, DataBuffered
  <2>2. history' = history
    BY <1>4 DEF Release
  <2> QED
    BY <1>2, <2>1, <2>2
<1> QED
  BY <1>3, <1>4

\* As long as no two open files share a handle and no open file is unlinked or
\* renamed, closing a file stores exactly what was written to it, under its
\* path: for any number of open files, whatever other processes do, and however
\* other engine calls fail.
THEOREM ReleaseStoresWhatWasWritten == CalmSpec => ReleaseCommits
<1> DEFINE A == \A s \in OpenFiles :
                  files'[s] = NoFile /\ faults' = faults =>
                    history' = [x \in NamePath |->
                                  IF x = files[s].path /\ files[s].data # {}
                                  THEN <<CHOOSE c \in files[s].data : TRUE>> \o history[x]
                                  ELSE history[x]]
<1>1. CalmInv /\ [CalmNext]_vars => [A]_vars
  BY OnlyReleaseCloses, ReleaseStores DEF CalmInv, HandleInv, CalmNext
<1> QED
  BY <1>1, InitCalm, NextCalm, PTL DEF CalmSpec, CalmNext, ReleaseCommits

-----------------------------------------------------------------------------
(* A rename moves content and loses none.                                  *)

Holds(x, c) == \E i \in DOMAIN history[x] : history[x][i] = c

\* Between its two engine calls, rename has its content under the new path.
Moved ==
  /\ busy.op \in {"rename_add", "rename_remove"} => busy.to \in NamePath
  /\ busy.op = "rename_remove" => Holds(busy.to, busy.content)

LEMMA AddHolds ==
  ASSUME HistoryType, NEW ps, NEW c \in Content, Engine!Add(ps, c), NEW x \in NamePath
  PROVE  /\ x \in ps => Holds(x, c)'
         /\ \A e : Holds(x, e) => Holds(x, e)'
<1>1. history[x] \in Seq(Content) /\ <<c>> \in Seq(Content) /\ Len(<<c>>) = 1
  BY DEF HistoryType
<1>2. history'[x] = IF x \in ps THEN <<c>> \o history[x] ELSE history[x]
  BY DEF Engine!Add
<1>3. CASE x \in ps
  <2>1. /\ Len(history'[x]) = 1 + Len(history[x])
        /\ history'[x] \in Seq(Content)
        /\ \A i \in 1..(1 + Len(history[x])) :
             history'[x][i] = IF i <= 1 THEN <<c>>[i] ELSE history[x][i - 1]
    BY <1>1, <1>2, <1>3, ConcatProperties
  <2>2. DOMAIN history'[x] = 1..(1 + Len(history[x])) /\ DOMAIN history[x] = 1..Len(history[x])
    BY <1>1, <2>1
  <2>3. Len(history[x]) \in Nat
    BY <1>1
  <2>4. Holds(x, c)'
    <3>1. 1 \in DOMAIN history'[x] /\ history'[x][1] = c
      BY <2>1, <2>2, <2>3
    <3> QED
      BY <3>1 DEF Holds
  <2>5. ASSUME NEW e, Holds(x, e)
        PROVE  Holds(x, e)'
    <3>1. PICK i \in 1..Len(history[x]) : history[x][i] = e
      BY <2>2, <2>5 DEF Holds
    <3>2. i + 1 \in DOMAIN history'[x] /\ history'[x][i + 1] = e
      BY <2>1, <2>2, <2>3, <3>1
    <3> QED
      BY <3>2 DEF Holds
  <2> QED
    BY <2>4, <2>5
<1>4. CASE x \notin ps
  BY <1>2, <1>4 DEF Holds
<1> QED
  BY <1>3, <1>4

LEMMA InitMoved == Init => Moved
BY DEF Init, Idle, Moved

\* While a handler is between its engine calls no other runs: only it and the
\* other processes take steps.
LEMMA BusySteps ==
  ASSUME Next
  PROVE  \/ RenameAdd \/ RenameRemove \/ TruncateAdd \/ OtherProcess
         \/ \E d \in Dirs, n \in Name, e \in Dirs, m \in Name : Rename(d, n, e, m)
         \/ busy = Idle /\ (busy' = busy \/ busy'.op = "truncate")
<1>1. CASE \E d \in Dirs : Readdir(d)
  BY <1>1 DEF Readdir, Does
<1>2. CASE \E d \in Dirs, n \in Name :
             Lookup(d, n) \/ Mkdir(d, n) \/ Rmdir(d, n) \/ Unlink(d, n)
  BY <1>2 DEF Lookup, Mkdir, Rmdir, Unlink, Does
<1>3. CASE \E d \in Dirs, n \in Name, s \in Slot : Create(s, d, n) \/ Open(s, d, n)
  BY <1>3 DEF Create, Open, Does
<1>4. CASE \E s \in Slot, i \in 0..MaxSize, b \in Byte : Write(s, i, b)
  BY <1>4 DEF Write, Does
<1>5. CASE \E s \in Slot : Release(s)
  BY <1>5 DEF Release, Does
<1>6. CASE \E x \in NamePath, size \in 0..MaxSize : Truncate(x, size)
  BY <1>6 DEF Truncate, Does
<1> QED
  BY <1>1, <1>2, <1>3, <1>4, <1>5, <1>6 DEF Next

LEMMA NextMoved ==
  ASSUME "other_remove" \notin FuseOps, FuseInv, Moved, [Next]_vars
  PROVE  Moved'
<1>1. HistoryType /\ BusyType
  BY TypeParts DEF FuseInv
<1>2. CASE \E d \in Dirs, n \in Name, e \in Dirs, m \in Name : Rename(d, n, e, m)
  BY <1>2, NamesArePaths DEF Rename, Moved
<1>3. CASE RenameAdd
  <2>1. CASE Engine!Add({busy.to}, busy.content) /\ busy' = [busy EXCEPT !.op = "rename_remove"]
    <3>1. /\ busy'.op = "rename_remove" /\ busy'.to = busy.to
          /\ busy'.content = busy.content /\ busy.content \in Content
      BY <1>1, <2>1 DEF BusyType
    <3>2. busy.to \in NamePath
      BY <1>3 DEF RenameAdd, Moved
    <3>3. Holds(busy.to, busy.content)'
      <4> DEFINE x == busy.to
                 c == busy.content
      <4>1. \E i \in DOMAIN history'[x] : history'[x][i] = c
        BY <1>1, <2>1, <3>1, <3>2, AddHolds DEF Holds
      <4> QED
        BY <3>1, <4>1 DEF Holds
    <3> QED
      BY <3>1, <3>2, <3>3 DEF Moved
  <2>2. CASE busy' = Idle
    BY <2>2 DEF Moved, Idle
  <2> QED
    BY <1>3, <2>1, <2>2 DEF RenameAdd
<1>4. CASE RenameRemove \/ TruncateAdd
  BY <1>4 DEF RenameRemove, TruncateAdd, Moved, Idle
<1>5. CASE OtherProcess
  <2>1. busy' = busy
    BY <1>5 DEF OtherProcess
  <2>2. PICK x \in OtherPaths, c \in Content : Engine!Add({x}, c)
    BY <1>5 DEF OtherProcess
  <2>3. \A y \in NamePath : \A e : Holds(y, e) => Holds(y, e)'
    BY <1>1, <2>2, AddHolds
  <2> QED
    BY <2>1, <2>3 DEF Moved, Holds
<1>6. CASE busy = Idle /\ (busy' = busy \/ busy'.op = "truncate")
  BY <1>6 DEF Moved, Idle
<1>7. CASE UNCHANGED vars
  BY <1>7 DEF vars, Moved, Holds
<1> QED
  BY <1>2, <1>3, <1>4, <1>5, <1>6, <1>7, BusySteps

LEMMA RenameReturns ==
  ASSUME "other_remove" \notin FuseOps, FuseInv, NoAlias, Moved, Next,
         busy.op = "rename_remove", busy' = Idle
  PROVE  \E i \in DOMAIN history'[busy.to] : history'[busy.to][i] = busy.content
<1>1. RenameRemove
  <2>1. ~RenameAdd /\ ~TruncateAdd
    BY DEF RenameAdd, TruncateAdd
  <2>2. ~OtherProcess /\ busy # Idle
    BY DEF OtherProcess, Idle
  <2>3. ASSUME NEW d, NEW n, NEW e, NEW m
        PROVE  ~Rename(d, n, e, m)
    BY <2>2 DEF Rename, Does
  <2> QED
    BY <2>1, <2>2, <2>3, BusySteps
<1>2. busy.from # busy.to /\ busy.to \in NamePath
  BY DEF NoAlias, Moved
<1>3. history'[busy.to] = history[busy.to]
  <2>1. CASE Engine!RemovePath(busy.from)
    BY <1>2, <2>1 DEF Engine!RemovePath, FuseInv, FuseTypeOK
  <2> QED
    BY <1>1, <2>1 DEF RenameRemove
<1> QED
  BY <1>3 DEF Moved, Holds

\* Where no other process removes paths and the two names of a rename are not
\* one stored path, the content that rename moved is under the new path when it
\* returns, however its engine calls fail and whatever else is added.
THEOREM RenameLosesNothing ==
  ASSUME "other_remove" \notin FuseOps
  PROVE  CalmSpec => RenameKeepsContent
<1> DEFINE A == busy.op = "rename_remove" /\ busy' = Idle =>
                  \E i \in DOMAIN history'[busy.to] : history'[busy.to][i] = busy.content
<1>1. CalmInv /\ Moved /\ [CalmNext]_vars => [A]_vars
  BY RenameReturns DEF CalmInv, HandleInv, CalmNext
<1>2. CalmInv /\ Moved /\ [CalmNext]_vars => Moved'
  BY NextMoved DEF CalmInv, HandleInv, CalmNext
<1> QED
  BY <1>1, <1>2, InitMoved, InitCalm, NextCalm, PTL
     DEF CalmSpec, CalmNext, RenameKeepsContent
=============================================================================
