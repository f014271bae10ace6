-------------------------- MODULE BloxtreeCliProofs --------------------------
(***************************************************************************)
(* What get and info promise, for every store, every content, every size   *)
(* of buffer and every interleaving with the statements of other processes *)
(* and with damaged files.                                                 *)
(***************************************************************************)
EXTENDS BloxtreeCli, BloxtreeProofs

-----------------------------------------------------------------------------
(* Sequences that are read piece by piece.                                 *)

\* Cutting k elements off the rest of a sequence whose first n are gone.
LEMMA CutAgain ==
  ASSUME NEW S, NEW c \in Seq(S), NEW n \in 0..Len(c), NEW k \in 0..(Len(c) - n)
  PROVE  LET rest == SubSeq(c, n + 1, Len(c)) IN
         /\ rest \in Seq(S) /\ Len(rest) = Len(c) - n
         /\ SubSeq(c, 1, n) \o SubSeq(rest, 1, k) = SubSeq(c, 1, n + k)
         /\ SubSeq(rest, k + 1, Len(rest)) = SubSeq(c, (n + k) + 1, Len(c))
<1> DEFINE rest == SubSeq(c, n + 1, Len(c))
           m == n + k
<1>0. n \in Nat /\ k \in Nat /\ m \in Nat /\ Len(c) \in Nat /\ n <= Len(c) /\ m <= Len(c) /\ n <= m
  OBVIOUS
<1>1. /\ rest \in Seq(S) /\ Len(rest) = Len(c) - n
      /\ \A i \in 1..(Len(c) - n) : rest[i] = c[n + i]
  OBVIOUS
<1>2. SubSeq(rest, 1, k) = SubSeq(c, n + 1, m)
  <2>1. Len(SubSeq(rest, 1, k)) = k /\ Len(SubSeq(c, n + 1, m)) = k
    BY <1>0, <1>1
  <2>2. \A i \in 1..k : SubSeq(rest, 1, k)[i] = c[n + i] /\ SubSeq(c, n + 1, m)[i] = c[n + i]
    BY <1>0, <1>1
  <2> QED
    BY <2>1, <2>2
<1>3. SubSeq(c, 1, n) \o SubSeq(c, n + 1, m) = SubSeq(c, 1, m)
  <2>1. 1 \in 1..(Len(c) + 1) /\ n \in (1 - 1)..Len(c) /\ m \in n..Len(c)
    BY <1>0
  <2> QED
    BY <2>1, ConcatAdjacentSubSeq
<1>4. SubSeq(rest, k + 1, Len(rest)) = SubSeq(c, m + 1, Len(c))
  <2>1. /\ Len(SubSeq(rest, k + 1, Len(rest))) = Len(c) - m
        /\ Len(SubSeq(c, m + 1, Len(c))) = Len(c) - m
    BY <1>0, <1>1
  <2>2. ASSUME NEW i \in 1..(Len(c) - m)
        PROVE  SubSeq(rest, k + 1, Len(rest))[i] = SubSeq(c, m + 1, Len(c))[i]
    <3> HIDE DEF rest
    <3>1. SubSeq(rest, k + 1, Len(rest))[i] = rest[k + i]
      BY <1>0, <1>1
    <3>2. k + i \in 1..(Len(c) - n) /\ n + (k + i) = m + i
      BY <1>0
    <3>3. SubSeq(c, m + 1, Len(c))[i] = c[m + i]
      <4>1. i \in 1..(Len(c) - m) /\ m \in Nat /\ Len(c) \in Nat /\ m <= Len(c)
        BY <1>0
      <4> HIDE DEF m
      <4> QED
        BY <4>1
    <3> QED
      BY <1>1, <3>1, <3>2, <3>3
  <2> QED
    BY <2>1, <2>2
<1> QED
  BY <1>1, <1>2, <1>3, <1>4

\* The bytes that contents are made of.
Data == UNION {Range(c) : c \in Content}

LEMMA ContentIsData ==
  /\ Content # {} /\ Buffer \subseteq Nat
  /\ \A c \in Content : c \in Seq(Data) /\ Len(c) \in Nat
<1>1. Content # {} /\ Buffer \subseteq Nat /\ \A c \in Content : c \in Seq(Range(c))
  BY ReaderAssumption DEF ReaderAssumption
<1>2. ASSUME NEW c \in Content PROVE c \in Seq(Data) /\ Len(c) \in Nat
  <2>1. c \in Seq(Range(c))
    BY <1>1
  <2>2. Range(c) \subseteq Data
    BY DEF Data
  <2>3. Len(c) \in Nat /\ c \in [1..Len(c) -> Range(c)]
    BY <2>1
  <2>4. c \in [1..Len(c) -> Data]
    BY <2>2, <2>3
  <2> QED
    BY <2>3, <2>4
<1> QED
  BY <1>1, <1>2

LEMMA PiecesArePrefixes ==
  /\ \A c \in Content : \A n \in 0..Len(c) : SubSeq(c, 1, n) \in Pieces
  /\ \A x \in Pieces : x \in Seq(Data)
  /\ <<>> \in Pieces
<1>1. ASSUME NEW c \in Content, NEW n \in 0..Len(c) PROVE SubSeq(c, 1, n) \in Pieces
  BY DEF Pieces, Prefixes
<1>2. ASSUME NEW x \in Pieces PROVE x \in Seq(Data)
  <2>1. PICK c \in Content : \E n \in 0..Len(c) : x = SubSeq(c, 1, n)
    BY DEF Pieces, Prefixes
  <2> QED
    BY <2>1, ContentIsData
<1>3. <<>> \in Pieces
  <2>1. PICK c \in Content : <<>> = SubSeq(c, 1, 0) /\ 0 \in 0..Len(c)
    BY ContentIsData
  <2> QED
    BY <1>1, <2>1
<1> QED
  BY <1>1, <1>2, <1>3

-----------------------------------------------------------------------------
(* The store.                                                              *)

\* What the command and the other processes do to the engine is what its calls
\* do; the other steps leave it alone, but one of them may have failed.
Untouched == UNCHANGED <<rows, blobs, clock, call>>

LEMMA FaultsTyped ==
  ASSUME faults \in 0..MaxFaults, Fails \/ Works
  PROVE  faults' \in 0..MaxFaults
BY BoundAssumption DEF Fails, Works

LEMMA EngineMoves ==
  ASSUME [CliNext]_cliVars
  PROVE  [Next]_vars \/ (Untouched /\ (Fails \/ Works))
<1>1. CASE CmdAdd \/ CmdRemove \/ CmdTrim \/ CallStep \/ CallFails
  <2>1. User \in Proc
    BY CliAssumption DEF CliAssumption
  <2>2. UNCHANGED vars \/ Start(User) \/ Step(User) \/ Interrupt(User)
    BY <1>1 DEF CmdAdd, CmdRemove, CmdTrim, CallStep, CallFails, Refused, EngineStep, Start
  <2> QED
    BY <2>1, <2>2 DEF Next
<1>2. CASE \E p \in Proc \ {User} : OtherProcess(p)
  BY <1>2 DEF OtherProcess, EngineStep, Next
<1>3. ASSUME NEW x, CmdList(x) \/ CmdGet(x) \/ CmdGetHash(x) PROVE Untouched /\ Works
  BY <1>3 DEF CmdList, CmdGet, CmdGetHash, store, Untouched, Works
<1>4. CASE CmdInfo \/ Open \/ Copy \/ CopyFails \/ CountVersions
  BY <1>4 DEF CmdInfo, Open, Copy, CopyFails, CountVersions, store, Untouched, Works
<1>5. CASE Damage
  BY <1>5 DEF Damage, Untouched
<1>6. CASE UNCHANGED cliVars
  BY <1>6 DEF cliVars
<1> QED
  BY <1>1, <1>2, <1>3, <1>4, <1>5, <1>6 DEF CliNext, CmdStart, CmdStep

LEMMA EngineTyped == TypeInv /\ [CliNext]_cliVars => TypeInv'
<1> SUFFICES ASSUME TypeInv, [CliNext]_cliVars PROVE TypeInv'
  OBVIOUS
<1>1. CASE Untouched /\ (Fails \/ Works)
  <2>1. faults' \in 0..MaxFaults
    BY <1>1, FaultsTyped DEF TypeInv, TypeOK
  <2> QED
    BY <1>1, <2>1 DEF Untouched, TypeInv, TypeOK
<1>2. CASE [Next]_vars
  BY <1>2, NextType
<1> QED
  BY <1>1, <1>2, EngineMoves

\* What happens to the content of the files.
LEMMA HoldsMove ==
  ASSUME [CliNext]_cliVars
  PROVE  \/ UNCHANGED holds
         \/ \E p \in Proc : At(p, "persist") /\ holds' = [holds EXCEPT ![call[p].hash] = call[p].hash]
         \/ Fails /\ \E h \in blobs : \E c \in Content : holds' = [holds EXCEPT ![h] = c]
<1>1. CASE CmdAdd \/ CmdRemove \/ CmdTrim \/ CallFails
  BY <1>1 DEF CmdAdd, CmdRemove, CmdTrim, CallFails
<1>2. CASE CallStep
  BY <1>2, CliAssumption DEF CallStep, EngineStep, CliAssumption
<1>3. CASE \E p \in Proc \ {User} : OtherProcess(p)
  BY <1>3 DEF OtherProcess, EngineStep
<1>4. ASSUME NEW x, CmdList(x) \/ CmdGet(x) \/ CmdGetHash(x) PROVE UNCHANGED holds
  BY <1>4 DEF CmdList, CmdGet, CmdGetHash, store
<1>5. CASE CmdInfo \/ Open \/ Copy \/ CopyFails \/ CountVersions
  BY <1>5 DEF CmdInfo, Open, Copy, CopyFails, CountVersions, store
<1>6. CASE Damage
  BY <1>6 DEF Damage
<1>7. CASE UNCHANGED cliVars
  BY <1>7 DEF cliVars
<1> QED
  BY <1>1, <1>2, <1>3, <1>4, <1>5, <1>6, <1>7 DEF CliNext, CmdStart, CmdStep

\* The history variable watches every step that may change it.
LEMMA ApartMoves ==
  ASSUME [CliNext]_cliVars
  PROVE  Watch \/ (UNCHANGED apart /\ Untouched)
<1>1. CASE CmdAdd \/ CmdRemove \/ CmdTrim \/ CallStep \/ CallFails
  BY <1>1 DEF CmdAdd, CmdRemove, CmdTrim, CallStep, CallFails
<1>2. CASE \E p \in Proc \ {User} : OtherProcess(p)
  BY <1>2 DEF OtherProcess
<1>3. ASSUME NEW x, CmdList(x) \/ CmdGet(x) \/ CmdGetHash(x) PROVE UNCHANGED apart /\ Untouched
  BY <1>3 DEF CmdList, CmdGet, CmdGetHash, store, Untouched
<1>4. CASE CmdInfo \/ Open \/ Copy \/ CopyFails \/ CountVersions
  BY <1>4 DEF CmdInfo, Open, Copy, CopyFails, CountVersions, store, Untouched
<1>5. CASE Damage
  BY <1>5 DEF Damage, Untouched
<1>6. CASE UNCHANGED cliVars
  BY <1>6 DEF cliVars, vars, Untouched
<1> QED
  BY <1>1, <1>2, <1>3, <1>4, <1>5, <1>6 DEF CliNext, CmdStart, CmdStep

StoreOK == TypeInv /\ holds \in [Content -> Content] /\ apart \in BOOLEAN

LEMMA StoreStep == StoreOK /\ [CliNext]_cliVars => StoreOK'
<1> SUFFICES ASSUME StoreOK, [CliNext]_cliVars PROVE StoreOK'
  OBVIOUS
<1>1. TypeInv'
  BY EngineTyped DEF StoreOK
<1>2. holds' \in [Content -> Content]
  <2>1. ASSUME NEW p \in Proc, At(p, "persist") PROVE call[p].hash \in Content
    BY <2>1, CliAssumption DEF StoreOK, TypeInv, LoadedCall, Loaded, At, CliAssumption
  <2> QED
    BY <2>1, HoldsMove DEF StoreOK
<1>3. apart' \in BOOLEAN
  BY ApartMoves DEF Watch, StoreOK
<1> QED
  BY <1>1, <1>2, <1>3 DEF StoreOK

\* While no add and removal have met in the window, the store is consistent.
ApartInv == apart => NoOverlap /\ Consistent

LEMMA ApartStep == StoreOK /\ ApartInv /\ [CliNext]_cliVars => ApartInv'
<1> SUFFICES ASSUME StoreOK, ApartInv, [CliNext]_cliVars, apart' PROVE NoOverlap' /\ Consistent'
  BY DEF ApartInv
<1>1. apart /\ NoOverlap /\ Consistent
  BY ApartMoves DEF Watch, ApartInv
<1>2. NoOverlap'
  <2>1. CASE Watch
    BY <2>1 DEF Watch
  <2>2. CASE Untouched
    BY <1>1, <2>2 DEF NoOverlap, Untouched
  <2> QED
    BY <2>1, <2>2, ApartMoves
<1>3. Consistent'
  <2>1. CASE Untouched
    BY <1>1, <2>1 DEF Consistent, NoDangling, Refs, Untouched
  <2>2. CASE [Next]_vars
    BY <1>1, <2>2, NextConsistent DEF StoreOK
  <2> QED
    BY <2>1, <2>2, EngineMoves
<1> QED
  BY <1>2, <1>3

LEMMA ApartInit == CliInit => StoreOK /\ ApartInv
<1> SUFFICES ASSUME CliInit PROVE StoreOK /\ ApartInv
  OBVIOUS
<1>1. Init /\ holds = [h \in Content |-> h] /\ apart = TRUE
  BY DEF CliInit
<1>2. TypeInv /\ Consistent
  BY <1>1, InitType, InitConsistent
<1>3. NoOverlap
  BY <1>1 DEF Init, NoCall, NoOverlap
<1> QED
  BY <1>1, <1>2, <1>3 DEF StoreOK, ApartInv

-----------------------------------------------------------------------------
(* The reader.                                                             *)

ReaderType == [inner : Seq(Data), hasher : Pieces, expected : Pieces, verified : BOOLEAN]

\* The first n bytes of c went through the hasher, the others are to be read.
ReadAt(r, c, n) == r.inner = SubSeq(c, n + 1, Len(c)) /\ r.hasher = SubSeq(c, 1, n)

LEMMA NewReads ==
  ASSUME NEW c \in Content, NEW h \in Content
  PROVE  /\ New(c, h) \in ReaderType /\ New(c, h).expected = h /\ ~New(c, h).verified
         /\ New(c, h).hasher = <<>> /\ ReadAt(New(c, h), c, 0)
<1>1. c \in Seq(Data) /\ c = SubSeq(c, 0 + 1, Len(c)) /\ <<>> = SubSeq(c, 1, 0)
  BY ContentIsData
<1>2. <<>> \in Pieces /\ h \in Pieces
  <2>1. h = SubSeq(h, 1, Len(h)) /\ Len(h) \in 0..Len(h)
    BY ContentIsData
  <2> QED
    BY <2>1, PiecesArePrefixes
<1> QED
  BY <1>1, <1>2 DEF New, ReadAt, ReaderType

LEMMA NoReaderTyped == NoReader \in ReaderType
<1>1. <<>> \in Pieces /\ <<>> \in Seq(Data)
  BY PiecesArePrefixes
<1> QED
  BY <1>1 DEF NoReader, New, ReaderType

\* A read hands the bytes it took to the hasher, and leaves the others.
LEMMA AdvanceReads ==
  ASSUME reader \in ReaderType, ~reader.verified,
         NEW c \in Content, NEW n \in 0..Len(c), ReadAt(reader, c, n),
         NEW m \in Buffer, NEW k \in Counts(m)
  PROVE  /\ n + k \in 0..Len(c)
         /\ reader.hasher \o Taken(k) = SubSeq(c, 1, n + k)
         /\ Advance(k) \in ReaderType /\ Advance(k).expected = reader.expected
         /\ k # 0 => /\ ~Advance(k).verified
                     /\ Advance(k).hasher = reader.hasher \o Taken(k)
                     /\ ReadAt(Advance(k), c, n + k)
<1> DEFINE rest == SubSeq(c, n + 1, Len(c))
<1>1. c \in Seq(Data) /\ Len(c) \in Nat /\ m \in Nat
  BY ContentIsData
<1>2. reader.inner = rest /\ reader.hasher = SubSeq(c, 1, n) /\ rest \in Seq(Data)
      /\ Len(rest) = Len(c) - n
  BY <1>1, CutAgain DEF ReadAt
<1>3. k \in 0..(Len(c) - n) /\ n + k \in 0..Len(c)
  <2>1. k \in Nat /\ k <= Len(rest)
    BY <1>1, <1>2 DEF Counts
  <2> QED
    BY <1>1, <1>2, <2>1
<1>4. /\ SubSeq(c, 1, n) \o SubSeq(rest, 1, k) = SubSeq(c, 1, n + k)
      /\ SubSeq(rest, k + 1, Len(rest)) = SubSeq(c, (n + k) + 1, Len(c))
  <2>1. n \in 0..Len(c) /\ k \in 0..(Len(c) - n)
    BY <1>3
  <2>2. SubSeq(c, 1, n) \o SubSeq(rest, 1, k) = SubSeq(c, 1, n + k)
    BY <1>1, <2>1, CutAgain
  <2>3. SubSeq(rest, k + 1, Len(rest)) = SubSeq(c, (n + k) + 1, Len(c))
    BY <1>1, <2>1, CutAgain
  <2> QED
    BY <2>2, <2>3
<1>5. SubSeq(c, (n + k) + 1, Len(c)) \in Seq(Data) /\ SubSeq(c, 1, n + k) \in Pieces
  BY <1>1, <1>3, CutAgain, PiecesArePrefixes
<1>6. CASE k = 0
  <2>1. Advance(k) = [reader EXCEPT !.verified = TRUE]
    BY <1>6 DEF Advance
  <2>2. Advance(k) \in ReaderType /\ Advance(k).expected = reader.expected
    BY <2>1 DEF ReaderType
  <2> HIDE DEF rest
  <2> QED
    BY <1>2, <1>3, <1>4, <1>6, <2>2 DEF Taken
<1>7. CASE k # 0
  <2> DEFINE i == SubSeq(c, (n + k) + 1, Len(c))
             h == SubSeq(c, 1, n + k)
  <2>1. Advance(k) = [reader EXCEPT !.inner = i, !.hasher = h]
    BY <1>2, <1>4, <1>7 DEF Advance, Taken
  <2>2. i \in Seq(Data) /\ h \in Pieces /\ h = reader.hasher \o Taken(k)
    BY <1>2, <1>4, <1>5 DEF Taken
  <2> HIDE DEF i, h
  <2>3. Advance(k).inner = i /\ Advance(k).hasher = h /\ ~Advance(k).verified
        /\ Advance(k) \in ReaderType /\ Advance(k).expected = reader.expected
    BY <2>1, <2>2 DEF ReaderType
  <2> QED
    BY <1>3, <1>7, <2>2, <2>3 DEF ReadAt, i, h
<1> QED
  BY <1>6, <1>7

-----------------------------------------------------------------------------
(* The command.                                                            *)

LEMMA NoCommandTyped == NoCommand \in Command
<1>1. <<>> \in Pieces
  BY PiecesArePrefixes
<1> QED
  BY <1>1 DEF NoCommand, Command

LEMMA ExitTyped ==
  ASSUME NEW c \in Command, NEW code \in {0, 1}, Exit(c, code)
  PROVE  /\ cmd' \in Command /\ cmd'.pc = "done"
         /\ cmd'.op = c.op /\ cmd'.hash = c.hash /\ cmd'.exit = code
<1>1. c.op \in {"none"} \cup Commands /\ c.hash \in Hash \cup {NoHash}
  BY DEF Command
<1>2. /\ NoCommand \in Command
      /\ cmd' = [NoCommand EXCEPT !.op = c.op, !.hash = c.hash, !.exit = code]
      /\ NoCommand.pc = "done"
  BY NoCommandTyped DEF Exit, NoCommand
<1> QED
  BY <1>1, <1>2 DEF Command

LEMMA BeginTyped ==
  ASSUME NEW op \in Commands
  PROVE  Begin(op) \in Command /\ Begin(op).op = op
BY NoCommandTyped DEF Begin, Command

LEMMA GettingTyped ==
  ASSUME "get" \in Commands, out \in Pieces, NEW h \in Content \cup {NoHash}
  PROVE  /\ Getting(h) \in Command /\ Getting(h).op = "get"
         /\ Getting(h).hash = h /\ Getting(h).before = out
<1>1. Begin("get") \in Command /\ Begin("get").op = "get"
  BY BeginTyped
<1>2. h \in Hash \cup {NoHash}
  BY CliAssumption DEF CliAssumption
<1> QED
  BY <1>1, <1>2 DEF Getting, Command

\* A command that waits for its engine call has exited or goes on waiting.
LEMMA AwaitTyped ==
  ASSUME NEW c \in Command, Await(c)
  PROVE  /\ cmd' \in Command /\ cmd'.pc \in {"call", "done"} /\ cmd'.op = c.op
         /\ cmd'.pc = "done" => cmd'.exit = 0
<1>1. CASE Exit(c, 0)
  BY <1>1, ExitTyped
<1>2. CASE cmd' = [c EXCEPT !.pc = "call"]
  BY <1>2 DEF Command
<1> QED
  BY <1>1, <1>2 DEF Await

-----------------------------------------------------------------------------
(* The inductive invariant: what a get in progress has written is what     *)
(* went through the hasher.                                                *)

\* A command that has its version looked up is a get.
Opening == cmd.pc \in {"open", "copy"} => cmd.op = "get" /\ cmd.hash \in Content

\* One that waits for its engine call is not.
Calling == cmd.pc = "call" => cmd.op # "get"

Counting == cmd.pc = "count" => cmd.op = "info"

Copying ==
  cmd.pc = "copy" =>
    /\ out = reader.hasher /\ reader.expected = cmd.hash /\ ~reader.verified
    /\ \E c \in Content : \E n \in 0..Len(c) : ReadAt(reader, c, n)

Typed == out \in Pieces /\ cmd \in Command /\ reader \in ReaderType

Doing == Opening /\ Calling /\ Counting /\ Copying /\ GetExact

CliInv == StoreOK /\ Typed /\ Doing

LEMMA CliInvInit == CliInit => CliInv
<1> SUFFICES ASSUME CliInit PROVE CliInv
  OBVIOUS
<1>1. StoreOK
  BY ApartInit
<1>2. out \in Pieces
  BY PiecesArePrefixes DEF CliInit
<1>3. cmd \in Command /\ reader \in ReaderType
  BY NoCommandTyped, NoReaderTyped DEF CliInit
<1>4. cmd.pc = "done" /\ cmd.op = "none"
  BY DEF CliInit, NoCommand
<1> QED
  BY <1>1, <1>2, <1>3, <1>4 DEF CliInv, Typed, Doing, Opening, Calling, Counting, Copying, GetExact

\* A command that exits without a get, or with 1, owes nothing.
LEMMA ExitKeeps ==
  ASSUME out' \in Pieces, reader' \in ReaderType,
         NEW c \in Command, NEW code \in {0, 1}, Exit(c, code),
         c.op = "get" /\ code = 0 => out' = c.hash
  PROVE  Typed' /\ Doing'
<1>1. cmd' \in Command /\ cmd'.pc = "done" /\ cmd'.op = c.op /\ cmd'.hash = c.hash /\ cmd'.exit = code
  BY ExitTyped
<1> QED
  BY <1>1 DEF Typed, Doing, Opening, Calling, Counting, Copying, GetExact

\* Nor does one that begins an engine call or goes on with it.
LEMMA AwaitKeeps ==
  ASSUME Typed, UNCHANGED <<out, reader>>, NEW c \in Command, c.op # "get", Await(c)
  PROVE  Typed' /\ Doing'
<1>1. cmd' \in Command /\ cmd'.pc \in {"call", "done"} /\ cmd'.op # "get"
  BY AwaitTyped
<1> QED
  BY <1>1 DEF Typed, Doing, Opening, Calling, Counting, Copying, GetExact

LEMMA CallKeeps ==
  ASSUME CliInv, CmdAdd \/ CmdRemove \/ CmdTrim \/ CallStep \/ CallFails
  PROVE  Typed' /\ Doing'
<1>0. Typed /\ cmd \in Command /\ UNCHANGED <<out, reader>> /\ out' \in Pieces /\ reader' \in ReaderType
  BY DEF CliInv, Typed, CmdAdd, CmdRemove, CmdTrim, CallStep, CallFails
<1>1. ASSUME NEW op \in {"add", "remove", "trim"}, op \in Commands,
             Exit(Begin(op), 1) \/ Await(Begin(op))
      PROVE  Typed' /\ Doing'
  <2>1. Begin(op) \in Command /\ Begin(op).op # "get"
    BY <1>1, BeginTyped
  <2> QED
    BY <1>0, <1>1, <2>1, ExitKeeps, AwaitKeeps
<1>2. CASE CmdAdd \/ CmdRemove \/ CmdTrim
  BY <1>1, <1>2 DEF CmdAdd, CmdRemove, CmdTrim, Prompt, Refused
<1>3. CASE CallStep \/ CallFails
  <2>1. cmd.op # "get" /\ (Await(cmd) \/ Exit(cmd, 1))
    BY <1>3 DEF CallStep, CallFails, CliInv, Doing, Calling
  <2> QED
    BY <1>0, <2>1, ExitKeeps, AwaitKeeps
<1> QED
  BY <1>2, <1>3

\* A get whose version is found.
LEMMA GettingKeeps ==
  ASSUME Typed, NEW h \in Content, "get" \in Commands, UNCHANGED <<out, reader>>,
         cmd' = [Getting(h) EXCEPT !.pc = "open"]
  PROVE  /\ Typed' /\ Doing'
         /\ cmd'.pc = "open" /\ cmd'.before = out'
<1>1. Getting(h) \in Command /\ Getting(h).op = "get" /\ Getting(h).hash = h /\ Getting(h).before = out
  BY GettingTyped DEF Typed
<1>2. cmd' \in Command /\ cmd'.pc = "open" /\ cmd'.op = "get" /\ cmd'.hash = h /\ cmd'.before = out
  BY <1>1 DEF Command
<1> QED
  BY <1>2 DEF Typed, Doing, Opening, Calling, Counting, Copying, GetExact

\* Every command that asks for a version either finds a content or exits.
LEMMA Looked ==
  ASSUME CliInv, NEW x, CmdGet(x) \/ (x \in Content /\ CmdGetHash(x))
  PROVE  /\ "get" \in Commands /\ UNCHANGED <<out, reader>> /\ Getting(NoHash) \in Command
         /\ \/ Exit(Getting(NoHash), 1)
            \/ \E h \in Content : cmd' = [Getting(h) EXCEPT !.pc = "open"]
<1>1. "get" \in Commands /\ UNCHANGED <<out, reader>> /\ out \in Pieces
  BY DEF CmdGet, CmdGetHash, Prompt, CliInv, Typed
<1>2. Getting(NoHash) \in Command
  BY <1>1, GettingTyped
<1>3. \A r \in rows : r.hash \in Content
  BY CliAssumption DEF CliInv, StoreOK, TypeInv, TypeOK, Row, CliAssumption
<1>4. \A r \in Latest(x) : r \in rows
  BY DEF Latest, RowsOf
<1> QED
  BY <1>1, <1>2, <1>3, <1>4 DEF CmdGet, CmdGetHash

LEMMA LookKeeps ==
  ASSUME CliInv, NEW x, CmdGet(x) \/ (x \in Content /\ CmdGetHash(x))
  PROVE  Typed' /\ Doing'
<1>1. Typed /\ out' \in Pieces /\ reader' \in ReaderType
  BY Looked DEF CliInv, Typed
<1>2. CASE Exit(Getting(NoHash), 1)
  BY <1>1, <1>2, Looked, ExitKeeps
<1>3. ASSUME NEW h \in Content, cmd' = [Getting(h) EXCEPT !.pc = "open"] PROVE Typed' /\ Doing'
  BY <1>1, <1>3, Looked, GettingKeeps
<1> QED
  BY <1>2, <1>3, Looked

\* Opening a file for a get starts its reader at the first byte of what it holds.
LEMMA OpenBegins ==
  ASSUME CliInv, Open
  PROVE  /\ cmd.hash \in Content /\ cmd.op = "get"
         /\ \/ Exit(cmd, 1) /\ UNCHANGED <<out, reader>> /\ (cmd.hash \notin blobs \/ Fails)
            \/ /\ cmd' \in Command /\ cmd'.pc = "copy" /\ cmd'.op = "get" /\ cmd'.hash = cmd.hash
               /\ reader' \in ReaderType /\ reader'.expected = cmd.hash /\ ~reader'.verified
               /\ reader'.hasher = <<>> /\ out' = <<>>
               /\ holds[cmd.hash] \in Content /\ ReadAt(reader', holds[cmd.hash], 0)
               /\ 0 \in 0..Len(holds[cmd.hash])
<1>1. cmd.hash \in Content /\ cmd.op = "get" /\ cmd \in Command /\ holds[cmd.hash] \in Content
  BY DEF Open, CliInv, StoreOK, Typed, Doing, Opening
<1>2. CASE Exit(cmd, 1) /\ UNCHANGED <<out, reader>> /\ (cmd.hash \notin blobs \/ Fails)
  BY <1>1, <1>2
<1>3. CASE cmd' = [cmd EXCEPT !.pc = "copy"] /\ reader' = New(holds[cmd.hash], cmd.hash) /\ out' = <<>>
  <2>1. cmd' \in Command /\ cmd'.pc = "copy" /\ cmd'.op = "get" /\ cmd'.hash = cmd.hash
    BY <1>1, <1>3 DEF Command
  <2>2. /\ reader' \in ReaderType /\ reader'.expected = cmd.hash /\ ~reader'.verified
        /\ reader'.hasher = <<>> /\ ReadAt(reader', holds[cmd.hash], 0)
    BY <1>1, <1>3, NewReads
  <2>3. 0 \in 0..Len(holds[cmd.hash])
    BY <1>1, ContentIsData
  <2> QED
    BY <1>1, <1>3, <2>1, <2>2, <2>3
<1> QED
  BY <1>2, <1>3 DEF Open

LEMMA OpenKeeps ==
  ASSUME CliInv, Open
  PROVE  Typed' /\ Doing'
<1>1. CASE Exit(cmd, 1) /\ UNCHANGED <<out, reader>>
  BY <1>1, ExitKeeps DEF CliInv, Typed
<1>2. CASE /\ cmd' \in Command /\ cmd'.pc = "copy" /\ cmd'.op = "get" /\ cmd'.hash = cmd.hash
           /\ reader' \in ReaderType /\ reader'.expected = cmd.hash /\ ~reader'.verified
           /\ reader'.hasher = <<>> /\ out' = <<>> /\ cmd.hash \in Content
           /\ holds[cmd.hash] \in Content /\ ReadAt(reader', holds[cmd.hash], 0)
           /\ 0 \in 0..Len(holds[cmd.hash])
  <2>1. \E c \in Content : \E n \in 0..Len(c) : ReadAt(reader', c, n)
    BY <1>2
  <2>2. Copying'
    BY <1>2, <2>1 DEF Copying, ReadAt
  <2>3. out' \in Pieces
    BY <1>2, PiecesArePrefixes
  <2> QED
    BY <1>2, <2>2, <2>3 DEF Typed, Doing, Opening, Calling, Counting, GetExact
<1> QED
  BY <1>1, <1>2, OpenBegins

\* A read passes on what it takes; the one that ends a copy finds that all of
\* the content has been written.
LEMMA CopyKeeps ==
  ASSUME CliInv, Copy
  PROVE  Typed' /\ Doing'
<1>1. /\ cmd.pc = "copy" /\ cmd.op = "get" /\ cmd.hash \in Content
      /\ out = reader.hasher /\ reader.expected = cmd.hash /\ ~reader.verified
      /\ out \in Pieces /\ cmd \in Command /\ reader \in ReaderType
  BY DEF Copy, CliInv, Typed, Doing, Opening, Copying
<1>2. PICK c \in Content : \E n \in 0..Len(c) : ReadAt(reader, c, n)
  BY <1>1 DEF CliInv, Doing, Copying
<1>3. PICK n \in 0..Len(c) : ReadAt(reader, c, n)
  BY <1>2
<1>4. PICK m \in Buffer : \E k \in Counts(m) :
            IF Mismatch(k)
            THEN Exit(cmd, 1) /\ reader' = NoReader /\ UNCHANGED out
            ELSE /\ reader' = Advance(k) /\ out' = out \o Taken(k)
                 /\ IF k = 0 THEN Exit(cmd, 0) ELSE UNCHANGED cmd
  BY DEF Copy
<1>5. PICK k \in Counts(m) :
            IF Mismatch(k)
            THEN Exit(cmd, 1) /\ reader' = NoReader /\ UNCHANGED out
            ELSE /\ reader' = Advance(k) /\ out' = out \o Taken(k)
                 /\ IF k = 0 THEN Exit(cmd, 0) ELSE UNCHANGED cmd
  BY <1>4
<1>6. CASE Mismatch(k)
  BY <1>1, <1>5, <1>6, NoReaderTyped, ExitKeeps
<1>7. CASE ~Mismatch(k)
  <2>1. /\ n + k \in 0..Len(c) /\ out' = SubSeq(c, 1, n + k)
        /\ reader' \in ReaderType /\ reader'.expected = cmd.hash
        /\ k # 0 => /\ ~reader'.verified /\ reader'.hasher = out'
                    /\ ReadAt(reader', c, n + k)
    BY <1>1, <1>3, <1>5, <1>7, AdvanceReads
  <2>2. out' \in Pieces
    BY <2>1, PiecesArePrefixes
  <2>3. CASE k = 0
    <3>1. out = cmd.hash
      BY <1>1, <1>7, <2>3 DEF Mismatch
    <3>2. out' = out
      <4>1. n + k = n
        BY <2>3
      <4> QED
        BY <1>1, <1>3, <2>1, <4>1 DEF ReadAt
    <3> QED
      BY <1>1, <1>5, <1>7, <2>1, <2>2, <2>3, <3>1, <3>2, ExitKeeps
  <2>4. CASE k # 0
    <3>1. UNCHANGED cmd
      BY <1>5, <1>7, <2>4
    <3>2. Copying'
      BY <2>1, <2>4, <3>1 DEF Copying, ReadAt
    <3> QED
      BY <1>1, <2>1, <2>2, <3>1, <3>2 DEF Typed, Doing, Opening, Calling, Counting, GetExact
  <2> QED
    BY <2>3, <2>4
<1> QED
  BY <1>6, <1>7

\* One path is counted, or left out when its count fails, or the count ends.
LEMMA CountMoves ==
  ASSUME CliInv, CountVersions
  PROVE  /\ cmd.pc = "count" /\ UNCHANGED store /\ UNCHANGED <<out, reader>>
         /\ \/ cmd.todo = {} /\ Exit(cmd, 0) /\ Works
            \/ \E x \in cmd.todo : \E n \in {0, Cardinality(RowsOf(x))} :
                 /\ n \in Nat /\ ((n = Cardinality(RowsOf(x)) /\ Works) \/ (n = 0 /\ Fails))
                 /\ cmd' = [cmd EXCEPT !.todo = @ \ {x}, !.total = @ + n]
<1>1. cmd.pc = "count" /\ UNCHANGED store /\ UNCHANGED <<out, reader>> /\ cmd \in Command /\ cmd.total \in Nat
  BY DEF CountVersions, CliInv, Typed, Command
<1>2. ASSUME NEW x, cmd' = [cmd EXCEPT !.todo = @ \ {x}]
      PROVE  cmd' = [cmd EXCEPT !.todo = @ \ {x}, !.total = @ + 0]
  <2>1. cmd.total + 0 = cmd.total
    BY <1>1
  <2> QED
    BY <1>1, <1>2, <2>1 DEF Command
<1>3. ASSUME NEW x PROVE Cardinality(RowsOf(x)) \in Nat
  BY RowsOfFinite, FS_CardinalityType DEF CliInv, StoreOK
<1>4. CASE cmd.todo = {} /\ Exit(cmd, 0) /\ Works
  BY <1>1, <1>4
<1>5. ASSUME NEW x \in cmd.todo, Works,
             cmd' = [cmd EXCEPT !.todo = @ \ {x}, !.total = @ + Cardinality(RowsOf(x))]
      PROVE  \E n \in {0, Cardinality(RowsOf(x))} :
                 /\ n \in Nat /\ ((n = Cardinality(RowsOf(x)) /\ Works) \/ (n = 0 /\ Fails))
                 /\ cmd' = [cmd EXCEPT !.todo = @ \ {x}, !.total = @ + n]
  BY <1>3, <1>5
<1>6. ASSUME NEW x \in cmd.todo, Fails, cmd' = [cmd EXCEPT !.todo = @ \ {x}]
      PROVE  \E n \in {0, Cardinality(RowsOf(x))} :
                 /\ n \in Nat /\ ((n = Cardinality(RowsOf(x)) /\ Works) \/ (n = 0 /\ Fails))
                 /\ cmd' = [cmd EXCEPT !.todo = @ \ {x}, !.total = @ + n]
  BY <1>2, <1>6
<1>7. \/ cmd.todo = {} /\ Exit(cmd, 0) /\ Works
      \/ \E x \in cmd.todo :
           \/ cmd' = [cmd EXCEPT !.todo = @ \ {x}, !.total = @ + Cardinality(RowsOf(x))] /\ Works
           \/ cmd' = [cmd EXCEPT !.todo = @ \ {x}] /\ Fails
  BY DEF CountVersions
<1> QED
  BY <1>1, <1>4, <1>5, <1>6, <1>7

LEMMA CountKeeps ==
  ASSUME CliInv, CountVersions
  PROVE  Typed' /\ Doing'
<1>1. cmd.pc = "count" /\ cmd.op = "info" /\ out' \in Pieces /\ reader' \in ReaderType /\ cmd \in Command
  BY CountMoves DEF CliInv, Typed, Doing, Counting
<1>2. CASE Exit(cmd, 0)
  BY <1>1, <1>2, ExitKeeps
<1>3. ASSUME NEW x \in cmd.todo, NEW n \in Nat, cmd' = [cmd EXCEPT !.todo = @ \ {x}, !.total = @ + n]
      PROVE  Typed' /\ Doing'
  <2>1. cmd.todo \ {x} \in SUBSET Path /\ cmd.total + n \in Nat
    BY <1>1 DEF Command
  <2>2. cmd' \in Command /\ cmd'.pc = "count" /\ cmd'.op = "info"
    BY <1>1, <1>3, <2>1 DEF Command
  <2> QED
    BY <1>1, <2>2 DEF Typed, Doing, Opening, Calling, Counting, Copying, GetExact
<1> QED
  BY <1>2, <1>3, CountMoves

\* What others do leaves the command alone but for the rows that it has met.
LEMMA OthersKeep ==
  ASSUME CliInv, StoreOK', Observe, UNCHANGED <<out, reader>>
  PROVE  Typed' /\ Doing'
<1>1. rows' \in SUBSET Row
  BY DEF StoreOK, TypeInv, TypeOK, Row
<1>2. /\ cmd' \in Command
      /\ \A f \in {"op", "pc", "hash", "exit"} : cmd'[f] = cmd[f]
  <2>1. CASE UNCHANGED cmd
    BY <2>1 DEF CliInv, Typed
  <2>2. CASE cmd' = [cmd EXCEPT !.stayed = @ \cap rows', !.met = @ \cup rows']
    <3>1. cmd.stayed \cap rows' \in SUBSET Row /\ cmd.met \cup rows' \in SUBSET Row
      BY <1>1 DEF CliInv, Typed, Command
    <3> QED
      BY <2>2, <3>1 DEF CliInv, Typed, Command
  <2> QED
    BY <2>1, <2>2 DEF Observe
<1>3. cmd'.op = cmd.op /\ cmd'.pc = cmd.pc /\ cmd'.hash = cmd.hash /\ cmd'.exit = cmd.exit
  BY <1>2 DEF CliInv, Typed, Command
<1> QED
  BY <1>2, <1>3 DEF CliInv, Typed, Doing, Opening, Calling, Counting, Copying, GetExact, ReadAt

LEMMA CliInvStep == CliInv /\ [CliNext]_cliVars => CliInv'
<1> SUFFICES ASSUME CliInv, [CliNext]_cliVars PROVE Typed' /\ Doing'
  BY StoreStep DEF CliInv
<1>0. StoreOK' /\ Typed /\ out \in Pieces /\ cmd \in Command /\ reader \in ReaderType
  BY StoreStep DEF CliInv, Typed
<1>1. CASE CmdAdd \/ CmdRemove \/ CmdTrim \/ CallStep \/ CallFails
  BY <1>1, CallKeeps
<1>2. ASSUME NEW f, CmdList(f) PROVE Typed' /\ Doing'
  <2>1. /\ "list" \in Commands /\ UNCHANGED <<out, reader>>
        /\ Exit(Begin("list"), 0) \/ Exit(Begin("list"), 1)
    BY <1>2 DEF CmdList, Prompt
  <2>2. Begin("list") \in Command /\ Begin("list").op = "list"
    BY <2>1, BeginTyped
  <2> QED
    BY <1>0, <2>1, <2>2, ExitKeeps
<1>3. ASSUME NEW x, CmdGet(x) \/ (x \in Content /\ CmdGetHash(x)) PROVE Typed' /\ Doing'
  BY <1>3, LookKeeps
<1>4. CASE CmdInfo
  <2>1. "info" \in Commands /\ UNCHANGED <<out, reader>>
    BY <1>4 DEF CmdInfo, Prompt
  <2>2. Begin("info") \in Command /\ Begin("info").op = "info"
    BY <2>1, BeginTyped
  <2>3. rows \in SUBSET Row /\ {r.path : r \in rows} \in SUBSET Path
    BY DEF CliInv, StoreOK, TypeInv, TypeOK, Row
  <2>4. cmd' \in Command /\ cmd'.op = "info" /\ cmd'.pc = "count"
    BY <1>4, <2>2, <2>3 DEF CmdInfo, Command
  <2> QED
    BY <1>0, <2>1, <2>4 DEF Typed, Doing, Opening, Calling, Counting, Copying, GetExact
<1>5. CASE Open
  BY <1>5, OpenKeeps
<1>6. CASE Copy
  BY <1>6, CopyKeeps
<1>7. CASE CopyFails
  <2>1. UNCHANGED out /\ reader' \in ReaderType /\ Exit(cmd, 1)
    BY <1>7, NoReaderTyped DEF CopyFails
  <2> QED
    BY <1>0, <2>1, ExitKeeps
<1>8. CASE CountVersions
  BY <1>8, CountKeeps
<1>9. CASE \E p \in Proc \ {User} : OtherProcess(p)
  BY <1>0, <1>9, OthersKeep DEF OtherProcess
<1>10. ASSUME UNCHANGED <<out, cmd, reader>> PROVE Typed' /\ Doing'
  BY <1>10 DEF CliInv, Typed, Doing, Opening, Calling, Counting, Copying, GetExact, ReadAt
<1>11. CASE Damage \/ UNCHANGED cliVars
  BY <1>10, <1>11 DEF Damage, cliVars
<1> QED
  BY <1>1, <1>2, <1>3, <1>4, <1>5, <1>6, <1>7, <1>8, <1>9, <1>11 DEF CliNext, CmdStart, CmdStep

LEMMA CliInvariant == CliSpec => []CliInv
BY CliInvInit, CliInvStep, PTL DEF CliSpec

\* Whatever runs beside it and whatever becomes of the store, a get that exits
\* with 0 has written exactly the content that it found: for every content and
\* every way in which reads are cut.
THEOREM GetWritesTheContent == CliSpec => []GetExact
<1>1. CliInv => GetExact
  BY DEF CliInv, Doing
<1> QED
  BY <1>1, CliInvariant, PTL

\* Every reachable state of the command line has the declared types: the
\* user's file always holds the beginning of some content.
THEOREM CliTypeCorrect == CliSpec => []CliTypeOK
<1>1. CliInv => CliTypeOK
  BY DEF CliInv, StoreOK, TypeInv, Typed, CliTypeOK, ReaderType, Data
<1> QED
  BY <1>1, CliInvariant, PTL

-----------------------------------------------------------------------------
(* When a get may fail.                                                    *)

\* Every file holds the content of its hash.
StoreIntact == \A h \in Content : holds[h] = h

\* A get has not touched the user's file yet, or is reading the content.
GetIntact ==
  /\ cmd.pc = "open" => out = cmd.before
  /\ cmd.pc = "copy" => \E n \in 0..Len(cmd.hash) : ReadAt(reader, cmd.hash, n)

Intact == faults = 0 => StoreIntact /\ GetIntact

LEMMA IntactInit == CliInit => Intact
BY DEF CliInit, Intact, StoreIntact, GetIntact, NoCommand

\* A failure is counted and never taken back.
LEMMA FaultsRise ==
  ASSUME StoreOK, [CliNext]_cliVars, faults' = 0
  PROVE  faults = 0 /\ ~Fails /\ ~CallFails /\ \A p \in Proc : ~Interrupt(p)
<1>0. faults \in Nat
  BY BoundAssumption DEF StoreOK, TypeInv, TypeOK
<1>1. ~Fails /\ (Works => faults = 0)
  BY <1>0 DEF Fails, Works
<1>2. \A p \in Proc : ~Interrupt(p)
  BY <1>0 DEF Interrupt
<1>3. ~CallFails
  BY <1>2, CliAssumption DEF CallFails, CliAssumption
<1>4. ASSUME NEW p \in Proc, Start(p) \/ Step(p) PROVE UNCHANGED faults
  BY <1>4 DEF Start, Step, AddReader, Persist, NowV7, InsertEntries, RemovePath, SelectHashes,
     RemoveVersion, RemoveFolder, RemoveNext, DeleteAll, TrimPath, TrimDelete, Count, Unlink,
     GetLatest, OpenBlob, GetReaderByHash, StatBlob, StatCount
<1>5. [Next]_vars => UNCHANGED faults
  BY <1>2, <1>4 DEF Next, vars
<1> QED
  BY <1>1, <1>2, <1>3, <1>5, EngineMoves

LEMMA ExitIntact ==
  ASSUME NEW c \in Command, NEW code \in {0, 1}, Exit(c, code)
  PROVE  GetIntact'
<1>1. cmd'.pc = "done"
  BY ExitTyped
<1> QED
  BY <1>1 DEF GetIntact

\* A get of an intact file finds no mismatch, unless it reads with a buffer
\* that has no room.
LEMMA NoMismatch ==
  ASSUME CliInv, Intact, faults = 0, cmd.pc = "copy", 0 \notin Buffer,
         NEW m \in Buffer, NEW k \in Counts(m)
  PROVE  ~Mismatch(k)
<1>1. PICK n \in 0..Len(cmd.hash) : ReadAt(reader, cmd.hash, n)
  BY DEF Intact, GetIntact
<1>2. cmd.hash \in Seq(Data) /\ reader.expected = cmd.hash
  BY ContentIsData DEF CliInv, Doing, Opening, Copying
<1>3. Len(reader.inner) = Len(cmd.hash) - n
  BY <1>1, <1>2, CutAgain DEF ReadAt
<1>4. CASE k = 0
  <2>1. m # 0 /\ reader.inner = <<>>
    BY <1>4 DEF Counts
  <2>2. n = Len(cmd.hash)
    BY <1>2, <1>3, <2>1
  <2>3. reader.hasher = cmd.hash
    BY <1>1, <1>2, <2>2 DEF ReadAt
  <2> QED
    BY <1>2, <2>3 DEF Mismatch
<1> QED
  BY <1>4 DEF Mismatch

\* A step of the copy takes the reader from one place in the content to the
\* A step of the copy takes the reader from one place in the content to the
\* next, or the command exits with 0.
LEMMA CopyIntact ==
  ASSUME CliInv, Intact, faults = 0, 0 \notin Buffer, Copy
  PROVE  GetIntact' /\ (cmd'.pc = "done" => cmd'.exit = 0)
<1>0. cmd.pc = "copy" /\ cmd \in Command /\ reader \in ReaderType /\ ~reader.verified /\ cmd.hash \in Content
  BY DEF Copy, CliInv, Typed, Doing, Copying, Opening
<1>1. PICK n \in 0..Len(cmd.hash) : ReadAt(reader, cmd.hash, n)
  BY <1>0 DEF Intact, GetIntact
<1>2. PICK m \in Buffer : \E k \in Counts(m) :
            IF Mismatch(k)
            THEN Exit(cmd, 1) /\ reader' = NoReader /\ UNCHANGED out
            ELSE /\ reader' = Advance(k) /\ out' = out \o Taken(k)
                 /\ IF k = 0 THEN Exit(cmd, 0) ELSE UNCHANGED cmd
  BY DEF Copy
<1>3. PICK k \in Counts(m) :
            IF Mismatch(k)
            THEN Exit(cmd, 1) /\ reader' = NoReader /\ UNCHANGED out
            ELSE /\ reader' = Advance(k) /\ out' = out \o Taken(k)
                 /\ IF k = 0 THEN Exit(cmd, 0) ELSE UNCHANGED cmd
  BY <1>2
<1>4. ~Mismatch(k)
  BY <1>0, NoMismatch
<1>5. CASE k = 0
  <2>1. Exit(cmd, 0)
    BY <1>3, <1>4, <1>5
  <2> QED
    BY <1>0, <2>1, ExitIntact, ExitTyped
<1>6. CASE k # 0
  <2>1. reader' = Advance(k) /\ UNCHANGED cmd
    BY <1>3, <1>4, <1>6
  <2>2. n + k \in 0..Len(cmd.hash) /\ ReadAt(reader', cmd.hash, n + k)
    BY <1>0, <1>1, <1>6, <2>1, AdvanceReads
  <2>3. \E i \in 0..Len(cmd'.hash) : ReadAt(reader', cmd'.hash, i)
    BY <2>1, <2>2
  <2> QED
    BY <1>0, <2>1, <2>3 DEF GetIntact, ReadAt
<1> QED
  BY <1>5, <1>6

LEMMA IntactStep ==
  ASSUME 0 \notin Buffer, CliInv, Intact, [CliNext]_cliVars
  PROVE  Intact'
<1> SUFFICES ASSUME faults' = 0 PROVE StoreIntact' /\ GetIntact'
  BY DEF Intact
<1>0. faults = 0 /\ ~Fails /\ ~CallFails /\ cmd \in Command /\ Typed
  BY FaultsRise DEF CliInv, Typed
<1>1. StoreIntact /\ GetIntact
  BY <1>0 DEF Intact
<1>2. StoreIntact'
  <2>1. DOMAIN holds = Content
    BY DEF CliInv, StoreOK
  <2> QED
    BY <1>0, <1>1, <2>1, HoldsMove DEF StoreIntact
<1> SUFFICES GetIntact'
  BY <1>2
<1>3. ASSUME NEW op \in Commands, NEW code \in {0, 1}, Exit(Begin(op), code) PROVE GetIntact'
  BY <1>3, BeginTyped, ExitIntact
<1>4. ASSUME NEW c \in Command, Await(c) PROVE GetIntact'
  <2>1. cmd'.pc \in {"call", "done"}
    BY <1>4, AwaitTyped
  <2> QED
    BY <2>1 DEF GetIntact
<1>5. ASSUME NEW op \in Commands, Await(Begin(op)) PROVE GetIntact'
  BY <1>4, <1>5, BeginTyped
<1>6. CASE CmdAdd \/ CmdRemove \/ CmdTrim
  BY <1>3, <1>5, <1>6 DEF CmdAdd, CmdRemove, CmdTrim, Prompt, Refused
<1>7. CASE CallStep
  BY <1>0, <1>4, <1>7 DEF CallStep
<1>8. ASSUME NEW f, CmdList(f) PROVE GetIntact'
  BY <1>3, <1>8 DEF CmdList, Prompt
<1>9. ASSUME NEW x, CmdGet(x) \/ (x \in Content /\ CmdGetHash(x)) PROVE GetIntact'
  <2>1. CASE Exit(Getting(NoHash), 1)
    BY <1>9, <2>1, Looked, ExitIntact
  <2>2. ASSUME NEW h \in Content, cmd' = [Getting(h) EXCEPT !.pc = "open"] PROVE GetIntact'
    <3>1. cmd'.pc = "open" /\ cmd'.before = out'
      BY <1>0, <1>9, <2>2, Looked, GettingKeeps
    <3> QED
      BY <3>1 DEF GetIntact
  <2> QED
    BY <1>9, <2>1, <2>2, Looked
<1>10. CASE CmdInfo
  <2>1. Begin("info") \in Command
    BY <1>10, BeginTyped DEF CmdInfo, Prompt
  <2>2. cmd'.pc = "count"
    BY <1>10, <2>1 DEF CmdInfo, Command
  <2> QED
    BY <2>2 DEF GetIntact
<1>11. CASE Open
  <2>1. CASE Exit(cmd, 1)
    BY <1>0, <2>1, ExitIntact
  <2>2. CASE /\ cmd'.pc = "copy" /\ cmd'.hash = cmd.hash /\ cmd.hash \in Content
             /\ ReadAt(reader', holds[cmd.hash], 0) /\ 0 \in 0..Len(holds[cmd.hash])
    <3>1. holds[cmd.hash] = cmd'.hash
      BY <1>1, <2>2 DEF StoreIntact
    <3>2. \E n \in 0..Len(cmd'.hash) : ReadAt(reader', cmd'.hash, n)
      BY <2>2, <3>1
    <3> QED
      BY <2>2, <3>2 DEF GetIntact, ReadAt
  <2> QED
    BY <1>11, <2>1, <2>2, OpenBegins
<1>12. CASE Copy
  BY <1>0, <1>12, CopyIntact
<1>13. CASE CountVersions
  <2>1. CASE Exit(cmd, 0)
    BY <1>0, <2>1, ExitIntact
  <2>2. ASSUME NEW x, NEW n, cmd.pc = "count", cmd' = [cmd EXCEPT !.todo = x, !.total = n]
        PROVE  GetIntact'
    <3>1. cmd'.pc = "count"
      BY <1>0, <2>2 DEF Command
    <3> QED
      BY <3>1 DEF GetIntact
  <2> QED
    BY <1>13, <2>1, <2>2, CountMoves
<1>14. ASSUME UNCHANGED <<out, reader>>,
              cmd'.pc = cmd.pc, cmd'.hash = cmd.hash, cmd'.before = cmd.before
       PROVE  GetIntact'
  BY <1>1, <1>14 DEF GetIntact, ReadAt
<1>15. CASE \E p \in Proc \ {User} : OtherProcess(p)
  <2>1. cmd'.pc = cmd.pc /\ cmd'.hash = cmd.hash /\ cmd'.before = cmd.before
    BY <1>0, <1>15 DEF OtherProcess, Observe, Command
  <2> QED
    BY <1>14, <1>15, <2>1 DEF OtherProcess
<1>16. CASE UNCHANGED cliVars
  BY <1>14, <1>16 DEF cliVars
<1>17. ~CopyFails /\ ~Damage
  BY <1>0 DEF CopyFails, Damage
<1> QED
  BY <1>0, <1>6, <1>7, <1>8, <1>9, <1>10, <1>11, <1>12, <1>13, <1>15, <1>16, <1>17
     DEF CliNext, CmdStart, CmdStep

LEMMA FailureMeansGone ==
  ASSUME 0 \notin Buffer, CliInv, ApartInv, Intact, [CliNext]_cliVars,
         cmd.pc \in {"open", "copy"}, cmd'.pc = "done", cmd'.exit = 1, apart, faults' = 0
  PROVE  out' = cmd.before /\ ~\E r \in rows : r.hash = cmd.hash
<1>0. /\ faults = 0 /\ ~Fails /\ ~CallFails /\ cmd \in Command
      /\ cmd.pc # "done" /\ cmd.pc # "count" /\ cmd.pc # "call"
  BY FaultsRise DEF CliInv, Typed
<1>1. ~CmdStart
  BY <1>0 DEF CmdStart, CmdAdd, CmdRemove, CmdTrim, CmdList, CmdGet, CmdGetHash, CmdInfo, Prompt
<1>2. ~CallStep /\ ~CopyFails /\ ~Damage /\ ~CountVersions
  BY <1>0 DEF CallStep, CopyFails, Damage, CountVersions
<1>3. ~UNCHANGED cliVars /\ ~\E p \in Proc \ {User} : OtherProcess(p)
  BY <1>0 DEF cliVars, OtherProcess, Observe
<1>4. CASE Copy
  BY <1>0, <1>4, CopyIntact
<1>5. CASE Open
  <2>1. cmd.hash \notin blobs /\ UNCHANGED out
    BY <1>0, <1>5, OpenBegins
  <2>2. out = cmd.before
    BY <1>0, <1>5 DEF Open, Intact, GetIntact
  <2>3. \A r \in rows : r.hash \in blobs
    BY DEF ApartInv, Consistent, NoDangling
  <2> QED
    BY <2>1, <2>2, <2>3
<1> QED
  BY <1>0, <1>1, <1>2, <1>3, <1>4, <1>5 DEF CliNext, CmdStep

\* Unless a buffer has no room, which no caller's has: as long as no add and
\* removal have met in the window of NoOverlap, no file was damaged and none
\* failed, a get that exits with 1 found that its version is gone, and has left
\* the user's file alone, whatever statements of others came between its own.
THEOREM GetFailsOnlyWhenVersionGone ==
  ASSUME 0 \notin Buffer
  PROVE  CliSpec => GetFailsOnlyWhenGone
<1>1. CliInit => ApartInv
  BY ApartInit
<1>2. CliInv /\ ApartInv /\ [CliNext]_cliVars => ApartInv'
  BY ApartStep DEF CliInv
<1>3. CliInv /\ Intact /\ [CliNext]_cliVars => Intact'
  BY IntactStep
<1>4. CliInv /\ ApartInv /\ Intact /\ [CliNext]_cliVars =>
        [/\ cmd.pc \in {"open", "copy"} /\ cmd'.pc = "done" /\ cmd'.exit = 1
         /\ apart /\ faults' = 0
         => out' = cmd.before /\ ~\E r \in rows : r.hash = cmd.hash]_cliVars
  BY FailureMeansGone
<1> QED
  BY <1>1, <1>2, <1>3, <1>4, IntactInit, CliInvariant, PTL DEF CliSpec, GetFailsOnlyWhenGone

-----------------------------------------------------------------------------
(* What info may count.                                                    *)

\* The rows of R whose path is counted, and those of one path.
Counted(R, todo) == {r \in R : r.path \notin todo}
With(R, x) == {r \in R : r.path = x}

\* Of the paths that are counted, the rows that have stayed are among those that
\* were counted, and these among the rows that have been met.
Tallied ==
  cmd.pc = "count" =>
    /\ IsFiniteSet(cmd.met) /\ cmd.stayed \subseteq rows /\ rows \subseteq cmd.met
    /\ faults = 0 => Cardinality(Counted(cmd.stayed, cmd.todo)) <= cmd.total
    /\ cmd.total <= Cardinality(Counted(cmd.met, cmd.todo))

\* A smaller set has no more rows that are counted.
LEMMA CountedGrows ==
  ASSUME NEW S, IsFiniteSet(S), NEW R \in SUBSET S, NEW todo
  PROVE  /\ Cardinality(Counted(R, todo)) \in Nat /\ Cardinality(Counted(S, todo)) \in Nat
         /\ Cardinality(Counted(R, todo)) <= Cardinality(Counted(S, todo))
<1>1. Counted(R, todo) \in SUBSET Counted(S, todo) /\ Counted(S, todo) \in SUBSET S
  BY DEF Counted
<1>2. IsFiniteSet(Counted(S, todo)) /\ IsFiniteSet(Counted(R, todo))
  BY <1>1, FS_Subset
<1> QED
  BY <1>1, <1>2, FS_Subset, FS_CardinalityType

\* Whatever others do to the rows, the count stays between the two.
LEMMA OthersKeepTallied ==
  ASSUME CliInv, Tallied, StoreOK', cmd.pc = "count", faults' = 0 => faults = 0,
         cmd' = [cmd EXCEPT !.stayed = @ \cap rows', !.met = @ \cup rows']
  PROVE  Tallied'
<1> DEFINE less == cmd.stayed \cap rows'
           more == cmd.met \cup rows'
<1>1. /\ IsFiniteSet(cmd.met) /\ IsFiniteSet(rows') /\ IsFiniteSet(cmd.stayed) /\ cmd.total \in Nat
      /\ faults = 0 => Cardinality(Counted(cmd.stayed, cmd.todo)) <= cmd.total
      /\ cmd.total <= Cardinality(Counted(cmd.met, cmd.todo))
  <2>1. cmd.stayed \in SUBSET cmd.met
    BY DEF Tallied
  <2> QED
    BY <2>1, FS_Subset DEF Tallied, CliInv, Typed, Command, StoreOK, TypeInv
<1>2. cmd'.stayed = less /\ cmd'.met = more /\ cmd'.todo = cmd.todo /\ cmd'.total = cmd.total
  BY DEF CliInv, Typed, Command
<1>3. IsFiniteSet(more) /\ less \subseteq rows' /\ rows' \subseteq more
  BY <1>1, FS_Union
<1>4. less \in SUBSET cmd.stayed /\ cmd.met \in SUBSET more
  OBVIOUS
<1> HIDE DEF less, more
<1>5. Cardinality(Counted(less, cmd.todo)) \in Nat /\ Cardinality(Counted(cmd.stayed, cmd.todo)) \in Nat
      /\ Cardinality(Counted(less, cmd.todo)) <= Cardinality(Counted(cmd.stayed, cmd.todo))
  BY <1>1, <1>4, CountedGrows
<1>6. Cardinality(Counted(cmd.met, cmd.todo)) \in Nat /\ Cardinality(Counted(more, cmd.todo)) \in Nat
      /\ Cardinality(Counted(cmd.met, cmd.todo)) <= Cardinality(Counted(more, cmd.todo))
  BY <1>3, <1>4, CountedGrows
<1>7. faults' = 0 => Cardinality(Counted(less, cmd.todo)) <= cmd.total
  BY <1>1, <1>5
<1>8. cmd.total <= Cardinality(Counted(more, cmd.todo))
  BY <1>1, <1>6
<1> QED
  BY <1>2, <1>3, <1>7, <1>8 DEF Tallied

\* With one more path, its rows are counted too.
LEMMA CountOneMore ==
  ASSUME NEW R, IsFiniteSet(R), NEW todo, NEW x \in todo
  PROVE  /\ IsFiniteSet(With(R, x))
         /\ Cardinality(With(R, x)) \in Nat /\ Cardinality(Counted(R, todo)) \in Nat
         /\ Cardinality(Counted(R, todo \ {x})) = Cardinality(Counted(R, todo)) + Cardinality(With(R, x))
<1> DEFINE of == With(R, x)
<1>1. /\ IsFiniteSet(of) /\ IsFiniteSet(Counted(R, todo))
      /\ Cardinality(of) \in Nat /\ Cardinality(Counted(R, todo)) \in Nat
  <2>1. of \subseteq R /\ Counted(R, todo) \subseteq R
    BY DEF Counted, With
  <2> QED
    BY <2>1, FS_Subset, FS_CardinalityType
<1>2. Counted(R, todo \ {x}) = Counted(R, todo) \cup of
  BY DEF Counted, With
<1>3. Counted(R, todo) \cap of = {}
  BY DEF Counted, With
<1>4. Cardinality({}) = 0
  BY FS_EmptySet
<1> HIDE DEF of
<1>5. Cardinality(Counted(R, todo) \cup of)
        = Cardinality(Counted(R, todo)) + Cardinality(of) - Cardinality(Counted(R, todo) \cap of)
  BY <1>1, FS_Union
<1>6. Cardinality(Counted(R, todo) \cup of) = Cardinality(Counted(R, todo)) + Cardinality(of)
  <2>1. Cardinality(Counted(R, todo) \cap of) = 0
    BY <1>3, <1>4
  <2> QED
    BY <1>1, <1>5, <2>1
<1>7. IsFiniteSet(of) /\ Cardinality(of) \in Nat /\ Cardinality(Counted(R, todo)) \in Nat
  BY <1>1
<1>8. Cardinality(Counted(R, todo \ {x})) = Cardinality(Counted(R, todo)) + Cardinality(of)
  BY <1>2, <1>6
<1> QED
  BY <1>7, <1>8 DEF of

\* One more path is counted, or is left out when its count fails.
LEMMA CountKeepsTallied ==
  ASSUME CliInv, Tallied, cmd.pc = "count", NEW x \in cmd.todo, NEW n \in Nat, UNCHANGED rows,
         (n = Cardinality(RowsOf(x)) /\ Works) \/ (n = 0 /\ Fails),
         cmd' = [cmd EXCEPT !.todo = @ \ {x}, !.total = @ + n]
  PROVE  Tallied'
<1>0. /\ IsFiniteSet(cmd.met) /\ cmd.stayed \in SUBSET cmd.met
      /\ cmd.stayed \subseteq rows /\ rows \subseteq cmd.met
      /\ faults = 0 => Cardinality(Counted(cmd.stayed, cmd.todo)) <= cmd.total
      /\ cmd.total <= Cardinality(Counted(cmd.met, cmd.todo))
  BY DEF Tallied
<1>1. cmd \in Command /\ cmd.total \in Nat /\ faults \in Nat
  BY BoundAssumption DEF CliInv, StoreOK, TypeInv, TypeOK, Typed, Command
<1>2. /\ cmd'.stayed = cmd.stayed /\ cmd'.met = cmd.met /\ cmd'.todo = cmd.todo \ {x}
      /\ cmd'.total = cmd.total + n
  BY <1>1 DEF Command
<1>3. faults' = 0 => faults = 0 /\ n = Cardinality(RowsOf(x))
  BY <1>1 DEF Works, Fails
<1>4. IsFiniteSet(RowsOf(x)) /\ Cardinality(RowsOf(x)) \in Nat
  BY RowsOfFinite, FS_CardinalityType DEF CliInv, StoreOK
<1>5. n <= Cardinality(RowsOf(x))
  BY <1>4
<1>6. /\ Cardinality(With(cmd.stayed, x)) \in Nat /\ Cardinality(Counted(cmd.stayed, cmd.todo)) \in Nat
      /\ Cardinality(Counted(cmd.stayed, cmd.todo \ {x}))
           = Cardinality(Counted(cmd.stayed, cmd.todo)) + Cardinality(With(cmd.stayed, x))
  <2>1. IsFiniteSet(cmd.stayed)
    BY <1>0, FS_Subset
  <2> QED
    BY <2>1, CountOneMore
<1>7. /\ IsFiniteSet(With(cmd.met, x)) /\ Cardinality(With(cmd.met, x)) \in Nat
      /\ Cardinality(Counted(cmd.met, cmd.todo)) \in Nat
      /\ Cardinality(Counted(cmd.met, cmd.todo \ {x}))
           = Cardinality(Counted(cmd.met, cmd.todo)) + Cardinality(With(cmd.met, x))
  BY <1>0, CountOneMore
<1>8. Cardinality(With(cmd.stayed, x)) <= Cardinality(RowsOf(x))
  <2>1. With(cmd.stayed, x) \in SUBSET RowsOf(x)
    BY <1>0 DEF RowsOf, With
  <2> QED
    BY <1>4, <2>1, FS_Subset
<1>9. Cardinality(RowsOf(x)) <= Cardinality(With(cmd.met, x))
  <2>1. RowsOf(x) \in SUBSET With(cmd.met, x)
    BY <1>0 DEF RowsOf, With
  <2> QED
    BY <1>7, <2>1, FS_Subset
<1>10. faults' = 0 => Cardinality(Counted(cmd.stayed, cmd.todo \ {x})) <= cmd.total + n
  BY <1>0, <1>1, <1>3, <1>4, <1>6, <1>8
<1>11. cmd.total + n <= Cardinality(Counted(cmd.met, cmd.todo \ {x}))
  BY <1>0, <1>1, <1>4, <1>5, <1>7, <1>9
<1> QED
  BY <1>0, <1>2, <1>10, <1>11 DEF Tallied

LEMMA TalliedStep == CliInv /\ Tallied /\ [CliNext]_cliVars => Tallied'
<1> SUFFICES ASSUME CliInv, Tallied, [CliNext]_cliVars, cmd'.pc = "count" PROVE Tallied'
  BY DEF Tallied
<1>0. StoreOK /\ StoreOK' /\ cmd \in Command /\ (faults' = 0 => faults = 0)
  BY StoreStep, FaultsRise DEF CliInv, Typed
<1>1. ASSUME NEW c \in Command, NEW code \in {0, 1} PROVE ~Exit(c, code) /\ ~Await(c)
  BY ExitTyped, AwaitTyped
<1>2. ASSUME NEW op \in Commands, NEW code \in {0, 1} PROVE ~Exit(Begin(op), code) /\ ~Await(Begin(op))
  BY <1>1, BeginTyped
<1>3. CASE CmdInfo
  <2>1. "info" \in Commands /\ UNCHANGED rows
    BY <1>3 DEF CmdInfo, Prompt, store
  <2>2. Begin("info") \in Command /\ Begin("info").total = 0
    BY <2>1, BeginTyped DEF Begin, NoCommand
  <2>3. /\ cmd'.stayed = rows /\ cmd'.met = rows /\ cmd'.todo = {r.path : r \in rows} /\ cmd'.total = 0
    BY <1>3, <2>2 DEF CmdInfo, Command
  <2>4. Counted(rows, cmd'.todo) = {} /\ IsFiniteSet(rows)
    BY <1>0, <2>3 DEF Counted, StoreOK, TypeInv
  <2>5. Cardinality(Counted(rows, cmd'.todo)) <= 0 /\ 0 <= Cardinality(Counted(rows, cmd'.todo))
    BY <2>4, FS_EmptySet
  <2> QED
    BY <2>1, <2>3, <2>4, <2>5 DEF Tallied
<1>4. ~CmdAdd /\ ~CmdRemove /\ ~CmdTrim
  BY <1>2 DEF CmdAdd, CmdRemove, CmdTrim, Prompt, Refused
<1>5. ~CallStep /\ ~CallFails /\ ~CopyFails
  BY <1>0, <1>1 DEF CallStep, CallFails, CopyFails
<1>6. ASSUME NEW f PROVE ~CmdList(f)
  BY <1>2 DEF CmdList, Prompt
<1>7. ASSUME NEW x, CmdGet(x) \/ (x \in Content /\ CmdGetHash(x)) PROVE FALSE
  <2>1. PICK h \in Content : cmd' = [Getting(h) EXCEPT !.pc = "open"]
    BY <1>1, <1>7, Looked
  <2>2. Typed /\ "get" \in Commands /\ UNCHANGED <<out, reader>>
    BY <1>7, Looked DEF CliInv
  <2>3. cmd'.pc = "open"
    BY <2>1, <2>2, GettingKeeps
  <2> QED
    BY <2>3
<1>8. ~Open
  BY <1>0, <1>1, OpenBegins
<1>9. ASSUME UNCHANGED <<rows, cmd>> PROVE Tallied'
  BY <1>0, <1>9 DEF Tallied, Counted
<1>10. CASE Copy
  BY <1>0, <1>1, <1>10 DEF Copy
<1>11. CASE CountVersions
  <2>1. UNCHANGED rows /\ ~Exit(cmd, 0) /\ cmd.pc = "count"
    BY <1>0, <1>1, <1>11 DEF CountVersions, store
  <2> QED
    BY <1>11, <2>1, CountMoves, CountKeepsTallied
<1>12. CASE \E p \in Proc \ {User} : OtherProcess(p)
  <2>1. cmd.pc = "count"
    BY <1>0, <1>12 DEF OtherProcess, Observe, Command
  <2> QED
    BY <1>0, <1>12, <2>1, OthersKeepTallied DEF OtherProcess, Observe
<1>13. CASE Damage \/ UNCHANGED cliVars
  BY <1>9, <1>13 DEF Damage, cliVars, vars
<1> QED
  BY <1>3, <1>4, <1>5, <1>6, <1>7, <1>8, <1>10, <1>11, <1>12, <1>13 DEF CliNext, CmdStart, CmdStep

\* What InfoBounds says of a step.
LEMMA LastCount ==
  ASSUME CliInv, Tallied, [CliNext]_cliVars, cmd.pc = "count", cmd'.pc = "done"
  PROVE  /\ faults' = 0 => Cardinality(cmd.stayed) <= cmd.total
         /\ cmd.total <= Cardinality(cmd.met)
<1>0. cmd \in Command /\ (faults' = 0 => faults = 0)
  BY FaultsRise DEF CliInv, Typed
<1>1. CountVersions
  <2>1. ~CmdStart
    BY DEF CmdStart, CmdAdd, CmdRemove, CmdTrim, CmdList, CmdGet, CmdGetHash, CmdInfo, Prompt
  <2>2. ~CallStep /\ ~CallFails /\ ~Open /\ ~Copy /\ ~CopyFails
    BY DEF CallStep, CallFails, Open, Copy, CopyFails
  <2>3. ~\E p \in Proc \ {User} : OtherProcess(p)
    BY <1>0 DEF OtherProcess, Observe, Command
  <2>4. ~Damage /\ ~UNCHANGED cliVars
    BY DEF Damage, cliVars
  <2> QED
    BY <2>1, <2>2, <2>3, <2>4 DEF CliNext, CmdStep
<1>2. cmd.todo = {}
  <2>1. ASSUME NEW x, NEW n, cmd' = [cmd EXCEPT !.todo = x, !.total = n] PROVE FALSE
    BY <1>0, <2>1 DEF Command
  <2> QED
    BY <1>1, <2>1, CountMoves
<1>3. Counted(cmd.stayed, cmd.todo) = cmd.stayed /\ Counted(cmd.met, cmd.todo) = cmd.met
  BY <1>2 DEF Counted
<1> QED
  BY <1>0, <1>3 DEF Tallied

\* info, which asks for the versions path by path while others add and remove
\* them statement by statement, counts every version that stays throughout, and
\* no more than it has met: for every store, every number of paths and every
\* interleaving.
THEOREM InfoCountsInBounds == CliSpec => InfoBounds
<1>1. CliInit => Tallied
  BY DEF CliInit, Tallied, NoCommand
<1>2. CliInv /\ Tallied /\ [CliNext]_cliVars => Tallied'
  BY TalliedStep
<1>3. CliInv /\ Tallied /\ [CliNext]_cliVars =>
        [cmd.pc = "count" /\ cmd'.pc = "done"
           => /\ faults' = 0 => Cardinality(cmd.stayed) <= cmd.total
              /\ cmd.total <= Cardinality(cmd.met)]_cliVars
  BY LastCount
<1> QED
  BY <1>1, <1>2, <1>3, CliInvariant, PTL DEF CliSpec, InfoBounds
=============================================================================
