----------------------------- MODULE BloxtreeCli -----------------------------
(***************************************************************************)
(* The command line (bloxtree-cli) over the engine as Bloxtree describes   *)
(* it: one command after another, each in a process that opens the store,  *)
(* makes its engine calls and exits with a code.  Other processes make     *)
(* engine calls of their own in the meantime, and a file of the store may  *)
(* be damaged.                                                             *)
(*                                                                         *)
(* An engine call takes the steps that it takes in Bloxtree, whether the   *)
(* command or another process makes it.  get looks a version up, opens its *)
(* file and copies it to a file of the user's, buffer by buffer; info asks *)
(* for the versions of path after path; between any two steps others act.  *)
(* `cmd` holds the local variables of the command that runs, and what      *)
(* remains of it when it has exited.  paths and versions print what one    *)
(* statement returns and are left out.                                     *)
(***************************************************************************)
EXTENDS Bloxtree, PathBytes, BloxtreeReader

CONSTANTS
  Arg,        \* what users give as a path
  Commands,   \* the commands that users run
  User,       \* the process of the command that runs
  OtherPaths, \* bound: the paths that other processes make calls about
  MaxBatch    \* bound: paths of one add command

ASSUME CliAssumption ==
  /\ \A x \in Arg : x \in Seq(Byte)
  /\ Path = {x \in Arg : Valid(x)}
  /\ Hash = Content
  /\ User \in Proc

VARIABLES
  holds,  \* what the file of each hash holds, where there is one
  out,    \* the user's file that get --out writes
  cmd,    \* the command that runs, or the last one
  apart   \* history: no add and removal have met in the window of NoOverlap

store == <<rows, blobs, clock, call, holds, apart>>
cliVars == <<vars, holds, apart, out, cmd, reader>>

Command ==
  [op     : {"none"} \cup Commands,
   pc     : {"call", "open", "copy", "count", "done"},
   hash   : Hash \cup {NoHash},
   before : Pieces,      \* the user's file when the command began
   stayed : SUBSET Row,  \* history: the rows that were there ever since it began
   met    : SUBSET Row,  \* history: the rows that were there at some time since
   todo   : SUBSET Path, \* the paths whose versions are still to count
   total  : Nat,
   exit   : {0, 1}]

NoCommand ==
  [op |-> "none", pc |-> "done", hash |-> NoHash, before |-> <<>>, stayed |-> {},
   met |-> {}, todo |-> {}, total |-> 0, exit |-> 0]

NoReader == New(<<>>, <<>>)

Prompt(op) == cmd.pc = "done" /\ op \in Commands
Begin(op) == [NoCommand EXCEPT !.op = op]
\* What remains of a command: what it was asked for, and its exit code.
Exit(c, code) ==
  cmd' = [NoCommand EXCEPT !.op = c.op, !.hash = c.hash, !.exit = code]
Fails == faults < MaxFaults /\ faults' = faults + 1
Works == UNCHANGED faults

Watch == apart' = (apart /\ NoOverlap')

-----------------------------------------------------------------------------
(* Commands of one engine call.                                            *)

\* The next step of the engine call of p.  The rename of an add puts its content
\* in the place of whatever the file held.
EngineStep(p) ==
  /\ Step(p)
  /\ holds' = IF At(p, "persist") THEN [holds EXCEPT ![call[p].hash] = call[p].hash] ELSE holds

\* The command waits for its engine call, and exits with 0 when that returns.
Await(c) ==
  IF call'[User].pc = "idle" THEN Exit(c, 0) ELSE cmd' = [c EXCEPT !.pc = "call"]

\* An argument that is not valid: nothing has been read or stored yet.
Refused(op) == Arg # Path /\ Exit(Begin(op), 1) /\ UNCHANGED vars

CmdAdd ==
  /\ Prompt("add")
  /\ \/ Refused("add")
     \/ AddReader(User) /\ Cardinality(call'[User].target) <= MaxBatch /\ Await(Begin("add"))
  /\ Watch /\ UNCHANGED <<holds, out, reader>>

\* Without --hash all versions, with it the oldest that has the hash.
CmdRemove ==
  /\ Prompt("remove")
  /\ \/ Refused("remove")
     \/ (RemovePath(User) \/ RemoveVersion(User)) /\ Await(Begin("remove"))
  /\ Watch /\ UNCHANGED <<holds, out, reader>>

\* With a max_versions of 0 trim_path is remove_path.
CmdTrim ==
  /\ Prompt("trim")
  /\ \/ Refused("trim")
     \/ (RemovePath(User) \/ TrimPath(User)) /\ Await(Begin("trim"))
  /\ Watch /\ UNCHANGED <<holds, out, reader>>

CallStep ==
  /\ cmd.pc = "call"
  /\ EngineStep(User) /\ Await(cmd)
  /\ Watch /\ UNCHANGED <<out, reader>>

\* A statement or a file operation of the call fails, and the call with it.
CallFails ==
  /\ cmd.pc = "call"
  /\ Interrupt(User) /\ Exit(cmd, 1)
  /\ Watch /\ UNCHANGED <<holds, out, reader>>

\* Prints the lines ListFolder(rows, f).
CmdList(f) ==
  /\ Prompt("list")
  /\ Exit(Begin("list"), IF f = <<>> \/ Valid(f) THEN 0 ELSE 1)
  /\ UNCHANGED <<store, faults, out, reader>>

-----------------------------------------------------------------------------
(* get: look the version up, open its blob, create the user's file, copy.  *)

Getting(hash) == [Begin("get") EXCEPT !.hash = hash, !.before = out]

CmdGet(x) ==
  /\ Prompt("get")
  /\ IF Valid(x) /\ RowsOf(x) # {}
     THEN \E r \in Latest(x) : cmd' = [Getting(r.hash) EXCEPT !.pc = "open"]
     ELSE Exit(Getting(NoHash), 1)
  /\ UNCHANGED <<store, faults, out, reader>>

\* With --hash the path is not looked at.
CmdGetHash(h) ==
  /\ Prompt("get")
  /\ cmd' = [Getting(h) EXCEPT !.pc = "open"]
  /\ UNCHANGED <<store, faults, out, reader>>

\* Fault: the user's file is opened, and not made empty.
OpenAppend ==
  /\ cmd.pc = "open"
  /\ IF cmd.hash \notin blobs
     THEN Exit(cmd, 1) /\ UNCHANGED reader
     ELSE cmd' = [cmd EXCEPT !.pc = "copy"] /\ reader' = New(holds[cmd.hash], cmd.hash)
  /\ UNCHANGED <<store, faults, out>>

\* The blob is opened first; then File::create empties the user's file.
Open ==
  /\ cmd.pc = "open"
  /\ IF cmd.hash \notin blobs
     THEN Exit(cmd, 1) /\ UNCHANGED <<faults, out, reader>>
     ELSE \/ /\ cmd' = [cmd EXCEPT !.pc = "copy"]
             /\ reader' = New(holds[cmd.hash], cmd.hash)
             /\ out' = <<>>
             /\ Works
          \/ Fails /\ Exit(cmd, 1) /\ UNCHANGED <<out, reader>>
  /\ UNCHANGED store

\* io::copy: read a buffer, write what was read, until a read returns nothing.
Copy ==
  /\ cmd.pc = "copy"
  /\ \E n \in Buffer : \E k \in Counts(n) :
       IF Mismatch(k)
       THEN Exit(cmd, 1) /\ reader' = NoReader /\ UNCHANGED out
       ELSE /\ reader' = Advance(k)
            /\ out' = out \o Taken(k)
            /\ IF k = 0 THEN Exit(cmd, 0) ELSE UNCHANGED cmd
  /\ UNCHANGED <<store, faults>>

\* A read or a write fails; what was written before stays.
CopyFails ==
  /\ cmd.pc = "copy"
  /\ Fails /\ Exit(cmd, 1) /\ reader' = NoReader
  /\ UNCHANGED <<store, out>>

-----------------------------------------------------------------------------
(* info: list_paths, then versions for each path, in the order of bytes.   *)

CmdInfo ==
  /\ Prompt("info")
  /\ cmd' = [Begin("info") EXCEPT !.pc = "count", !.stayed = rows, !.met = rows,
                                  !.todo = {r.path : r \in rows}]
  /\ UNCHANGED <<store, faults, out, reader>>

\* Fault: the loop keeps the count of its last path.
CountLast ==
  /\ cmd.pc = "count"
  /\ IF cmd.todo = {} THEN Exit(cmd, 0)
     ELSE \E x \in cmd.todo :
            /\ ~\E y \in cmd.todo : Less(y, x)
            /\ cmd' = [cmd EXCEPT !.todo = @ \ {x}, !.total = Cardinality(RowsOf(x))]
  /\ UNCHANGED <<store, faults, out, reader>>

\* Fault: a path that has no versions any more is asked for again.
CountAgain ==
  /\ cmd.pc = "count"
  /\ IF cmd.todo = {} THEN Exit(cmd, 0) /\ Works
     ELSE \E x \in cmd.todo :
            /\ ~\E y \in cmd.todo : Less(y, x)
            /\ \/ RowsOf(x) # {} /\ Works /\ cmd' = [cmd EXCEPT !.todo = @ \ {x},
                                     !.total = @ + Cardinality(RowsOf(x))]
               \/ cmd' = [cmd EXCEPT !.todo = @ \ {x}] /\ Fails
  /\ UNCHANGED <<store, out, reader>>

\* A failure counts as no versions.
CountVersions ==
  /\ cmd.pc = "count"
  /\ IF cmd.todo = {} THEN Exit(cmd, 0) /\ Works
     ELSE \E x \in cmd.todo :
            /\ ~\E y \in cmd.todo : Less(y, x)
            /\ \/ cmd' = [cmd EXCEPT !.todo = @ \ {x},
                                     !.total = @ + Cardinality(RowsOf(x))] /\ Works
               \/ cmd' = [cmd EXCEPT !.todo = @ \ {x}] /\ Fails
  /\ UNCHANGED <<store, out, reader>>

-----------------------------------------------------------------------------
(* Other processes, and a file that loses its content.                     *)

\* A command that counts: which rows it has met, and which have stayed.
Observe ==
  cmd' = IF cmd.pc = "count" THEN [cmd EXCEPT !.stayed = @ \cap rows', !.met = @ \cup rows']
                             ELSE cmd

\* A call of another process begins, goes on, or is cut short.
OtherProcess(p) ==
  /\ \/ Start(p) /\ call'[p].target \subseteq OtherPaths /\ UNCHANGED holds
     \/ EngineStep(p)
     \/ Interrupt(p) /\ UNCHANGED holds
  /\ Observe /\ Watch /\ UNCHANGED <<out, reader>>

Damage ==
  /\ Fails
  /\ \E h \in blobs : holds[h] = h /\ \E c \in Content \ {h} : holds' = [holds EXCEPT ![h] = c]
  /\ UNCHANGED <<rows, blobs, clock, call, apart, out, cmd, reader>>

CliInit ==
  /\ Init
  /\ holds = [h \in Content |-> h]
  /\ out = <<>>
  /\ cmd = NoCommand
  /\ reader = NoReader
  /\ apart = TRUE

CmdStart ==
  \/ CmdAdd \/ CmdRemove \/ CmdTrim \/ CmdInfo
  \/ \E f \in Arg \cup {<<>>} : CmdList(f)
  \/ \E x \in Arg : CmdGet(x)
  \/ \E h \in Content : CmdGetHash(h)

CmdStep == CallStep \/ CallFails \/ Open \/ Copy \/ CopyFails \/ CountVersions

CliNext == CmdStart \/ CmdStep \/ Damage \/ \E p \in Proc \ {User} : OtherProcess(p)

CliSpec == CliInit /\ [][CliNext]_cliVars

\* A command that has begun goes on; nobody has to run commands.
CliFairSpec == CliSpec /\ WF_cliVars(CmdStep)
-----------------------------------------------------------------------------
(* What a user may expect.                                                 *)

\* The state of every variable: the user's file holds the beginning of a blob.
CliTypeOK ==
  /\ TypeOK
  /\ holds \in [Content -> Content]
  /\ apart \in BOOLEAN
  /\ out \in Pieces
  /\ cmd \in Command
  /\ reader \in [inner : Seq(UNION {Range(c) : c \in Content}), hasher : Pieces,
                 expected : Pieces, verified : BOOLEAN]

\* A get that exits with 0 has written the content that it looked up or was
\* asked for, whole and nothing else, however its reads were cut, whoever
\* removed the version in the meantime, and whatever became of the blob.
GetExact ==
  cmd.op = "get" /\ cmd.pc = "done" /\ cmd.exit = 0 => out = cmd.hash

\* As long as no add and removal have met in the window of NoOverlap, no file
\* was damaged and none failed: a command that began a get and exits with 1
\* finds no version with its hash left, and has not touched the user's file.
GetFailsOnlyWhenGone ==
  [][/\ cmd.pc \in {"open", "copy"} /\ cmd'.pc = "done" /\ cmd'.exit = 1
     /\ apart /\ faults' = 0
     => out' = cmd.before /\ ~\E r \in rows : r.hash = cmd.hash]_cliVars

\* info counts every version that is there from its beginning to its end,
\* unless a count fails, and never more than were there at some time meanwhile.
InfoBounds ==
  [][cmd.pc = "count" /\ cmd'.pc = "done"
       => /\ faults' = 0 => Cardinality(cmd.stayed) <= cmd.total
          /\ cmd.total <= Cardinality(cmd.met)]_cliVars

\* Every command that has begun exits.
CommandsExit == cmd.pc # "done" ~> cmd.pc = "done"
=============================================================================
