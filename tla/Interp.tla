-------------------------------- MODULE Interp --------------------------------
(***************************************************************************)
(* The SPMD interpreter: ExecuteStatement() in interpreter.c.  Every rank  *)
(* walks the same kernel, depth first, with its own group stack, variables *)
(* and timing events; ranks meet in barriers and in parallel I/O, which    *)
(* are collective over the communicator of the active group.               *)
(***************************************************************************)
EXTENDS CoreTime, FiniteSets

CONSTANTS
  Size,       \* number of processes in MPI_COMM_WORLD
  Members,    \* group name -> ranks mapped to it, as create_groups left it
  Programs    \* what to run: [kernel, parseOnly, faulty], a kernel, whether --dry-run is
              \* given, and whether I/O may fail and vary

Ranks == 0 .. Size - 1
GroupNames == DOMAIN Members

(***************************************************************************)
(* A kernel is a tree of nodes 1 .. N in preorder below the root 0; stmt[n]*)
(* is [type, arg, times, perRank]: arg is a group name or a variable,      *)
(* times a loop count, to which the rank is added if perRank holds         *)
(* ("repeat $i $$rank + times").  POSIX stands for every POSIX I/O         *)
(* statement, PWRITE for pwrite and pread, PFWRITE for pfwrite and pfread. *)
(***************************************************************************)
IOTypes == {"POSIX", "PFOPEN", "PFWRITE", "PFCLOSE", "PWRITE", "PDELETE"}
BlockTypes == {"REPEAT", "TIME", "CTIME", "GROUP", "MASTER"}
StmtTypes == BlockTypes \cup {"BARRIER", "LOCAL"} \cup IOTypes
\* The I/O statements that are collective over the active communicator, and those that
\* are over the communicator of their file variable.
OpeningTypes == {"PFOPEN", "PWRITE"}
FileTypes == {"PFWRITE", "PFCLOSE"}
ParallelTypes == OpeningTypes \cup FileTypes
\* The statements that call dump_coretime; pfopen, pfclose and pdelete do not.
TimedTypes == {"POSIX", "PWRITE", "PFWRITE"}

ASSUME SizeAssumption == Size \in Nat \ {0}
ASSUME MembersAssumption == \A g \in GroupNames : Members[g] \subseteq Ranks
\* Kernels are trees, only blocks have statements in them, and what is numbered between a
\* statement and the block it is in is in that block too.
ASSUME ProgramsAssumption ==
  \A p \in Programs : LET k == p.kernel IN
    /\ p.parseOnly \in BOOLEAN /\ p.faulty \in BOOLEAN
    /\ Len(k.stmt) \in Nat /\ DOMAIN k.stmt = 1 .. Len(k.stmt) /\ DOMAIN k.parent = DOMAIN k.stmt
    /\ \A n \in DOMAIN k.parent :
         /\ k.parent[n] \in 0 .. n - 1
         /\ k.parent[n] = 0 \/ k.stmt[k.parent[n]].type \in BlockTypes
         /\ \A m \in k.parent[n] + 1 .. n - 1 : k.parent[m] >= k.parent[n]
    /\ \A n \in DOMAIN k.stmt : LET s == k.stmt[n] IN
         s.type \in StmtTypes /\ s.times \in Int /\ s.perRank \in BOOLEAN

VARIABLES
  program,        \* the kernel all ranks interpret, and how
  job,            \* "running", or "aborted" by MPI_Abort or a crash
  frames,         \* per rank: the calls of ExecuteStatement in progress, top first
  vars,           \* per rank: the defined variables, loop variables and files
  groupStack,     \* per rank: names of the group blocks entered, top first
  mpi,            \* per rank: the collective call it is in
  timeId,         \* per rank: next id of a time event
  coreTimeId,     \* per rank: next id of a core time event
  timeList,       \* per rank: completed time events, newest first
  coreTimeStack,  \* per rank: active core time events, top first
  coreTimeList,   \* per rank: completed core time events, newest first
  succeed,        \* per rank: statementsSucceed
  fail,           \* per rank: statementsFail
  clock,          \* per rank: time, in timed or timing statements begun or ended
  log             \* per rank: the I/O calls that were timed, for the properties


timingVars == << timeId, coreTimeId, timeList, coreTimeStack, coreTimeList, clock >>
ioVars == << succeed, fail, log >>
allVars == << program, job, frames, vars, groupStack, mpi, timingVars, ioVars >>

Nodes == DOMAIN program.kernel.parent
Stmt(n) == program.kernel.stmt[n]
\* With --dry-run no I/O statement is executed.
parseOnly == program.parseOnly

\* Communicators are told apart by name: two groups with the same ranks have two.
World == [name |-> "world", ranks |-> Ranks]
Self(r) == [name |-> "self", ranks |-> {r}]
CommOf(r, g) == IF r \in Members[g] THEN [name |-> g, ranks |-> Members[g]] ELSE Self(r)
NoCall == [op |-> "none", comm |-> [name |-> "none", ranks |-> {}], returned |-> FALSE]

\* Mutant: the group stack is not looked at.
ActiveComm_World(r) == World
\* groupblock_get_active: the communicator of the innermost group block.
ActiveComm(r) == IF groupStack[r] = << >> THEN World ELSE CommOf(r, Head(groupStack[r]))
\* Mutant: the group's name is ignored, and the default is the world.
NamedComm_World(r, g) == IF g \in {"", "world"} THEN World ELSE CommOf(r, g)

\* groupblock_get: of a named group, "world", or by default of the active block.
NamedComm(r, g) ==
  IF g = "" THEN ActiveComm(r) ELSE IF g = "world" THEN World ELSE CommOf(r, g)
\* Communicator ranks follow world ranks: MPI_Group_incl got them in ascending order.
IsMaster(r, comm) == \A q \in comm.ranks : r <= q

Frame(n, count, start) ==
  [node |-> n, last |-> 0, round |-> 0, count |-> count, start |-> start]

Init ==
  /\ program \in Programs
  /\ job = "running"
  /\ frames = [r \in Ranks |-> << Frame(0, 1, 0) >>]
  /\ vars = [r \in Ranks |-> << >>]
  /\ groupStack = [r \in Ranks |-> << >>]
  /\ mpi = [r \in Ranks |-> NoCall]
  /\ timeId = [r \in Ranks |-> 0]
  /\ coreTimeId = [r \in Ranks |-> 0]
  /\ timeList = [r \in Ranks |-> << >>]
  /\ coreTimeStack = [r \in Ranks |-> << >>]
  /\ coreTimeList = [r \in Ranks |-> << >>]
  /\ succeed = [r \in Ranks |-> [t \in IOTypes |-> 0]]
  /\ fail = [r \in Ranks |-> [t \in IOTypes |-> 0]]
  /\ clock = [r \in Ranks |-> 0]
  /\ log = [r \in Ranks |-> << >>]

-------------------------------------------------------------------------------
(* Walking the tree.                                                            *)

Top(r) == Head(frames[r])
Pending(r) == {c \in Nodes : program.kernel.parent[c] = Top(r).node /\ c > Top(r).last}
Free(r) == job = "running" /\ mpi[r] = NoCall

\* Rank r is about to execute node c, a statement of the given type.
At(r, c, type) ==
  /\ Stmt(c).type = type
  /\ Free(r)
  /\ c \in Pending(r) /\ \A d \in Pending(r) : c <= d

\* Rank r has executed all children of a statement of the given type.
AtEnd(r, type) ==
  /\ Free(r)
  /\ Pending(r) = {} /\ Top(r).node # 0
  /\ Stmt(Top(r).node).type = type

Stepped(r, c) == [frames[r] EXCEPT ![1].last = c]
StepOver(r, c) == frames' = [frames EXCEPT ![r] = Stepped(r, c)]
StepInto(r, c, frame) == frames' = [frames EXCEPT ![r] = << frame >> \o Stepped(r, c)]
Leave(r) == frames' = [frames EXCEPT ![r] = Tail(@)]
Tick(r) == clock' = [clock EXCEPT ![r] = @ + 1]

\* A variable of type VAR_INT, and one of VAR_FILE: an MPI_File has the communicator
\* it was opened on.
IntVar(n) == [type |-> "VAR_INT", int |-> n]
FileVar(comm) == [type |-> "VAR_FILE", comm |-> comm]
IsFile(r, v) == v \in DOMAIN vars[r] /\ vars[r][v].type = "VAR_FILE"

SetVar(r, v, value) ==
  vars' = [vars EXCEPT ![r] = [w \in DOMAIN @ \cup {v} |-> IF w = v THEN value ELSE @[w]]]
DestroyVar(r, v) ==
  vars' = [vars EXCEPT ![r] = [w \in DOMAIN @ \ {v} |-> @[w]]]

\* Error() calls MPI_Abort on the world.
Abort ==
  /\ job' = "aborted"
  /\ UNCHANGED << program, frames, vars, groupStack, mpi, timingVars, ioVars >>

-------------------------------------------------------------------------------
(* Control statements.                                                          *)

TimesOf(stmt, r) == stmt.times + IF stmt.perRank THEN r ELSE 0
Times(r, c) == TimesOf(Stmt(c), r)

\* The loop variable is set before each iteration, and destroyed after the last
\* one even if it was defined before the loop.
Repeat(r, c) ==
  LET v == Stmt(c).arg IN
  /\ At(r, c, "REPEAT")
  /\ Times(r, c) >= 0
  /\ IF Times(r, c) > 0
     THEN SetVar(r, v, IntVar(0)) /\ StepInto(r, c, Frame(c, Times(r, c), 0))
     ELSE DestroyVar(r, v) /\ StepOver(r, c)
  /\ UNCHANGED << program, job, groupStack, mpi, timingVars, ioVars >>

\* g_assert(loopCount >= 0) fails: the process dies, and the job with it.
RepeatNegative(r, c) == At(r, c, "REPEAT") /\ Times(r, c) < 0 /\ Abort

\* Mutant: one iteration too many.
RepeatEnd_OneMore(r) ==
  LET v == Stmt(Top(r).node).arg
      next == Top(r).round + 1
  IN
  /\ AtEnd(r, "REPEAT")
  /\ IF next <= Top(r).count
     THEN /\ SetVar(r, v, IntVar(next))
          /\ frames' = [frames EXCEPT ![r][1].last = 0, ![r][1].round = next]
     ELSE DestroyVar(r, v) /\ Leave(r)
  /\ UNCHANGED << program, job, groupStack, mpi, timingVars, ioVars >>

RepeatEnd(r) ==
  LET v == Stmt(Top(r).node).arg
      next == Top(r).round + 1
  IN
  /\ AtEnd(r, "REPEAT")
  /\ IF next < Top(r).count
     THEN /\ SetVar(r, v, IntVar(next))
          /\ frames' = [frames EXCEPT ![r][1].last = 0, ![r][1].round = next]
     ELSE DestroyVar(r, v) /\ Leave(r)
  /\ UNCHANGED << program, job, groupStack, mpi, timingVars, ioVars >>

\* Only members execute the block, with the group on top of the stack.
Group(r, c) ==
  LET g == Stmt(c).arg IN
  /\ At(r, c, "GROUP")
  /\ g \in GroupNames
  /\ IF r \in Members[g]
     THEN /\ groupStack' = [groupStack EXCEPT ![r] = << g >> \o @]
          /\ StepInto(r, c, Frame(c, 1, 0))
     ELSE StepOver(r, c) /\ UNCHANGED groupStack
  /\ UNCHANGED << program, job, vars, mpi, timingVars, ioVars >>

\* Mutant: the block stays on the group stack.
GroupEnd_NoPop(r) ==
  /\ AtEnd(r, "GROUP")
  /\ Leave(r)
  /\ UNCHANGED << program, job, vars, groupStack, mpi, timingVars, ioVars >>

GroupEnd(r) ==
  /\ AtEnd(r, "GROUP")
  /\ groupStack' = [groupStack EXCEPT ![r] = Tail(@)]
  /\ Leave(r)
  /\ UNCHANGED << program, job, vars, mpi, timingVars, ioVars >>

\* A group statement of an undefined group is an Error; a barrier on one
\* dereferences the NULL that groupblock_get returned.
UndefinedGroup(r, c) ==
  /\ \/ At(r, c, "GROUP")
     \/ At(r, c, "BARRIER") /\ Stmt(c).arg \notin {"", "world"}
  /\ Stmt(c).arg \notin GroupNames
  /\ Abort

\* Rank 0 of the active group's communicator executes the block.
Master(r, c) ==
  /\ At(r, c, "MASTER")
  /\ IF IsMaster(r, ActiveComm(r)) THEN StepInto(r, c, Frame(c, 1, 0)) ELSE StepOver(r, c)
  /\ UNCHANGED << program, job, vars, groupStack, mpi, timingVars, ioVars >>

MasterEnd(r) ==
  /\ AtEnd(r, "MASTER")
  /\ Leave(r)
  /\ UNCHANGED << program, job, vars, groupStack, mpi, timingVars, ioVars >>

\* MPI_Barrier on the named or active group.
Barrier(r, c) ==
  /\ At(r, c, "BARRIER")
  /\ Stmt(c).arg \in {"", "world"} \cup GroupNames
  /\ mpi' = [mpi EXCEPT ![r] = [op       |-> "MPI_Barrier",
                                comm     |-> NamedComm(r, Stmt(c).arg),
                                returned |-> FALSE]]
  /\ UNCHANGED << program, job, frames, vars, groupStack, timingVars, ioVars >>

\* All ranks of the communicator have called the same collective operation, and
\* none has returned.  MPI pairs calls by their order, whatever statement made them.
Met(comm) ==
  \A r, q \in comm.ranks : mpi[r].comm = comm /\ ~mpi[r].returned /\ mpi[r].op = mpi[q].op

CollectiveCompletes(comm) ==
  /\ job = "running"
  /\ Met(comm)
  /\ mpi' = [r \in Ranks |-> IF r \in comm.ranks THEN [mpi[r] EXCEPT !.returned = TRUE]
                                                 ELSE mpi[r]]
  /\ UNCHANGED << program, job, frames, vars, groupStack, timingVars, ioVars >>

\* The statement whose collective call rank r is in.
Current(r) == CHOOSE c \in Pending(r) : \A d \in Pending(r) : c <= d

BarrierReturns(r) ==
  /\ job = "running" /\ mpi[r].op = "MPI_Barrier" /\ mpi[r].returned
  /\ mpi' = [mpi EXCEPT ![r] = NoCall]
  /\ StepOver(r, Current(r))
  /\ UNCHANGED << program, job, vars, groupStack, timingVars, ioVars >>

\* print, sleep and assignments touch nothing the other ranks see.
Local(r, c) ==
  /\ At(r, c, "LOCAL")
  /\ StepOver(r, c)
  /\ UNCHANGED << program, job, vars, groupStack, mpi, timingVars, ioVars >>

-------------------------------------------------------------------------------
(* Timing and I/O statements.                                                   *)

\* The id of a time event is drawn when its block is left.
Time(r, c) ==
  /\ At(r, c, "TIME")
  /\ StepInto(r, c, Frame(c, 1, clock[r]))
  /\ Tick(r)
  /\ UNCHANGED << program, job, vars, groupStack, mpi, timeId, coreTimeId, timeList,
                  coreTimeStack, coreTimeList, ioVars >>

TimeEnd(r) ==
  /\ AtEnd(r, "TIME")
  /\ timeList' = [timeList EXCEPT ![r] =
       << [id |-> timeId[r], start |-> Top(r).start, value |-> clock[r] - Top(r).start] >> \o @]
  /\ timeId' = [timeId EXCEPT ![r] = @ + 1]
  /\ Leave(r)
  /\ Tick(r)
  /\ UNCHANGED << program, job, vars, groupStack, mpi, coreTimeId, coreTimeStack,
                  coreTimeList, ioVars >>

\* coretime_event_new; for the properties, the event remembers when it began and the
\* calls made before.
Entered(r, id) ==
  [event |-> NewEvent(id), start |-> clock[r], before |-> Len(log[r]), until |-> Len(log[r])]

\* Mutant: the id counts the completed events, not the begun ones.
CTime_LateId(r, c) ==
  /\ At(r, c, "CTIME")
  /\ coreTimeStack' = [coreTimeStack EXCEPT ![r] = << Entered(r, Len(coreTimeList[r])) >> \o @]
  /\ StepInto(r, c, Frame(c, 1, clock[r]))
  /\ Tick(r)
  /\ UNCHANGED << program, job, vars, groupStack, mpi, timeId, coreTimeId, timeList,
                  coreTimeList, ioVars >>

\* That of a core time event when it is entered.
CTime(r, c) ==
  /\ At(r, c, "CTIME")
  /\ coreTimeStack' = [coreTimeStack EXCEPT ![r] = << Entered(r, coreTimeId[r]) >> \o @]
  /\ coreTimeId' = [coreTimeId EXCEPT ![r] = @ + 1]
  /\ StepInto(r, c, Frame(c, 1, clock[r]))
  /\ Tick(r)
  /\ UNCHANGED << program, job, vars, groupStack, mpi, timeId, timeList, coreTimeList, ioVars >>

CTimeEnd(r) ==
  /\ AtEnd(r, "CTIME")
  /\ coreTimeList' = [coreTimeList EXCEPT ![r] =
       << [Head(coreTimeStack[r]) EXCEPT !.until = Len(log[r])] >> \o @]
  /\ coreTimeStack' = [coreTimeStack EXCEPT ![r] = Tail(@)]
  /\ Leave(r)
  /\ Tick(r)
  /\ UNCHANGED << program, job, vars, groupStack, mpi, timeId, coreTimeId, timeList, ioVars >>

\* dump_coretime: the call counts for every active event.
Accounted(entry, coreTime) == [entry EXCEPT !.event = Account(@, coreTime)]
DumpCoreTime(r, coreTime) ==
  coreTimeStack' = [coreTimeStack EXCEPT ![r] = [i \in DOMAIN @ |-> Accounted(@[i], coreTime)]]

\* An IOStatus, and what calls may return.  Faster and slower ones; an access that failed has the -1
\* of read and write as its data, one that found no file took no time; a short
\* parallel access is a failure, and has been timed.
Calls(success, time, data) ==
  {[success |-> success, coreTime |-> [time |-> time, data |-> data]]}
Outcomes(type) ==
  CASE type = "POSIX" ->
         Calls(TRUE, 1, 2) \cup (IF program.faulty THEN Calls(TRUE, 2, 2) \cup Calls(FALSE, 1, -1)
                                                         \cup Calls(FALSE, 0, 0) ELSE {})
    [] type \in {"PWRITE", "PFWRITE"} ->
         Calls(TRUE, 1, 3) \cup (IF program.faulty THEN Calls(FALSE, 1, 0) ELSE {})
    \* iio_pfopen and iio_pfclose return TRUE, and iio_pdelete FALSE, whatever MPI
    \* returned (MPI_ASSERT only logs, and has an rc of its own).
    [] type \in {"PFOPEN", "PFCLOSE"} -> Calls(TRUE, 0, 0)
    [] type = "PDELETE" -> Calls(FALSE, 0, 0)

\* The statement is counted, and its call timed.
Count(r, type) ==
  \E call \in Outcomes(type) :
    /\ succeed' = [succeed EXCEPT ![r][type] = @ + IF call.success THEN 1 ELSE 0]
    /\ fail' = [fail EXCEPT ![r][type] = @ + IF call.success THEN 0 ELSE 1]
    /\ IF type \in TimedTypes
       THEN DumpCoreTime(r, call.coreTime) /\ log' = [log EXCEPT ![r] = Append(@, call.coreTime)]
       ELSE UNCHANGED << coreTimeStack, log >>

\* A POSIX I/O statement, or pdelete: a call that concerns this rank alone.
LocalIO(r, c) ==
  /\ ~parseOnly
  /\ \E type \in {"POSIX", "PDELETE"} : At(r, c, type) /\ Count(r, type)
  /\ StepOver(r, c)
  /\ Tick(r)
  /\ UNCHANGED << program, job, vars, groupStack, mpi, timeId, coreTimeId, timeList, coreTimeList >>

\* pfopen opens a file, and pwrite and pread open, access and close one, on the
\* communicator of the active group; pfwrite, pfread and pfclose call MPI with a file,
\* and so on the communicator it was opened on.
IOComm(r, c) ==
  IF Stmt(c).type \in OpeningTypes THEN ActiveComm(r) ELSE vars[r][Stmt(c).arg].comm

ParallelIO(r, c) ==
  /\ \E type \in ParallelTypes : At(r, c, type)
  /\ ~parseOnly
  /\ Stmt(c).type \in FileTypes => IsFile(r, Stmt(c).arg)
  /\ mpi' = [mpi EXCEPT ![r] = [op |-> Stmt(c).type, comm |-> IOComm(r, c), returned |-> FALSE]]
  /\ UNCHANGED << program, job, frames, vars, groupStack, timingVars, ioVars >>

\* The variable is not defined, or it is not a file: an Error.
NoFile(r, c) ==
  /\ \E type \in FileTypes : At(r, c, type)
  /\ ~parseOnly
  /\ ~IsFile(r, Stmt(c).arg)
  /\ Abort

ParallelIOReturns(r) ==
  /\ job = "running" /\ mpi[r].op \in ParallelTypes /\ mpi[r].returned
  /\ mpi' = [mpi EXCEPT ![r] = NoCall]
  /\ Count(r, mpi[r].op)
  /\ LET v == Stmt(Current(r)).arg IN
     CASE mpi[r].op = "PFOPEN"  -> SetVar(r, v, FileVar(mpi[r].comm))
       [] mpi[r].op = "PFCLOSE" -> DestroyVar(r, v)
       [] OTHER -> UNCHANGED vars
  /\ StepOver(r, Current(r))
  /\ Tick(r)
  /\ UNCHANGED << program, job, groupStack, timeId, coreTimeId, timeList, coreTimeList >>

\* With --dry-run every I/O statement returns at once.
SkipIO(r, c) ==
  /\ parseOnly
  /\ \E type \in IOTypes : At(r, c, type)
  /\ StepOver(r, c)
  /\ UNCHANGED << program, job, vars, groupStack, mpi, timingVars, ioVars >>

-------------------------------------------------------------------------------

\* iiStart has returned.
Finished(r) == Free(r) /\ Top(r).node = 0 /\ Pending(r) = {}

Execute(r) ==
  \/ \E c \in Nodes :
       \/ Repeat(r, c) \/ RepeatNegative(r, c) \/ Group(r, c) \/ UndefinedGroup(r, c)
       \/ Master(r, c) \/ Barrier(r, c) \/ Local(r, c) \/ Time(r, c) \/ CTime(r, c)
       \/ LocalIO(r, c) \/ ParallelIO(r, c) \/ NoFile(r, c) \/ SkipIO(r, c)
  \/ RepeatEnd(r) \/ GroupEnd(r) \/ MasterEnd(r) \/ TimeEnd(r) \/ CTimeEnd(r)
  \/ BarrierReturns(r) \/ ParallelIOReturns(r)

Complete == \E r \in Ranks : mpi[r].op # "none" /\ CollectiveCompletes(mpi[r].comm)

Terminated ==
  /\ job = "aborted" \/ \A r \in Ranks : Finished(r)
  /\ UNCHANGED allVars

Next == (\E r \in Ranks : Execute(r)) \/ Complete \/ Terminated

Spec == Init /\ [][Next]_allVars

\* As long as a rank can go on, or MPI complete what all ranks have called, something
\* happens.  Fairness to each rank is not needed: a kernel makes no rank run forever.
FairSpec == Spec /\ WF_allVars((\E r \in Ranks : Execute(r)) \/ Complete)

-------------------------------------------------------------------------------
(* What a program should do, read off its kernel: p is a program, n a node.      *)

\* The statements around node n.
Around(p, n) ==
  LET up[m \in 0 .. n] ==
        IF m = 0 \/ p.kernel.parent[m] = 0 THEN {}
        ELSE {p.kernel.parent[m]} \cup up[p.kernel.parent[m]]
  IN up[n]
LoopsAround(p, n) == {a \in Around(p, n) : p.kernel.stmt[a].type = "REPEAT"}

\* The communicator that is active for rank r at node n.
LexicalComm(p, r, n) ==
  LET groups == {a \in Around(p, n) : p.kernel.stmt[a].type = "GROUP"}
  IN IF groups = {} THEN World
     ELSE CommOf(r, p.kernel.stmt[CHOOSE a \in groups : \A b \in groups : b <= a].arg)

\* How often rank r executes the statements of a block when it executes the block, and
\* how often it executes node n in all.
Rounds(p, r, a) ==
  LET s == p.kernel.stmt[a] IN
  CASE s.type = "REPEAT" -> IF TimesOf(s, r) > 0 THEN TimesOf(s, r) ELSE 0
    [] s.type = "GROUP"  -> IF s.arg \in GroupNames /\ r \in Members[s.arg] THEN 1 ELSE 0
    [] s.type = "MASTER" -> IF IsMaster(r, LexicalComm(p, r, a)) THEN 1 ELSE 0
    [] OTHER -> 1
Executions(p, r, n) ==
  LET times[m \in 1 .. n] ==
        LET a == p.kernel.parent[m] IN IF a = 0 THEN 1 ELSE times[a] * Rounds(p, r, a)
  IN times[n]

\* Node o opens the file that node n uses: o is executed before n, and nothing closes,
\* reopens or overwrites the file variable in between, nor in the rest of a loop around
\* n that o is not in.
Opens(p, o, n) ==
  LET stmt == p.kernel.stmt
      Disturbs(m) == /\ stmt[m].type \in {"PFOPEN", "PFCLOSE", "REPEAT"}
                     /\ stmt[m].arg = stmt[n].arg
      Between == {a \in LoopsAround(p, n) : a > o}
  IN
  /\ stmt[o].type = "PFOPEN" /\ stmt[o].arg = stmt[n].arg
  /\ o < n /\ p.kernel.parent[o] \in Around(p, n) \cup {0}
  /\ \A m \in DOMAIN stmt : m > o /\ Disturbs(m) => m >= n /\ Between \cap Around(p, m) = {}
OpenerOf(p, n) == CHOOSE o \in DOMAIN p.kernel.stmt : Opens(p, o, n)

CollectiveAt(p, n) ==
  \/ p.kernel.stmt[n].type = "BARRIER"
  \/ p.kernel.stmt[n].type \in ParallelTypes /\ ~p.parseOnly

\* The ranks that have to take part when rank r executes the collective node n.
Partners(p, r, n) ==
  LET s == p.kernel.stmt[n] IN
  IF s.type = "BARRIER" /\ s.arg # ""
  THEN IF s.arg = "world" THEN Ranks ELSE CommOf(r, s.arg).ranks
  ELSE LexicalComm(p, r, IF s.type \in FileTypes THEN OpenerOf(p, n) ELSE n).ranks

Legal(p, r, n) ==
  LET s == p.kernel.stmt[n] IN
  /\ s.type = "REPEAT" => TimesOf(s, r) >= 0
  /\ s.type \in {"GROUP", "BARRIER"} => s.arg \in {"", "world"} \cup GroupNames
  /\ s.type \in FileTypes /\ ~p.parseOnly => \E o \in DOMAIN p.kernel.stmt : Opens(p, o, n)

\* Whenever a rank executes a collective statement, all ranks of its communicator
\* do, in the same iterations of the loops around it.
Balanced(p) ==
  \A r \in Ranks, n \in DOMAIN p.kernel.stmt :
    Executions(p, r, n) > 0 =>
      /\ Legal(p, r, n)
      /\ CollectiveAt(p, n) => \A q \in Partners(p, r, n) :
            /\ Executions(p, q, n) > 0
            /\ \A a \in LoopsAround(p, n) :
                 TimesOf(p.kernel.stmt[a], q) = TimesOf(p.kernel.stmt[a], r)
BalancedPrograms == {p \in Programs : Balanced(p)}

-------------------------------------------------------------------------------
(* Properties.                                                                  *)

AllFinished == \A r \in Ranks : Finished(r)
Events == [id : Nat, start : Nat, value : Nat]

TypeOK ==
  /\ job \in {"running", "aborted"}
  /\ \A r \in Ranks :
       /\ frames[r] # << >> /\ frames[r][Len(frames[r])].node = 0
       /\ \A i \in 1 .. Len(frames[r]) :
            /\ frames[r][i].node \in Nodes \cup {0}
            /\ frames[r][i].last \in Nodes \cup {0}
            /\ frames[r][i].round < frames[r][i].count
       /\ \A v \in DOMAIN vars[r] :
            \/ /\ vars[r][v].type = "VAR_INT"
               /\ vars[r][v].int \in Nat
            \/ /\ vars[r][v].type = "VAR_FILE"
               /\ r \in vars[r][v].comm.ranks
       /\ \A i \in 1 .. Len(groupStack[r]) : groupStack[r][i] \in GroupNames
       /\ mpi[r].op \in {"none", "MPI_Barrier"} \cup ParallelTypes
       /\ {timeId[r], coreTimeId[r], clock[r]} \subseteq Nat
       /\ \A i \in 1 .. Len(timeList[r]) : timeList[r][i] \in Events

\* When all ranks of a communicator have met in a collective call, they are in the
\* same statement and in the same iteration of every loop around it, however far the
\* ranks have drifted apart in between: MPI would pair a barrier with another one
\* (interpreter.c:253) without noticing.
SamePlace ==
  LET Place(r) ==
        << Current(r), [i \in DOMAIN frames[r] |-> << frames[r][i].node, frames[r][i].round >>] >>
  IN \A r \in Ranks : mpi[r].op # "none" /\ Met(mpi[r].comm) =>
       (\A q \in mpi[r].comm.ranks : Place(q) = Place(r)) \/ program \notin BalancedPrograms

\* Ranks of overlapping groups may wait for each other for good (each in a collective
\* call the other is not in, interpreter.c:253, iio_mpi.c), but not if the kernel is
\* balanced: then statements are met in the same order by all ranks.
NeverStuck ==
  LET Waits(r) == mpi[r].op # "none" /\ ~mpi[r].returned /\ ~Met(mpi[r].comm)
      Stuck == /\ job = "running" /\ ~AllFinished
               /\ \A r \in Ranks : Finished(r) \/ Waits(r)
  IN Stuck => program \notin BalancedPrograms

\* No two ranks are ever inside the same master block, whatever groups were entered
\* and left before it (interpreter.c:217: rank 0 of the active communicator).
MasterAlone ==
  \A r, q \in Ranks :
    (\E i \in DOMAIN frames[r], j \in DOMAIN frames[q] :
        /\ frames[r][i].node = frames[q][j].node /\ frames[r][i].node # 0
        /\ Stmt(frames[r][i].node).type = "MASTER") => r = q

\* What a core time event reports is what dump_coretime (timing.c:131) was given between
\* its begin and its end, also inside events nested in it, and nothing else: the number
\* of calls, their total time and data, the slowest and the fastest transfer, the
\* shortest and the longest call.  Calls that took no time or moved nothing are counted,
\* and left out of the extremes.
EventsMeasure ==
  \A r \in Ranks : \A i \in DOMAIN coreTimeList[r] :
    LET e == coreTimeList[r][i] IN Describes(e.event, SubSeq(log[r], e.before + 1, e.until))

\* Every I/O statement has been executed, and counted as succeeded or failed, exactly as
\* often as the loops, groups and masters around it say (interpreter.c:139-236), however
\* they are nested; none with --dry-run.
ExecutedAsOften ==
  \A r \in Ranks : Finished(r) => \A type \in IOTypes :
    succeed[r][type] + fail[r][type] =
      IF parseOnly THEN 0
      ELSE Cardinality(UNION {{n} \X (1 .. Executions(program, r, n)) :
                                n \in {m \in Nodes : Stmt(m).type = type}})

\* Core time events are numbered in the order they began (timing.h:55), though they
\* are collected in the order they ended.
CoreIdsFollowStart ==
  \A r \in Ranks : \A i, j \in DOMAIN coreTimeList[r] :
    coreTimeList[r][i].event.id < coreTimeList[r][j].event.id
      <=> coreTimeList[r][i].start < coreTimeList[r][j].start

\* timing.h:43 says the same of the ids of time events; nested events refute it.
TimeIdsFollowStart ==
  \A r \in Ranks : \A i, j \in DOMAIN timeList[r] :
    timeList[r][i].id < timeList[r][j].id <=> timeList[r][i].start < timeList[r][j].start

\* A balanced kernel is interpreted to its end by every rank: the barriers and the
\* parallel I/O of overlapping groups never leave ranks waiting for each other.
BalancedFinishes == program \in BalancedPrograms => <>AllFinished
===============================================================================
