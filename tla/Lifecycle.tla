------------------------------ MODULE Lifecycle -------------------------------
(***************************************************************************)
(* main() on every rank, from MPI_Init to exit: the collective calls that  *)
(* keep the ranks in step, the two early ways out, and the start signal    *)
(* SIGUSR1 that --wait delays the benchmark for.                           *)
(***************************************************************************)
EXTENDS Integers, FiniteSets

CONSTANTS
  Size,         \* number of processes
  Inputs,       \* what the ranks may find: [Ranks -> {"good", "faulty", "missing"}]
  MaxSignals    \* bound: how many SIGUSR1 the user sends to one process

MASTER == 0
Ranks == 0 .. Size - 1

ASSUME SizeAssumption == Size \in Nat \ {0}
ASSUME InputsAssumption == Inputs \subseteq [Ranks -> {"good", "faulty", "missing"}]
ASSUME SignalAssumption == MaxSignals \in Nat

\* The points of main a rank can be at.  At the first five it is in a collective call
\* of all ranks; the rest are local steps.
Barriers == {"init", "opened", "start", "end", "cleaned"}
Points ==
  Barriers \cup {"bcast", "finalize", "options", "handler", "checks", "open", "parse",
    "params", "delay", "waiting", "interpret", "gather", "report", "free", "exited"}
Call(point) ==
  IF point \in Barriers THEN "MPI_Barrier"
  ELSE IF point = "bcast" THEN "MPI_Bcast"
  ELSE IF point = "finalize" THEN "MPI_Finalize" ELSE "none"

\* Where main goes on behind a barrier, or MPI_Finalize.
After(point) ==
  CASE point = "init" -> "options"
    [] point = "opened" -> "parse"
    [] point = "start" -> "interpret"
    [] point = "end" -> "gather"
    [] point = "cleaned" -> "free"
    [] point = "finalize" -> "exited"

\* How a command line can end the program: an option that does not exist, --version or
\* no file name, or a parameter of the kernel that does not exist.
Endings == {"none", "badOption", "quits", "badParameter"}

VARIABLES
  options,  \* the command line: [wait, ends], the same on every rank
  patient,  \* the user sends no signal before the master's message that it waits
  input,    \* per rank: what opening and parsing the kernel file yields
  pc,       \* per rank: its point
  inCall,   \* per rank: whether MPI has not yet completed the call it is at
  waitForStartSignal,  \* per rank: the flag, cleared by the handler or the broadcast
  handler,  \* per rank: disposition of SIGUSR1
  signals,  \* per rank: signals sent to it
  notified, \* the master's handler has run
  killed    \* a process died of a signal or exited outside of MPI, and mpirun ended the job

given == << options, patient, input >>
vars == << given, pc, inCall, waitForStartSignal, handler, signals, notified, killed >>

Init ==
  /\ options \in [wait : BOOLEAN, ends : Endings]
  /\ patient \in BOOLEAN
  /\ input \in Inputs
  /\ pc = [r \in Ranks |-> "init"]
  /\ inCall = [r \in Ranks |-> TRUE]
  /\ waitForStartSignal = [r \in Ranks |-> FALSE]
  /\ handler = [r \in Ranks |-> "default"]
  /\ signals = [r \in Ranks |-> 0]
  /\ notified = FALSE
  /\ killed = FALSE

At(r, point) == ~killed /\ pc[r] = point
Go(r, point) ==
  /\ pc' = [pc EXCEPT ![r] = point]
  /\ inCall' = [inCall EXCEPT ![r] = Call(point) # "none"]

-------------------------------------------------------------------------------

\* A collective call on the world completes when all ranks are in the same one.
Completes ==
  /\ ~killed
  /\ \A r, q \in Ranks : inCall[r] /\ Call(pc[r]) = Call(pc[q])
  /\ inCall' = [r \in Ranks |-> FALSE]
  /\ UNCHANGED << given, pc, waitForStartSignal, handler, signals, notified, killed >>

\* A barrier, or MPI_Finalize, returns.
CallReturns(r) ==
  /\ ~killed
  /\ Call(pc[r]) \in {"MPI_Barrier", "MPI_Finalize"} /\ ~inCall[r]
  /\ Go(r, After(pc[r]))
  /\ UNCHANGED << given, waitForStartSignal, handler, signals, notified, killed >>

\* exit(1) without MPI_Finalize: mpirun ends the job.
Exit1 ==
  /\ killed' = TRUE
  /\ UNCHANGED << given, pc, inCall, waitForStartSignal, handler, signals, notified >>

ParseParameters(r) ==
  /\ At(r, "options")
  /\ \/ options.ends = "badOption" /\ Exit1
     \/ /\ options.ends # "badOption"
        /\ waitForStartSignal' = [waitForStartSignal EXCEPT ![r] = options.wait]
        /\ Go(r, "handler")
        /\ UNCHANGED << given, handler, signals, notified, killed >>

\* Mutant: the handlers are installed whether or not --wait is given.
InstallHandler_Always(r) ==
  /\ At(r, "handler")
  /\ handler' = [handler EXCEPT ![r] = IF r = MASTER THEN "sigfunc" ELSE "ignore"]
  /\ Go(r, "checks")
  /\ UNCHANGED << given, waitForStartSignal, signals, notified, killed >>

\* The master is to be told by the signal; the others are not to die of it.
InstallHandler(r) ==
  /\ At(r, "handler")
  /\ handler' = [handler EXCEPT ![r] =
       IF ~waitForStartSignal[r] THEN @ ELSE IF r = MASTER THEN "sigfunc" ELSE "ignore"]
  /\ Go(r, "checks")
  /\ UNCHANGED << given, waitForStartSignal, signals, notified, killed >>

\* --version, or no file name: quit() goes straight to MPI_Finalize.
CheckArguments(r) ==
  /\ At(r, "checks")
  /\ Go(r, IF options.ends = "quits" THEN "finalize" ELSE "open")
  /\ UNCHANGED << given, waitForStartSignal, handler, signals, notified, killed >>

\* Mutant: only the master looks whether the file is there.
OpenFile_MasterOnly(r) ==
  /\ At(r, "open")
  /\ Go(r, IF input[r] = "missing" /\ r = MASTER THEN "finalize" ELSE "opened")
  /\ UNCHANGED << given, waitForStartSignal, handler, signals, notified, killed >>

\* A rank that cannot open the file quits on its own.
OpenFile(r) ==
  /\ At(r, "open")
  /\ Go(r, IF input[r] = "missing" THEN "finalize" ELSE "opened")
  /\ UNCHANGED << given, waitForStartSignal, handler, signals, notified, killed >>

\* yyerror finalizes MPI and exits.
Parse(r) ==
  /\ At(r, "parse")
  /\ Go(r, IF input[r] = "faulty" THEN "finalize" ELSE "params")
  /\ UNCHANGED << given, waitForStartSignal, handler, signals, notified, killed >>

\* The parameters on the command line are looked up in the kernel's list.
SetParameters(r) ==
  /\ At(r, "params")
  /\ \/ options.ends = "badParameter" /\ Exit1
     \/ /\ options.ends # "badParameter"
        /\ Go(r, "delay")
        /\ UNCHANGED << given, waitForStartSignal, handler, signals, notified, killed >>

\* Mutant: the master goes on although no signal came.
DelayStart_NoLoop(r) ==
  /\ At(r, "delay")
  /\ Go(r, IF ~waitForStartSignal[r] THEN "interpret" ELSE "bcast")
  /\ UNCHANGED << given, waitForStartSignal, handler, signals, notified, killed >>

\* Only a rank whose flag is still set calls delayStart.
DelayStart(r) ==
  /\ At(r, "delay")
  /\ Go(r, IF ~waitForStartSignal[r] THEN "interpret"
           ELSE IF r = MASTER THEN "waiting" ELSE "bcast")
  /\ UNCHANGED << given, waitForStartSignal, handler, signals, notified, killed >>

\* The master sleeps until its handler has cleared the flag.
StopWaiting ==
  /\ At(MASTER, "waiting")
  /\ ~waitForStartSignal[MASTER]
  /\ Go(MASTER, "bcast")
  /\ UNCHANGED << given, waitForStartSignal, handler, signals, notified, killed >>

\* MPI_Bcast returns with the master's flag.
Broadcast(r) ==
  /\ At(r, "bcast") /\ ~inCall[r]
  /\ waitForStartSignal' = [waitForStartSignal EXCEPT ![r] = waitForStartSignal[MASTER]]
  /\ Go(r, "start")
  /\ UNCHANGED << given, handler, signals, notified, killed >>

\* Mutant: the barrier and the gather functions after it are left out.
Interpret_NoGather(r) ==
  /\ At(r, "interpret")
  /\ Go(r, "report")
  /\ UNCHANGED << given, waitForStartSignal, handler, signals, notified, killed >>

\* iiStart, as one step: the module Interp shows it.
Interpret(r) ==
  /\ At(r, "interpret")
  /\ Go(r, "end")
  /\ UNCHANGED << given, waitForStartSignal, handler, signals, notified, killed >>

\* The gather functions, as one step: the module Gather shows them.  A sender may be
\* done as soon as MPI has buffered its messages, the master when all have sent.
GatherAll(r) ==
  /\ At(r, "gather")
  /\ r = MASTER => \A q \in Ranks : pc[q] \in {"gather", "report", "cleaned"}
  /\ Go(r, "report")
  /\ UNCHANGED << given, waitForStartSignal, handler, signals, notified, killed >>

\* The module Report shows what the master does here.
PrintReport(r) ==
  /\ At(r, "report")
  /\ Go(r, "cleaned")
  /\ UNCHANGED << given, waitForStartSignal, handler, signals, notified, killed >>

FreeTypes(r) ==
  /\ At(r, "free")
  /\ Go(r, "finalize")
  /\ UNCHANGED << given, waitForStartSignal, handler, signals, notified, killed >>

\* The user sends SIGUSR1 to one process.
Signal(r) ==
  /\ ~killed /\ pc[r] # "exited"
  /\ signals[r] < MaxSignals
  /\ patient => pc[MASTER] = "waiting"
  /\ signals' = [signals EXCEPT ![r] = @ + 1]
  /\ killed' = (handler[r] = "default")
  /\ IF handler[r] = "sigfunc"
     THEN waitForStartSignal' = [waitForStartSignal EXCEPT ![r] = FALSE] /\ notified' = TRUE
     ELSE UNCHANGED << waitForStartSignal, notified >>
  /\ UNCHANGED << given, pc, inCall, handler >>

Terminated ==
  /\ killed \/ \A r \in Ranks : pc[r] = "exited"
  /\ UNCHANGED vars

Step(r) ==
  \/ CallReturns(r) \/ ParseParameters(r) \/ InstallHandler(r) \/ CheckArguments(r)
  \/ OpenFile(r) \/ Parse(r) \/ SetParameters(r) \/ DelayStart(r) \/ Broadcast(r)
  \/ Interpret(r) \/ GatherAll(r) \/ PrintReport(r) \/ FreeTypes(r)
  \/ r = MASTER /\ StopWaiting

Next == Completes \/ (\E r \in Ranks : Step(r) \/ Signal(r)) \/ Terminated

Spec == Init /\ [][Next]_vars

\* Every process runs on and MPI completes its calls; nobody has to send a signal.
FairSpec == Spec /\ WF_vars(Completes) /\ (\A r \in Ranks : WF_vars(Step(r)))

-------------------------------------------------------------------------------
(* Properties.                                                                   *)

TypeOK ==
  /\ options \in [wait : BOOLEAN, ends : Endings]
  /\ patient \in BOOLEAN
  /\ input \in Inputs
  /\ pc \in [Ranks -> Points]
  /\ inCall \in [Ranks -> BOOLEAN]
  /\ \A r \in Ranks : inCall[r] => Call(pc[r]) # "none"
  /\ waitForStartSignal \in [Ranks -> BOOLEAN]
  /\ handler \in [Ranks -> {"default", "sigfunc", "ignore"}]
  /\ \A r \in Ranks : waitForStartSignal[r] \/ handler[r] # "default" => options.wait
  /\ signals \in [Ranks -> 0 .. MaxSignals]
  /\ notified \in BOOLEAN /\ killed \in BOOLEAN

\* All ranks find the same file.
SameInput == \A r, q \in Ranks : input[r] = input[q]

\* With --wait no rank begins the benchmark before the master's handler has seen
\* the signal (main.c:525: "wait for signal SIGUSR1").
NoStartBeforeSignal ==
  options.wait => \A r \in Ranks : pc[r] = "interpret" => notified

\* The stage of main that ends in the barrier at init, opened, start, end or cleaned;
\* what ranks that have left went through is told by their input.
StageOf(r) ==
  IF pc[r] = "init" THEN 0
  ELSE IF pc[r] \in {"options", "handler", "checks", "open", "opened"} THEN 1
  ELSE IF pc[r] \in {"parse", "params", "delay", "waiting", "bcast", "start"} THEN 2
  ELSE IF pc[r] \in {"interpret", "end"} THEN 3
  ELSE IF pc[r] \in {"gather", "report", "cleaned"} THEN 4
  ELSE IF pc[r] = "free" THEN 5
  ELSE IF options.ends = "quits" \/ input[r] = "missing" THEN 1
  ELSE IF input[r] = "faulty" THEN 2 ELSE 5
StatusOf(r) == IF pc[r] = "finalize" THEN "leaving" ELSE IF pc[r] = "exited" THEN "gone" ELSE "in"

\* Only a delayed start is a common one, and only if the user waits for the master's
\* message: see WorldNotified for one who does not.
Gates == IF options.wait /\ patient THEN 0 .. 4 ELSE {0, 1, 3, 4}

Abstract == INSTANCE Stages WITH
  Last   <- 5,
  Exits  <- {1, 2, 5},
  gates  <- Gates,
  stage  <- [r \in Ranks |-> StageOf(r)],
  status <- [r \in Ranks |-> StatusOf(r)]

\* main implements Stages: the master reports after all ranks have left the benchmark
\* (the barrier at main.c:536), a delayed benchmark starts when all have parsed the
\* kernel (main.c:447: "Collective start"), a rank that cannot open its file or finds a
\* syntax error leaves before the next barrier and holds the others up there, and no
\* rank exits while another one may still need it for a collective call.
Staged == Abstract!Spec

\* If all ranks find the same file and the user is patient, every rank exits, except
\* that the master waits for a signal nobody sends or that a process dies of one.
AllExit ==
  SameInput /\ patient => <>(killed \/ (\A r \in Ranks : pc[r] = "exited")
                         \/ (pc[MASTER] = "waiting" /\ ~notified))

\* main.c:434 logs "Start signal received, notifying world...": once the signal is
\* received, every rank should get to the benchmark.
WorldNotified == notified ~> (killed \/ \A r \in Ranks : StageOf(r) >= 3)
===============================================================================
