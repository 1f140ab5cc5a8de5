---------------------------- MODULE LifecycleProofs ----------------------------
(***************************************************************************)
(* Proofs about main() for every number of ranks, whatever files they find *)
(* and however many signals arrive: type correctness, no start before the  *)
(* signal, and that Lifecycle implements Stages.                           *)
(***************************************************************************)
EXTENDS Lifecycle, TLAPS

-------------------------------------------------------------------------------
(* The invariant.                                                               *)

\* Until the master's handler has run, a delayed start holds everybody up: the master
\* does not come to the broadcast, so it does not complete for the others.
BeforeDelay ==
  {"handler", "checks", "open", "opened", "parse", "params", "delay", "waiting", "bcast"}
SignalInv ==
  options.wait /\ ~notified =>
    /\ \A r \in Ranks :
         /\ pc[r] \in BeforeDelay \cup {"init", "options", "finalize", "exited"}
         /\ pc[r] \in BeforeDelay => waitForStartSignal[r]
         /\ pc[r] = "bcast" => inCall[r]
    /\ pc[MASTER] # "bcast"

\* A rank that has got somewhere found what it needed on the way.
Parsed ==
  {"params", "delay", "waiting", "bcast", "start", "interpret", "end", "gather", "report",
   "cleaned", "free"}
Opened == {"opened", "parse"} \cup Parsed
PathInv ==
  \A r \in Ranks :
    /\ pc[r] \in Opened \cup {"open"} => options.ends # "quits"
    /\ pc[r] \in Opened => input[r] # "missing"
    /\ pc[r] \in Parsed => input[r] # "faulty"

\* A patient user's signal finds the master waiting.
PatientInv ==
  /\ \A r \in Ranks : handler[r] = "sigfunc" => r = MASTER
  /\ options.wait /\ patient =>
       \A r \in Ranks : pc[r] \in BeforeDelay \ {"waiting", "bcast"} => waitForStartSignal[r]

\* From the completion of the broadcast to that of the barrier behind it, all ranks are
\* between the two.
Between(r) == (pc[r] = "bcast" /\ ~inCall[r]) \/ (pc[r] = "start" /\ inCall[r])
JointInv == \A r, q \in Ranks : Between(r) => Between(q)

\* MPI_Finalize has completed for all ranks or for none.
Finalized(r) == pc[r] = "exited" \/ (pc[r] = "finalize" /\ ~inCall[r])
FinalInv == \A r, q \in Ranks : Finalized(r) => Finalized(q)

\* A gate's barrier has completed for all ranks or for none.
GateOf(s) ==
  IF s = 0 THEN "init" ELSE IF s = 1 THEN "opened" ELSE IF s = 2 THEN "start"
  ELSE IF s = 3 THEN "end" ELSE "cleaned"
Through(r, s) == StageOf(r) > s \/ (pc[r] = GateOf(s) /\ ~inCall[r])
GateInv == \A s \in Gates : \A r, q \in Ranks : Through(r, s) => Through(q, s)

\* What the refinement needs; SignalInv is inductive without it.
SInv == TypeOK /\ PathInv /\ PatientInv /\ JointInv /\ FinalInv /\ GateInv

-------------------------------------------------------------------------------
(* Type correctness.                                                            *)

LEMMA MasterRank == MASTER \in Ranks
BY SizeAssumption DEF MASTER, Ranks

\* The steps of one rank are of two kinds.
LEMMA GoTypes ==
  ASSUME TypeOK, NEW r \in Ranks, NEW point \in Points, Go(r, point)
  PROVE  /\ pc' \in [Ranks -> Points]
         /\ inCall' \in [Ranks -> BOOLEAN]
         /\ \A q \in Ranks : inCall'[q] => Call(pc'[q]) # "none"
<1>1. pc' = [pc EXCEPT ![r] = point] /\ inCall' = [inCall EXCEPT ![r] = Call(point) # "none"]
  BY DEF Go
<1>2. (Call(point) # "none") \in BOOLEAN
  OBVIOUS
<1>3. pc' \in [Ranks -> Points] /\ inCall' \in [Ranks -> BOOLEAN]
  BY <1>1, <1>2 DEF TypeOK
<1>4. ASSUME NEW q \in Ranks, inCall'[q]
      PROVE  Call(pc'[q]) # "none"
  BY <1>1, <1>4 DEF TypeOK
<1>. QED BY <1>3, <1>4

LEMMA TypeInit == Init => TypeOK
<1> SUFFICES ASSUME Init PROVE TypeOK
  OBVIOUS
<1>1. "init" \in Points /\ Call("init") = "MPI_Barrier"
  BY DEF Points, Barriers, Call
<1>2. pc \in [Ranks -> Points] /\ inCall \in [Ranks -> BOOLEAN] /\ signals \in [Ranks -> 0 .. MaxSignals]
  BY <1>1, SignalAssumption DEF Init
<1>3. \A r \in Ranks : Call(pc[r]) # "none" /\ ~waitForStartSignal[r] /\ handler[r] = "default"
  BY <1>1 DEF Init
<1>4. /\ waitForStartSignal \in [Ranks -> BOOLEAN]
      /\ handler \in [Ranks -> {"default", "sigfunc", "ignore"}]
  BY DEF Init
<1>5. /\ options \in [wait : BOOLEAN, ends : Endings] /\ patient \in BOOLEAN /\ input \in Inputs
      /\ notified \in BOOLEAN /\ killed \in BOOLEAN
  BY DEF Init
<1>. QED BY <1>2, <1>3, <1>4, <1>5 DEF TypeOK

LEMMA TypeStep ==
  ASSUME TypeOK, NEW r \in Ranks, Step(r)
  PROVE  TypeOK'
<1> USE MasterRank
<1>1. CASE CallReturns(r)
  <2>1. After(pc[r]) \in Points
    BY <1>1 DEF CallReturns, Call, After, Points, Barriers, TypeOK
  <2>2. Go(r, After(pc[r]))
    BY <1>1 DEF CallReturns
  <2>3. UNCHANGED << given, waitForStartSignal, handler, signals, notified, killed >>
    BY <1>1 DEF CallReturns
  <2>. QED BY <2>1, <2>2, <2>3, GoTypes DEF TypeOK, given
<1>2. CASE ParseParameters(r)
  <2>1. CASE Exit1
    BY <2>1 DEF Exit1, TypeOK, given
  <2>2. CASE Go(r, "handler")
    <3>1. /\ waitForStartSignal' = [waitForStartSignal EXCEPT ![r] = options.wait] \/ Exit1
          /\ "handler" \in Points
      BY <1>2 DEF ParseParameters, Points
    <3>2. UNCHANGED << given, handler, signals, notified >> \/ Exit1
      BY <1>2 DEF ParseParameters
    <3>. QED BY <3>1, <3>2, <2>1, <2>2, GoTypes, <1>2 DEF TypeOK, given, ParseParameters
  <2>. QED BY <1>2, <2>1, <2>2 DEF ParseParameters
<1>3. CASE InstallHandler(r)
  <2>1. "checks" \in Points /\ Go(r, "checks")
    BY <1>3 DEF InstallHandler, Points
  <2>. QED BY <2>1, <1>3, GoTypes DEF TypeOK, given, InstallHandler
<1>4. CASE Broadcast(r)
  <2>1. "start" \in Points /\ Go(r, "start")
    BY <1>4 DEF Broadcast, Points, Barriers
  <2>. QED BY <2>1, <1>4, GoTypes DEF TypeOK, given, Broadcast
<1>5. CASE SetParameters(r) /\ Exit1
  BY <1>5 DEF Exit1, TypeOK, given
<1>6. CASE \/ CheckArguments(r) \/ OpenFile(r) \/ Parse(r) \/ (SetParameters(r) /\ ~Exit1)
           \/ DelayStart(r) \/ Interpret(r) \/ GatherAll(r) \/ PrintReport(r) \/ FreeTypes(r)
           \/ (r = MASTER /\ StopWaiting)
  <2>1. \E point \in Points : Go(r, point)
    BY <1>6 DEF CheckArguments, OpenFile, Parse, SetParameters, DelayStart, Interpret, GatherAll,
                PrintReport, FreeTypes, StopWaiting, Points, Barriers
  <2>2. UNCHANGED << given, waitForStartSignal, handler, signals, notified, killed >>
    BY <1>6 DEF CheckArguments, OpenFile, Parse, SetParameters, DelayStart, Interpret, GatherAll,
                PrintReport, FreeTypes, StopWaiting
  <2>. QED BY <2>1, <2>2, GoTypes DEF TypeOK, given
<1>. QED BY <1>1, <1>2, <1>3, <1>4, <1>5, <1>6 DEF Step

LEMMA TypeCompletes == TypeOK /\ Completes => TypeOK'
BY DEF TypeOK, Completes, given

LEMMA TypeSignal ==
  ASSUME TypeOK, NEW r \in Ranks, Signal(r)
  PROVE  TypeOK'
<1>1. signals[r] + 1 \in 0 .. MaxSignals
  BY SignalAssumption DEF TypeOK, Signal
<1>2. signals' \in [Ranks -> 0 .. MaxSignals]
  BY <1>1 DEF TypeOK, Signal
<1>3. waitForStartSignal' \in [Ranks -> BOOLEAN] /\ notified' \in BOOLEAN /\ killed' \in BOOLEAN
  BY DEF TypeOK, Signal
<1>4. \A q \in Ranks : waitForStartSignal'[q] => waitForStartSignal[q]
  BY DEF TypeOK, Signal
<1>. QED BY <1>2, <1>3, <1>4 DEF TypeOK, Signal, given

LEMMA TypeNext == TypeOK /\ [Next]_vars => TypeOK'
<1> SUFFICES ASSUME TypeOK, [Next]_vars PROVE TypeOK'
  OBVIOUS
<1>1. CASE Completes
  BY <1>1, TypeCompletes
<1>2. CASE \E r \in Ranks : Step(r) \/ Signal(r)
  BY <1>2, TypeStep, TypeSignal
<1>3. CASE UNCHANGED vars
  BY <1>3 DEF vars, given, TypeOK
<1>. QED BY <1>1, <1>2, <1>3 DEF Next, Terminated

\* In every run the ranks are at points of main, in a call only where main makes one, and
\* have a flag or a handler only with --wait (main.c:452-563).
THEOREM TypeCorrect == Spec => []TypeOK
<1>1. Init => TypeOK
  BY TypeInit
<1>2. TypeOK /\ [Next]_vars => TypeOK'
  BY TypeNext
<1>. QED BY <1>1, <1>2, PTL DEF Spec

-------------------------------------------------------------------------------
(* No start before the signal.                                                  *)

\* What a step of a rank leaves alone.
LEMMA StepFrame ==
  ASSUME NEW r \in Ranks, Step(r)
  PROVE  UNCHANGED << given, handler, notified >> \/ InstallHandler(r)
BY DEF Step, CallReturns, ParseParameters, InstallHandler, CheckArguments, OpenFile, Parse,
       SetParameters, DelayStart, Broadcast, Interpret, GatherAll, PrintReport, FreeTypes,
       StopWaiting, Exit1

LEMMA SignalStep ==
  ASSUME TypeOK, SignalInv, NEW r \in Ranks, Step(r)
  PROVE  SignalInv'
<1> SUFFICES ASSUME options.wait', ~notified'
             PROVE  /\ \A q \in Ranks :
                         /\ pc'[q] \in BeforeDelay \cup {"init", "options", "finalize", "exited"}
                         /\ pc'[q] \in BeforeDelay => waitForStartSignal'[q]
                         /\ pc'[q] = "bcast" => inCall'[q]
                    /\ pc'[MASTER] # "bcast"
  BY DEF SignalInv
<1>1. options.wait /\ ~notified
  BY StepFrame DEF given, InstallHandler
<1>2. /\ \A q \in Ranks :
           /\ pc[q] \in BeforeDelay \cup {"init", "options", "finalize", "exited"}
           /\ pc[q] \in BeforeDelay => waitForStartSignal[q]
           /\ pc[q] = "bcast" => inCall[q]
      /\ pc[MASTER] # "bcast"
  BY <1>1 DEF SignalInv
<1> USE MasterRank DEF TypeOK
<1>3. CASE CallReturns(r)
  BY <1>2, <1>3 DEF CallReturns, Go, After, Call, Barriers, BeforeDelay
<1>4. CASE ParseParameters(r)
  BY <1>1, <1>2, <1>4 DEF ParseParameters, Exit1, At, Go, Call, Barriers, BeforeDelay
<1>5. CASE \/ InstallHandler(r) \/ CheckArguments(r) \/ OpenFile(r) \/ Parse(r) \/ SetParameters(r)
  BY <1>2, <1>5 DEF InstallHandler, CheckArguments, OpenFile, Parse, SetParameters, Exit1,
                    At, Go, Call, Barriers, BeforeDelay
<1>6. CASE DelayStart(r)
  BY <1>2, <1>6 DEF DelayStart, At, Go, Call, Barriers, BeforeDelay
<1>7. CASE \/ Broadcast(r) \/ Interpret(r) \/ GatherAll(r) \/ PrintReport(r) \/ FreeTypes(r)
           \/ (r = MASTER /\ StopWaiting)
  BY <1>2, <1>7 DEF Broadcast, Interpret, GatherAll, PrintReport, FreeTypes, StopWaiting, At,
                    BeforeDelay
<1>. QED BY <1>3, <1>4, <1>5, <1>6, <1>7 DEF Step

LEMMA SignalSignal ==
  ASSUME TypeOK, SignalInv, NEW r \in Ranks, Signal(r)
  PROVE  SignalInv'
BY DEF Signal, SignalInv, given

LEMMA SignalCompletes == TypeOK /\ SignalInv /\ Completes => SignalInv'
<1> SUFFICES ASSUME TypeOK, SignalInv, Completes, options.wait, ~notified
             PROVE  SignalInv'
  BY DEF Completes, given, SignalInv
<1>1. Call("bcast") = "MPI_Bcast"
  BY DEF Call, Barriers
<1>2. pc[MASTER] # "bcast" /\ pc[MASTER] \in Points
  BY MasterRank DEF SignalInv, TypeOK
<1>3. Call(pc[MASTER]) # "MPI_Bcast"
  BY <1>2 DEF Call
<1>4. \A q \in Ranks : pc[q] # "bcast"
  BY <1>1, <1>3, MasterRank DEF Completes
<1>. QED BY <1>4 DEF SignalInv, Completes, given

\* With --wait no rank begins the benchmark before the master's handler has seen the signal
\* (main.c:439-450, 525).
THEOREM StartsAfterSignal == Spec => []NoStartBeforeSignal
<1>1. Init => TypeOK /\ SignalInv
  <2>1. Init => SignalInv
    BY MasterRank DEF Init, SignalInv, BeforeDelay
  <2>. QED BY <2>1, TypeInit
<1>2. TypeOK /\ SignalInv /\ [Next]_vars => SignalInv'
  <2> SUFFICES ASSUME TypeOK, SignalInv, [Next]_vars PROVE SignalInv'
    OBVIOUS
  <2>1. CASE Completes
    BY <2>1, SignalCompletes
  <2>2. CASE \E r \in Ranks : Step(r) \/ Signal(r)
    BY <2>2, SignalStep, SignalSignal
  <2>3. CASE UNCHANGED vars
    BY <2>3 DEF vars, given, SignalInv
  <2>. QED BY <2>1, <2>2, <2>3 DEF Next, Terminated
<1>3. SignalInv => NoStartBeforeSignal
  BY DEF SignalInv, NoStartBeforeSignal, BeforeDelay
<1>. QED BY <1>1, <1>2, <1>3, TypeNext, PTL DEF Spec

-------------------------------------------------------------------------------
(* How a rank moves.                                                            *)

\* On to the next point of the same stage.
WalksOn(r, point) ==
  \/ pc[r] = "options" /\ point = "handler"
  \/ pc[r] = "handler" /\ point = "checks"
  \/ pc[r] = "checks" /\ point = "open" /\ options.ends # "quits"
  \/ pc[r] = "open" /\ point = "opened" /\ input[r] # "missing"
  \/ pc[r] = "parse" /\ point = "params" /\ input[r] # "faulty"
  \/ pc[r] = "params" /\ point = "delay"
  \/ pc[r] = "delay" /\ point \in {"waiting", "bcast"}
  \/ pc[r] = "waiting" /\ point = "bcast"
  \/ pc[r] = "bcast" /\ ~inCall[r] /\ point = "start"
  \/ pc[r] = "interpret" /\ point = "end"
  \/ pc[r] = "gather" /\ point = "report"
  \/ pc[r] = "report" /\ point = "cleaned"
\* Through the barrier at the end of a stage, or to the benchmark without one.
PassesGate(r, point, s) ==
  pc[r] = GateOf(s) /\ ~inCall[r] /\ point = After(GateOf(s))
SkipsDelay(r, point) == pc[r] = "delay" /\ point = "interpret" /\ 2 \notin Gates
\* To MPI_Finalize, and behind it.
GivesUp(r, point) ==
  /\ point = "finalize"
  /\ \/ pc[r] = "checks" /\ options.ends = "quits"
     \/ pc[r] = "open" /\ input[r] = "missing"
     \/ pc[r] = "parse" /\ input[r] = "faulty"
     \/ pc[r] = "free"
Exits(r, point) == pc[r] = "finalize" /\ ~inCall[r] /\ point = "exited"

Moves(r, point) ==
  \/ WalksOn(r, point) \/ SkipsDelay(r, point) \/ GivesUp(r, point) \/ Exits(r, point)
  \/ \E s \in 0 .. 4 : PassesGate(r, point, s)

LEMMA StepMoves ==
  ASSUME TypeOK, PatientInv, NEW r \in Ranks, Step(r)
  PROVE  /\ UNCHANGED given
         /\ \/ UNCHANGED << pc, inCall >>
            \/ \E point \in Points : Go(r, point) /\ Moves(r, point)
<1>0. /\ pc[r] \in Points /\ inCall[r] \in BOOLEAN /\ input[r] \in {"good", "faulty", "missing"}
      /\ options.wait \in BOOLEAN /\ patient \in BOOLEAN
  BY InputsAssumption DEF TypeOK
<1>1. UNCHANGED given
  BY DEF Step, CallReturns, ParseParameters, InstallHandler, CheckArguments, OpenFile, Parse,
         SetParameters, DelayStart, Broadcast, Interpret, GatherAll, PrintReport, FreeTypes,
         StopWaiting, Exit1
<1>2. CASE CallReturns(r)
  <2>1. Go(r, After(pc[r])) /\ ~inCall[r] /\ Call(pc[r]) \in {"MPI_Barrier", "MPI_Finalize"}
    BY <1>2 DEF CallReturns
  <2>2. pc[r] \in Barriers \cup {"finalize"}
    BY <2>1 DEF Call
  <2>3. After(pc[r]) \in Points
    BY <2>2 DEF After, Points, Barriers
  <2>4. CASE pc[r] = "finalize"
    BY <2>1, <2>3, <2>4, <1>1 DEF Moves, Exits, After
  <2>5. CASE pc[r] \in Barriers
    <3>1. \E s \in 0 .. 4 : pc[r] = GateOf(s)
      BY <2>5 DEF Barriers, GateOf
    <3>. QED BY <3>1, <2>1, <2>3, <1>1 DEF Moves, PassesGate
  <2>. QED BY <2>2, <2>4, <2>5
<1>3. CASE DelayStart(r)
  <2>1. pc[r] = "delay"
    BY <1>3 DEF DelayStart, At
  <2>2. CASE waitForStartSignal[r]
    <3>1. \E point \in {"waiting", "bcast"} : Go(r, point)
      BY <1>3, <2>2 DEF DelayStart
    <3>2. {"waiting", "bcast"} \subseteq Points
      BY DEF Points
    <3>. QED BY <2>1, <3>1, <3>2, <1>1 DEF Moves, WalksOn
  <2>3. CASE ~waitForStartSignal[r]
    <3>1. Go(r, "interpret") /\ "interpret" \in Points
      BY <1>3, <2>3 DEF DelayStart, Points
    <3>2. ~(options.wait /\ patient)
      BY <2>1, <2>3 DEF PatientInv, BeforeDelay
    <3>3. 2 \notin Gates
      BY <3>2 DEF Gates
    <3>. QED BY <2>1, <3>1, <3>3, <1>1 DEF Moves, SkipsDelay
  <2>. QED BY <2>2, <2>3
<1>4. CASE \/ ParseParameters(r) \/ InstallHandler(r) \/ SetParameters(r) \/ Broadcast(r)
           \/ Interpret(r) \/ GatherAll(r) \/ PrintReport(r) \/ (r = MASTER /\ StopWaiting)
  <2>1. UNCHANGED << pc, inCall >> \/
        \E point \in {"handler", "checks", "delay", "start", "end", "report", "cleaned", "bcast"} :
          Go(r, point) /\ WalksOn(r, point)
    BY <1>4 DEF ParseParameters, InstallHandler, SetParameters, Broadcast, Interpret, GatherAll,
                PrintReport, StopWaiting, Exit1, At, WalksOn
  <2>2. {"handler", "checks", "delay", "start", "end", "report", "cleaned", "bcast"} \subseteq Points
    BY DEF Points, Barriers
  <2>. QED BY <2>1, <2>2, <1>1 DEF Moves
<1>5. CASE CheckArguments(r) \/ OpenFile(r) \/ Parse(r) \/ FreeTypes(r)
  <2>1. \E point \in {"open", "opened", "params", "finalize"} :
          Go(r, point) /\ (WalksOn(r, point) \/ GivesUp(r, point))
    BY <1>5, <1>0 DEF CheckArguments, OpenFile, Parse, FreeTypes, At, WalksOn, GivesUp
  <2>2. {"open", "opened", "params", "finalize"} \subseteq Points
    BY DEF Points, Barriers
  <2>. QED BY <2>1, <2>2, <1>1 DEF Moves
<1>. QED BY <1>2, <1>3, <1>4, <1>5 DEF Step

\* The parts of a move that all lemmas below use.
LEMMA GoParts ==
  ASSUME TypeOK, NEW r \in Ranks, NEW point \in Points, Go(r, point)
  PROVE  /\ pc'[r] = point /\ inCall'[r] = (Call(point) # "none")
         /\ \A q \in Ranks \ {r} : pc'[q] = pc[q] /\ inCall'[q] = inCall[q]
BY DEF Go, TypeOK

LEMMA PathStep ==
  ASSUME TypeOK, PathInv, NEW r \in Ranks, NEW point \in Points, Go(r, point), Moves(r, point),
         UNCHANGED given
  PROVE  PathInv'
<1>1. ASSUME NEW q \in Ranks, q # r
      PROVE  /\ pc'[q] \in Opened \cup {"open"} => options.ends # "quits"
             /\ pc'[q] \in Opened => input[q] # "missing"
             /\ pc'[q] \in Parsed => input[q] # "faulty"
  BY <1>1, GoParts DEF PathInv
<1>2. /\ point \in Opened \cup {"open"} => options.ends # "quits"
      /\ point \in Opened => input[r] # "missing"
      /\ point \in Parsed => input[r] # "faulty"
  <2>1. CASE WalksOn(r, point)
    BY <2>1 DEF WalksOn, PathInv, Opened, Parsed
  <2>2. CASE SkipsDelay(r, point) \/ GivesUp(r, point) \/ Exits(r, point)
    BY <2>2 DEF SkipsDelay, GivesUp, Exits, PathInv, Opened, Parsed
  <2>3. CASE \E s \in 0 .. 4 : PassesGate(r, point, s)
    BY <2>3 DEF PassesGate, GateOf, After, PathInv, Opened, Parsed
  <2>. QED BY <2>1, <2>2, <2>3 DEF Moves
<1>. QED BY <1>1, <1>2, GoParts DEF PathInv, given

LEMMA JointStep ==
  ASSUME TypeOK, JointInv, NEW r \in Ranks, NEW point \in Points, Go(r, point), Moves(r, point)
  PROVE  JointInv'
<1>1. \A q \in Ranks \ {r} : Between(q)' <=> Between(q)
  BY GoParts DEF Between
<1>2. Between(r)' <=> Between(r)
  <2>1. Between(r)' <=> (point = "start")
    BY GoParts DEF Between, Call, Barriers
  <2>2. CASE WalksOn(r, point)
    BY <2>1, <2>2 DEF WalksOn, Between
  <2>3. CASE SkipsDelay(r, point) \/ GivesUp(r, point) \/ Exits(r, point)
    BY <2>1, <2>3 DEF SkipsDelay, GivesUp, Exits, Between
  <2>4. CASE \E s \in 0 .. 4 : PassesGate(r, point, s)
    BY <2>1, <2>4 DEF PassesGate, GateOf, After, Between
  <2>. QED BY <2>2, <2>3, <2>4 DEF Moves
<1>3. \A q \in Ranks : Between(q)' <=> Between(q)
  BY <1>1, <1>2
<1>. QED BY <1>3 DEF JointInv

LEMMA FinalStep ==
  ASSUME TypeOK, FinalInv, NEW r \in Ranks, NEW point \in Points, Go(r, point), Moves(r, point)
  PROVE  FinalInv'
<1>1. \A q \in Ranks \ {r} : Finalized(q)' <=> Finalized(q)
  BY GoParts DEF Finalized
<1>2. Finalized(r)' <=> Finalized(r)
  <2>1. Finalized(r)' <=> (point = "exited")
    BY GoParts DEF Finalized, Call, Barriers
  <2>2. CASE WalksOn(r, point)
    BY <2>1, <2>2 DEF WalksOn, Finalized
  <2>3. CASE SkipsDelay(r, point) \/ GivesUp(r, point) \/ Exits(r, point)
    BY <2>1, <2>3 DEF SkipsDelay, GivesUp, Exits, Finalized
  <2>4. CASE \E s \in 0 .. 4 : PassesGate(r, point, s)
    BY <2>1, <2>4 DEF PassesGate, GateOf, After, Finalized
  <2>. QED BY <2>2, <2>3, <2>4 DEF Moves
<1>3. \A q \in Ranks : Finalized(q)' <=> Finalized(q)
  BY <1>1, <1>2
<1>. QED BY <1>3 DEF FinalInv

LEMMA PatientStep ==
  ASSUME TypeOK, PatientInv, NEW r \in Ranks, Step(r)
  PROVE  PatientInv'
<1> USE DEF TypeOK
<1>1. UNCHANGED given
  BY StepMoves
<1>2. ASSUME NEW q \in Ranks, handler'[q] = "sigfunc"
      PROVE  q = MASTER
  BY <1>2, StepFrame DEF PatientInv, InstallHandler
<1>3. ASSUME options.wait, patient, NEW q \in Ranks,
             pc'[q] \in BeforeDelay \ {"waiting", "bcast"}
      PROVE  waitForStartSignal'[q]
  <2>1. pc[q] \in BeforeDelay \ {"waiting", "bcast"} => waitForStartSignal[q]
    BY <1>3 DEF PatientInv
  <2>2. CASE ParseParameters(r)
    BY <2>1, <2>2, <1>3 DEF ParseParameters, Exit1, At, Go, BeforeDelay
  <2>3. CASE CallReturns(r)
    BY <2>1, <2>3, <1>3 DEF CallReturns, Go, After, Call, Barriers, BeforeDelay
  <2>4. CASE \/ InstallHandler(r) \/ CheckArguments(r) \/ OpenFile(r) \/ Parse(r) \/ SetParameters(r)
    BY <2>1, <2>4, <1>3 DEF InstallHandler, CheckArguments, OpenFile, Parse, SetParameters, Exit1,
                            At, Go, BeforeDelay
  <2>5. CASE \/ DelayStart(r) \/ Interpret(r) \/ GatherAll(r) \/ PrintReport(r) \/ FreeTypes(r)
             \/ (r = MASTER /\ StopWaiting)
    BY <2>1, <2>5, <1>3 DEF DelayStart, Interpret, GatherAll, PrintReport, FreeTypes, StopWaiting,
                            At, Go, BeforeDelay
  <2>6. CASE Broadcast(r)
    BY <2>1, <2>6, <1>3 DEF Broadcast, At, Go, BeforeDelay
  <2>. QED BY <2>2, <2>3, <2>4, <2>5, <2>6 DEF Step
<1>. QED BY <1>1, <1>2, <1>3 DEF PatientInv, given

LEMMA PatientSignal ==
  ASSUME TypeOK, PatientInv, NEW r \in Ranks, Signal(r)
  PROVE  PatientInv'
<1>1. ASSUME options.wait, patient, NEW q \in Ranks,
             pc[q] \in BeforeDelay \ {"waiting", "bcast"}
      PROVE  waitForStartSignal'[q]
  <2>1. waitForStartSignal[q]
    BY <1>1 DEF PatientInv
  <2>2. CASE handler[r] = "sigfunc"
    <3>1. r = MASTER /\ pc[MASTER] = "waiting"
      BY <1>1, <2>2 DEF PatientInv, Signal
    <3>. QED BY <1>1, <2>1, <2>2, <3>1 DEF Signal, TypeOK
  <2>3. CASE handler[r] # "sigfunc"
    BY <2>1, <2>3 DEF Signal
  <2>. QED BY <2>2, <2>3
<1>. QED BY <1>1 DEF PatientInv, Signal, given

-------------------------------------------------------------------------------
(* Stages and gates.                                                            *)

LEMMA StageRange ==
  ASSUME NEW r \in Ranks
  PROVE  StageOf(r) \in 0 .. 5
BY DEF StageOf

\* What a move does to the stage and the status of the rank.
LEMMA MoveStage ==
  ASSUME TypeOK, PathInv, NEW r \in Ranks, NEW point \in Points, Go(r, point), UNCHANGED given
  PROVE  /\ \A q \in Ranks \ {r} : StageOf(q)' = StageOf(q) /\ StatusOf(q)' = StatusOf(q)
         /\ WalksOn(r, point) =>
              StageOf(r)' = StageOf(r) /\ StatusOf(r) = "in" /\ StatusOf(r)' = "in"
         /\ SkipsDelay(r, point) =>
              /\ StageOf(r) = 2 /\ StageOf(r)' = 3
              /\ StatusOf(r) = "in" /\ StatusOf(r)' = "in"
         /\ GivesUp(r, point) =>
              /\ StageOf(r)' = StageOf(r) /\ StageOf(r) \in {1, 2, 5}
              /\ StatusOf(r) = "in" /\ StatusOf(r)' = "leaving"
         /\ Exits(r, point) =>
              /\ StageOf(r)' = StageOf(r)
              /\ StatusOf(r) = "leaving" /\ StatusOf(r)' = "gone"
         /\ \A s \in 0 .. 4 : PassesGate(r, point, s) =>
              /\ StageOf(r) = s /\ StageOf(r)' = s + 1
              /\ StatusOf(r) = "in" /\ StatusOf(r)' = "in"
<1> USE GoParts
<1>1. \A q \in Ranks \ {r} : StageOf(q)' = StageOf(q) /\ StatusOf(q)' = StatusOf(q)
  BY DEF StageOf, StatusOf, given
<1>2. WalksOn(r, point) => StageOf(r)' = StageOf(r) /\ StatusOf(r) = "in" /\ StatusOf(r)' = "in"
  BY DEF WalksOn, StageOf, StatusOf, given
<1>3. SkipsDelay(r, point) => /\ StageOf(r) = 2 /\ StageOf(r)' = 3
                              /\ StatusOf(r) = "in" /\ StatusOf(r)' = "in"
  BY DEF SkipsDelay, StageOf, StatusOf
<1>4. GivesUp(r, point) => /\ StageOf(r)' = StageOf(r) /\ StageOf(r) \in {1, 2, 5}
                           /\ StatusOf(r) = "in" /\ StatusOf(r)' = "leaving"
  BY DEF GivesUp, StageOf, StatusOf, given, PathInv, Opened, Parsed
<1>5. Exits(r, point) => /\ StageOf(r)' = StageOf(r)
                         /\ StatusOf(r) = "leaving" /\ StatusOf(r)' = "gone"
  BY DEF Exits, StageOf, StatusOf, given
<1>6. ASSUME NEW s \in 0 .. 4, PassesGate(r, point, s)
      PROVE  /\ StageOf(r) = s /\ StageOf(r)' = s + 1
             /\ StatusOf(r) = "in" /\ StatusOf(r)' = "in"
  BY <1>6 DEF PassesGate, GateOf, After, StageOf, StatusOf
<1>. QED BY <1>1, <1>2, <1>3, <1>4, <1>5, <1>6

LEMMA GatesRange == Gates \subseteq 0 .. 4
BY DEF Gates

LEMMA GateStep ==
  ASSUME TypeOK, PathInv, GateInv, NEW r \in Ranks, NEW point \in Points, Go(r, point),
         Moves(r, point), UNCHANGED given
  PROVE  GateInv'
<1> USE GatesRange, GoParts
<1>1. Gates' = Gates
  BY DEF Gates, given
<1>2. ASSUME NEW s \in Gates, NEW q \in Ranks \ {r}
      PROVE  Through(q, s)' <=> Through(q, s)
  BY MoveStage DEF Through
<1>3. ASSUME NEW s \in Gates
      PROVE  Through(r, s)' <=> Through(r, s)
  <2>0. StageOf(r) \in 0 .. 5 /\ s \in 0 .. 4
    BY StageRange
  <2>1. Through(r, s)' <=> StageOf(r)' > s
    <3>1. pc'[r] = GateOf(s) => inCall'[r]
      BY <2>0 DEF GateOf, Call, Barriers
    <3>. QED BY <3>1 DEF Through
  <2>2. CASE WalksOn(r, point)
    <3>1. ~(pc[r] = GateOf(s) /\ ~inCall[r])
      BY <2>2, <2>0 DEF WalksOn, GateOf
    <3>. QED BY <2>1, <2>2, <3>1, MoveStage DEF Through
  <2>3. CASE SkipsDelay(r, point)
    <3>1. s # 2 /\ pc[r] # GateOf(s)
      BY <2>3, <2>0 DEF SkipsDelay, GateOf
    <3>2. StageOf(r) = 2 /\ StageOf(r)' = 3
      BY <2>3, MoveStage
    <3>. QED BY <2>0, <2>1, <3>1, <3>2 DEF Through
  <2>4. CASE GivesUp(r, point) \/ Exits(r, point)
    <3>1. pc[r] # GateOf(s)
      BY <2>4, <2>0 DEF GivesUp, Exits, GateOf
    <3>2. StageOf(r)' = StageOf(r)
      BY <2>4, MoveStage
    <3>. QED BY <2>1, <3>1, <3>2 DEF Through
  <2>5. ASSUME NEW t \in 0 .. 4, PassesGate(r, point, t)
        PROVE  Through(r, s)' <=> Through(r, s)
    <3>1. StageOf(r) = t /\ StageOf(r)' = t + 1
      BY <2>5, MoveStage
    <3>2. pc[r] = GateOf(t) /\ ~inCall[r]
      BY <2>5 DEF PassesGate
    <3>3. pc[r] = GateOf(s) => s = t
      BY <3>2, <2>0, <2>5 DEF GateOf
    <3>. QED BY <2>0, <2>1, <3>1, <3>2, <3>3 DEF Through
  <2>. QED BY <2>2, <2>3, <2>4, <2>5 DEF Moves
<1>4. \A s \in Gates : \A q \in Ranks : Through(q, s)' <=> Through(q, s)
  BY <1>2, <1>3
<1>. QED BY <1>1, <1>4 DEF GateInv

\* The ranks in a barrier that completes are in the same one: one that is behind would be
\* in a barrier that the ranks ahead have passed with it.
LEMMA SameBarrier ==
  ASSUME TypeOK, JointInv, GateInv, NEW r \in Ranks, NEW q \in Ranks,
         pc[r] \in Barriers, pc[q] \in Barriers, inCall[r], inCall[q]
  PROVE  StageOf(q) >= StageOf(r)
<1>1. /\ StageOf(r) \in 0 .. 4 /\ pc[r] = GateOf(StageOf(r))
      /\ StageOf(q) \in 0 .. 4 /\ pc[q] = GateOf(StageOf(q))
  BY DEF Barriers, StageOf, GateOf
<1> SUFFICES ASSUME StageOf(q) < StageOf(r) PROVE FALSE
  BY <1>1
<1>2. CASE StageOf(q) = 2
  <2>1. Between(q)
    BY <1>1, <1>2 DEF Between, GateOf
  <2>2. Between(r)
    BY <2>1 DEF JointInv
  <2>3. StageOf(r) = 2
    BY <2>2 DEF Between, StageOf
  <2>. QED BY <1>2, <2>3
<1>3. CASE StageOf(q) # 2
  <2>1. StageOf(q) \in Gates
    BY <1>1, <1>3 DEF Gates
  <2>2. Through(r, StageOf(q))
    BY DEF Through
  <2>3. Through(q, StageOf(q))
    BY <2>1, <2>2 DEF GateInv
  <2>. QED BY <1>1, <2>3 DEF Through
<1>. QED BY <1>2, <1>3

\* When a collective call completes.
LEMMA CompletesInvs ==
  ASSUME TypeOK, PathInv, PatientInv, JointInv, FinalInv, GateInv, Completes
  PROVE  PathInv' /\ PatientInv' /\ JointInv' /\ FinalInv' /\ GateInv'
<1>0. /\ UNCHANGED << given, pc, waitForStartSignal, handler >>
      /\ \A r \in Ranks : inCall[r] /\ ~inCall'[r]
      /\ \A r, q \in Ranks : Call(pc[r]) = Call(pc[q])
  BY DEF Completes
<1>1. PathInv' /\ PatientInv'
  BY <1>0 DEF PathInv, PatientInv, given
<1>2. \A r \in Ranks : pc[r] \in Points /\ Call(pc[r]) # "none"
  BY <1>0 DEF TypeOK
<1>3. JointInv'
  <2> SUFFICES ASSUME NEW r \in Ranks, NEW q \in Ranks, pc[r] = "bcast"
               PROVE  pc[q] = "bcast"
    BY <1>0 DEF JointInv, Between
  <2>1. Call(pc[q]) = "MPI_Bcast"
    BY <1>0 DEF Call, Barriers
  <2>. QED BY <2>1 DEF Call
<1>4. FinalInv'
  <2> SUFFICES ASSUME NEW r \in Ranks, NEW q \in Ranks, pc[r] \in {"finalize", "exited"}
               PROVE  pc[q] \in {"finalize", "exited"}
    BY <1>0 DEF FinalInv, Finalized
  <2>1. pc[r] = "finalize"
    BY <1>2 DEF Call, Barriers
  <2>2. Call(pc[q]) = "MPI_Finalize"
    BY <1>0, <2>1 DEF Call, Barriers
  <2>. QED BY <2>2 DEF Call
<1>5. GateInv'
  <2>1. Gates' = Gates /\ \A q \in Ranks : StageOf(q)' = StageOf(q)
    BY <1>0 DEF Gates, StageOf, given
  <2> SUFFICES ASSUME NEW s \in Gates, NEW r \in Ranks, NEW q \in Ranks, Through(r, s)'
               PROVE  Through(q, s)'
    BY <2>1 DEF GateInv
  <2>2. CASE Through(r, s)
    <3>1. Through(q, s)
      BY <2>2 DEF GateInv
    <3>. QED BY <1>0, <2>1, <3>1 DEF Through
  <2>3. CASE ~Through(r, s)
    <3>0. s \in 0 .. 4
      BY GatesRange
    <3>1. pc[r] = GateOf(s) /\ StageOf(r) = s
      <4>1. pc[r] = GateOf(s)
        BY <1>0, <2>1, <2>3 DEF Through
      <4>. QED BY <3>0, <4>1 DEF GateOf, StageOf
    <3>2. pc[r] \in Barriers
      BY <3>0, <3>1 DEF GateOf, Barriers
    <3>3. pc[q] \in Barriers
      <4>1. Call(pc[q]) = "MPI_Barrier"
        BY <1>0, <3>2 DEF Call
      <4>. QED BY <4>1 DEF Call
    <3>4. StageOf(q) >= s
      BY <1>0, <3>1, <3>2, <3>3, SameBarrier
    <3>5. StageOf(q) = s => pc[q] = GateOf(s)
      BY <3>0, <3>3 DEF Barriers, StageOf, GateOf
    <3>6. StageOf(q) \in 0 .. 5
      BY StageRange
    <3>. QED BY <1>0, <2>1, <3>0, <3>4, <3>5, <3>6 DEF Through
  <2>. QED BY <2>2, <2>3
<1>. QED BY <1>1, <1>3, <1>4, <1>5

LEMMA SInvInit == Init => SInv
<1> SUFFICES ASSUME Init PROVE SInv
  OBVIOUS
<1>1. TypeOK
  BY TypeInit
<1>2. \A r \in Ranks : pc[r] = "init" /\ inCall[r] /\ handler[r] = "default"
  BY DEF Init
<1>3. PathInv /\ PatientInv /\ JointInv /\ FinalInv
  BY <1>2 DEF PathInv, Opened, Parsed, PatientInv, BeforeDelay, JointInv, Between, FinalInv, Finalized
<1>4. GateInv
  BY <1>2, GatesRange DEF GateInv, Through, StageOf
<1>. QED BY <1>1, <1>3, <1>4 DEF SInv

\* A step that neither moves a rank nor completes a call.
LEMMA StillInvs ==
  ASSUME PathInv, JointInv, FinalInv, GateInv, UNCHANGED << given, pc, inCall >>
  PROVE  PathInv' /\ JointInv' /\ FinalInv' /\ GateInv'
<1>1. PathInv' /\ JointInv' /\ FinalInv'
  BY DEF PathInv, JointInv, Between, FinalInv, Finalized, given
<1>2. Gates' = Gates /\ \A s \in Gates : \A q \in Ranks : Through(q, s)' <=> Through(q, s)
  BY DEF Gates, Through, StageOf, given
<1>. QED BY <1>1, <1>2 DEF GateInv

LEMMA SInvNext == SInv /\ [Next]_vars => SInv'
<1> SUFFICES ASSUME SInv, [Next]_vars PROVE SInv'
  OBVIOUS
<1> USE DEF SInv
<1>1. TypeOK'
  BY TypeNext
<1>2. CASE Completes
  BY <1>1, <1>2, CompletesInvs
<1>3. ASSUME NEW r \in Ranks, Step(r)
      PROVE  SInv'
  <2>1. PatientInv'
    BY <1>3, PatientStep
  <2>2. UNCHANGED given
    BY <1>3, StepMoves
  <2>3. CASE UNCHANGED << pc, inCall >>
    BY <1>1, <2>1, <2>2, <2>3, StillInvs
  <2>4. ASSUME NEW point \in Points, Go(r, point), Moves(r, point)
        PROVE  SInv'
    BY <1>1, <2>1, <2>2, <2>4, PathStep, JointStep, FinalStep, GateStep
  <2>. QED BY <1>3, <2>3, <2>4, StepMoves
<1>4. ASSUME NEW r \in Ranks, Signal(r)
      PROVE  SInv'
  <2>1. UNCHANGED << given, pc, inCall >>
    BY <1>4 DEF Signal
  <2>. QED BY <1>1, <1>4, <2>1, StillInvs, PatientSignal
<1>5. CASE UNCHANGED vars
  <2>1. UNCHANGED << given, pc, inCall >> /\ UNCHANGED << waitForStartSignal, handler >>
    BY <1>5 DEF vars
  <2>2. PatientInv'
    BY <2>1 DEF PatientInv, given
  <2>. QED BY <1>1, <2>1, <2>2, StillInvs
<1>. QED BY <1>2, <1>3, <1>4, <1>5 DEF Next, Terminated

-------------------------------------------------------------------------------
(* The refinement.                                                              *)

\* When a rank passes a gate, all have come to it.
LEMMA AllHaveCome ==
  ASSUME SInv, NEW r \in Ranks, NEW s \in Gates, pc[r] = GateOf(s), ~inCall[r], NEW q \in Ranks
  PROVE  StageOf(q) > s \/ (StageOf(q) = s /\ StatusOf(q) = "in")
<1>1. s \in 0 .. 4
  BY GatesRange
<1>2. Through(q, s)
  BY DEF SInv, GateInv, Through
<1>3. pc[q] = GateOf(s) => StageOf(q) = s /\ StatusOf(q) = "in"
  BY <1>1 DEF GateOf, StageOf, StatusOf
<1>. QED BY <1>2, <1>3 DEF Through

LEMMA InitStages == Init => Abstract!Init
<1> SUFFICES ASSUME Init PROVE Abstract!Init
  OBVIOUS
<1>1. \A r \in Ranks : StageOf(r) = 0 /\ StatusOf(r) = "in"
  BY DEF Init, StageOf, StatusOf
<1>. QED BY <1>1, GatesRange DEF Abstract!Init

LEMMA StillStages ==
  UNCHANGED << given, pc >> => UNCHANGED Abstract!svars
BY DEF Abstract!svars, Gates, StageOf, StatusOf, given

LEMMA MoveStages ==
  ASSUME SInv, NEW r \in Ranks, NEW point \in Points, Go(r, point), Moves(r, point),
         UNCHANGED given
  PROVE  [Abstract!Next]_(Abstract!svars)
<1> DEFINE stage == [q \in Ranks |-> StageOf(q)]
           status == [q \in Ranks |-> StatusOf(q)]
<1>1. TypeOK /\ PathInv
  BY DEF SInv
<1>2. Gates' = Gates
  BY DEF Gates, given
<1>3. \A q \in Ranks \ {r} : StageOf(q)' = StageOf(q) /\ StatusOf(q)' = StatusOf(q)
  BY <1>1, MoveStage
<1>4. CASE WalksOn(r, point)
  <2>1. stage' = stage /\ status' = status
    BY <1>1, <1>3, <1>4, MoveStage
  <2>. QED BY <1>2, <2>1 DEF Abstract!svars
<1>5. CASE SkipsDelay(r, point)
  <2>1. /\ StageOf(r) = 2 /\ StageOf(r)' = 3 /\ StatusOf(r) = "in" /\ StatusOf(r)' = "in"
        /\ 2 \notin Gates
    BY <1>1, <1>5, MoveStage DEF SkipsDelay
  <2>2. stage' = [stage EXCEPT ![r] = 3]
    BY <1>3, <2>1
  <2>3. status' = status
    BY <1>3, <2>1
  <2>4. stage' = [stage EXCEPT ![r] = @ + 1] /\ status' = status
    BY <2>1, <2>2, <2>3
  <2>5. Abstract!Pass(r)
    BY <1>2, <2>1, <2>4 DEF Abstract!Pass
  <2>. QED BY <2>5 DEF Abstract!Next
<1>6. CASE GivesUp(r, point)
  <2>1. /\ StageOf(r)' = StageOf(r) /\ StageOf(r) \in {1, 2, 5}
        /\ StatusOf(r) = "in" /\ StatusOf(r)' = "leaving"
    BY <1>1, <1>6, MoveStage
  <2>2. stage' = stage /\ status' = [status EXCEPT ![r] = "leaving"]
    BY <1>3, <2>1
  <2>3. Abstract!Leave(r)
    BY <1>2, <2>1, <2>2 DEF Abstract!Leave
  <2>. QED BY <2>3 DEF Abstract!Next
<1>7. CASE Exits(r, point)
  <2>1. StageOf(r)' = StageOf(r) /\ StatusOf(r) = "leaving" /\ StatusOf(r)' = "gone"
    BY <1>1, <1>7, MoveStage
  <2>2. stage' = stage /\ status' = [status EXCEPT ![r] = "gone"]
    BY <1>3, <2>1
  <2>3. \A q \in Ranks : StatusOf(q) # "in"
    <3>1. Finalized(r)
      BY <1>7 DEF Exits, Finalized
    <3>2. \A q \in Ranks : Finalized(q)
      BY <3>1 DEF SInv, FinalInv
    <3>. QED BY <3>2 DEF Finalized, StatusOf
  <2>4. Abstract!Vanish(r)
    BY <1>2, <2>1, <2>2, <2>3 DEF Abstract!Vanish
  <2>. QED BY <2>4 DEF Abstract!Next
<1>8. ASSUME NEW s \in 0 .. 4, PassesGate(r, point, s)
      PROVE  [Abstract!Next]_(Abstract!svars)
  <2>1. StageOf(r) = s /\ StageOf(r)' = s + 1 /\ StatusOf(r) = "in" /\ StatusOf(r)' = "in"
    BY <1>1, <1>8, MoveStage
  <2>2. stage' = [stage EXCEPT ![r] = @ + 1] /\ status' = status
    BY <1>3, <2>1
  <2>3. s \in Gates =>
          \A q \in Ranks : StageOf(q) > s \/ (StageOf(q) = s /\ StatusOf(q) = "in")
    BY <1>8, AllHaveCome DEF PassesGate
  <2>4. s \in Gates => \A q \in Ranks : Abstract!HasCome(q, s)
    BY <2>3 DEF Abstract!HasCome
  <2>5. Abstract!Pass(r)
    BY <1>2, <2>1, <2>2, <2>4 DEF Abstract!Pass
  <2>. QED BY <2>5 DEF Abstract!Next
<1>. QED BY <1>4, <1>5, <1>6, <1>7, <1>8 DEF Moves

LEMMA NextStages == SInv /\ [Next]_vars => [Abstract!Next]_(Abstract!svars)
<1> SUFFICES ASSUME SInv, [Next]_vars PROVE [Abstract!Next]_(Abstract!svars)
  OBVIOUS
<1>1. CASE Completes
  BY <1>1, StillStages DEF Completes
<1>2. ASSUME NEW r \in Ranks, Step(r)
      PROVE  [Abstract!Next]_(Abstract!svars)
  <2>1. UNCHANGED given /\ (UNCHANGED << pc, inCall >> \/
                           \E point \in Points : Go(r, point) /\ Moves(r, point))
    BY <1>2, StepMoves DEF SInv
  <2>2. CASE UNCHANGED << pc, inCall >>
    BY <2>1, <2>2, StillStages
  <2>3. ASSUME NEW point \in Points, Go(r, point), Moves(r, point)
        PROVE  [Abstract!Next]_(Abstract!svars)
    BY <2>1, <2>3, MoveStages
  <2>. QED BY <2>1, <2>2, <2>3
<1>3. CASE \E r \in Ranks : Signal(r)
  BY <1>3, StillStages DEF Signal
<1>4. CASE UNCHANGED vars
  BY <1>4, StillStages DEF vars
<1>. QED BY <1>1, <1>2, <1>3, <1>4 DEF Next, Terminated

\* main implements Stages: what it says of the barriers, the delayed start, the early ways
\* out and MPI_Finalize (main.c:452-563) holds for any number of ranks, files and signals.
THEOREM ImplementsStages == Spec => Staged
<1>1. Init => SInv /\ Abstract!Init
  BY SInvInit, InitStages
<1>2. SInv /\ [Next]_vars => SInv' /\ [Abstract!Next]_(Abstract!svars)
  BY SInvNext, NextStages
<1>. QED BY <1>1, <1>2, PTL DEF Spec, Staged, Abstract!Spec
===============================================================================
