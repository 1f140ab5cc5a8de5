-------------------------------- MODULE Gather --------------------------------
(***************************************************************************)
(* The end of a run (main.c): every rank sends its time events, its core   *)
(* time events and its statement counters to the master, which takes them  *)
(* from rank 1 first, then rank 2, and so on.  All three phases use blocking *)
(* point-to-point calls, and two of them the same tags.                    *)
(***************************************************************************)
EXTENDS Integers, Sequences, FiniteSets

CONSTANTS
  Size,        \* number of processes
  Loads,       \* what a run may leave: per rank and kind the ids of the events, newest first
  LongLabels,  \* ids of the events whose label is longer than 191 characters
  Counters,    \* values of the statement counters per rank that a run may leave
  Capacities   \* how many messages per sender MPI may buffer

MASTER == 0
Ranks == 0 .. Size - 1
Senders == Ranks \ {MASTER}

\* The functions called after the interpreter, in this order.
Phases == << "timeevents", "coretimeevents", "commandstats", "done" >>
EventPhases == {1, 2}
STATS == 3
DONE == 4

ASSUME SizeAssumption == Size \in Nat \ {0}
ASSUME CapacityAssumption == Capacities \subseteq Nat

\* The ids that the run of a kernel may leave in a list, newest event first.  Ids count
\* from 0.  A time event takes the next one when its block ends, and is prepended to its
\* list.  A core time event takes it when its block begins and is prepended when it ends,
\* so that blocks in each other leave other orders, all but one kind: of three that end as
\* k, j, i and began as j, i, k the second would have begun inside the first and ended
\* outside of it.
MayLeave(p, ids) ==
  /\ ids \in Seq(Nat)
  /\ \A i \in DOMAIN ids : ids[i] < Len(ids)
  /\ \A i, j \in DOMAIN ids : ids[i] = ids[j] => i = j
  /\ IF Phases[p] = "timeevents" THEN \A i \in DOMAIN ids : ids[i] = Len(ids) - i
     ELSE ~\E i, j, k \in DOMAIN ids : i < j /\ j < k /\ ids[j] < ids[i] /\ ids[i] < ids[k]

ASSUME LoadsAssumption ==
  \A load \in Loads :
    /\ load \in [Ranks -> [EventPhases -> Seq(Nat)]]
    /\ \A r \in Ranks : \A p \in EventPhases : MayLeave(p, load[r][p])
ASSUME CountersAssumption ==
  \A counter \in Counters : counter \in [Ranks -> [succeed : Nat, fail : Nat]]
ASSUME LongAssumption == LongLabels \subseteq Nat

VARIABLES
  capacity, \* messages per sender that MPI buffers; with 0 a send waits for its receive
  list,    \* per rank and event phase: timeList or coreTimeList, newest first
  stats,   \* per rank: statementsSucceed and statementsFail (of one statement)
  phase,   \* per rank: the gather function it is in, an index of Phases
  next,    \* per sender: number of messages it has sent in this phase
  chan,    \* per sender: messages to the master, sent but not received
  from,    \* the master's loop over the senders
  num,     \* the number of events announced by that sender, or None
  got,     \* the number of its messages received after that
  sSucceed \* the counter received first, or None

vars == << capacity, list, stats, phase, next, chan, from, num, got, sSucceed >>
masterVars == << from, num, got, sSucceed >>

None == -1

\* An event as it was made, and its number; the label stands for the event's
\* other data as well.
Event(r, id) == [proc |-> r, id |-> id, label |-> IF id \in LongLabels THEN "long" ELSE "short"]
Events == [proc : Ranks, id : Nat, label : {"short", "long", "garbled"}]
Made(r, ids) == [i \in DOMAIN ids |-> Event(r, ids[i])]

(***************************************************************************)
(* Both kinds of events travel as timeevent_type, 271 bytes.  That is all  *)
(* of a TimeEvent; of a CoreTimeEvent it is everything up to character 191 *)
(* of the name, and the rest of the buffer malloc returned is not written. *)
(***************************************************************************)
Received(p, e) ==
  IF Phases[p] = "coretimeevents" /\ e.label = "long" THEN {e, [e EXCEPT !.label = "garbled"]}
                                                      ELSE {e}

Init ==
  /\ capacity \in Capacities
  /\ \E load \in Loads : list = [r \in Ranks |-> [p \in EventPhases |-> Made(r, load[r][p])]]
  /\ stats \in Counters
  /\ phase = [r \in Ranks |-> 1]
  /\ next = [r \in Senders |-> 0]
  /\ chan = [r \in Senders |-> << >>]
  /\ from = 1
  /\ num = None
  /\ got = 0
  /\ sSucceed = None

-------------------------------------------------------------------------------
(* The senders.                                                                  *)

\* The last MPI_Send has returned: its message was buffered or received.
Returned(r) == Len(chan[r]) <= capacity

Send(r, tag, body) ==
  /\ chan' = [chan EXCEPT ![r] = Append(@, [tag |-> tag, body |-> body])]
  /\ next' = [next EXCEPT ![r] = @ + 1]
  /\ UNCHANGED << capacity, list, stats, phase, masterVars >>

SendNum(r) ==
  /\ phase[r] \in EventPhases /\ next[r] = 0
  /\ Returned(r)
  /\ Send(r, 1, Len(list[r][phase[r]]))

SendEvent(r) ==
  /\ phase[r] \in EventPhases /\ next[r] \in 1 .. Len(list[r][phase[r]])
  /\ Returned(r)
  /\ Send(r, 2, list[r][phase[r]][next[r]])

\* Mutant: the failures are sent first.
SendStats_Swapped(r) ==
  /\ phase[r] = STATS /\ next[r] < 2
  /\ Returned(r)
  /\ Send(r, 3, IF next[r] = 0 THEN stats[r].fail ELSE stats[r].succeed)

SendStats(r) ==
  /\ phase[r] = STATS /\ next[r] < 2
  /\ Returned(r)
  /\ Send(r, 3, IF next[r] = 0 THEN stats[r].succeed ELSE stats[r].fail)

\* The gather function returns.
SenderReturns(r) ==
  /\ \/ phase[r] \in EventPhases /\ next[r] = Len(list[r][phase[r]]) + 1
     \/ phase[r] = STATS /\ next[r] = 2
  /\ Returned(r)
  /\ phase' = [phase EXCEPT ![r] = @ + 1]
  /\ next' = [next EXCEPT ![r] = 0]
  /\ UNCHANGED << capacity, list, stats, chan, masterVars >>

-------------------------------------------------------------------------------
(* The master.                                                                   *)

\* MPI_Recv takes the first message of the source that has the tag.
Arrived(s, tag, i) ==
  /\ i \in DOMAIN chan[s] /\ chan[s][i].tag = tag
  /\ \A j \in 1 .. i - 1 : chan[s][j].tag # tag
Take(s, i) ==
  chan' = [chan EXCEPT ![s] = SubSeq(@, 1, i - 1) \o SubSeq(@, i + 1, Len(@))]

RecvNum ==
  /\ phase[MASTER] \in EventPhases /\ from < Size /\ num = None
  /\ \E i \in 1 .. Len(chan[from]) :
       Arrived(from, 1, i) /\ num' = chan[from][i].body /\ Take(from, i)
  /\ UNCHANGED << capacity, list, stats, phase, next, from, got, sSucceed >>

\* Mutant: the newest event overwrites the head of the list.
RecvEvent_Overwrites ==
  LET p == phase[MASTER] IN
  /\ p \in EventPhases /\ from < Size /\ num # None /\ got < num
  /\ \E i \in 1 .. Len(chan[from]) :
       /\ Arrived(from, 2, i)
       /\ list' = [list EXCEPT ![MASTER][p] =
                     << chan[from][i].body >> \o SubSeq(@, 2, Len(@))]
       /\ Take(from, i)
  /\ got' = got + 1
  /\ UNCHANGED << capacity, stats, phase, next, from, num, sSucceed >>

RecvEvent ==
  LET p == phase[MASTER] IN
  /\ p \in EventPhases /\ from < Size /\ num # None /\ got < num
  /\ \E i \in 1 .. Len(chan[from]) :
       /\ Arrived(from, 2, i)
       /\ \E e \in Received(p, chan[from][i].body) :
            list' = [list EXCEPT ![MASTER][p] = << e >> \o @]
       /\ Take(from, i)
  /\ got' = got + 1
  /\ UNCHANGED << capacity, stats, phase, next, from, num, sSucceed >>

\* Mutants: the last event is left behind; the count of the messages goes on from one
\* sender to the next; the loop does not get past a sender without events.
NextSender_Early ==
  /\ phase[MASTER] \in EventPhases /\ num # None /\ got + 1 >= num
  /\ from' = from + 1
  /\ num' = None
  /\ got' = 0
  /\ UNCHANGED << capacity, list, stats, phase, next, chan, sSucceed >>

NextSender_KeepsCount ==
  /\ phase[MASTER] \in EventPhases /\ num # None /\ got = num
  /\ from' = from + 1
  /\ num' = None
  /\ UNCHANGED << capacity, list, stats, phase, next, chan, got, sSucceed >>

NextSender_SkipsNone ==
  /\ phase[MASTER] \in EventPhases /\ num # None /\ got = num
  /\ IF num = 0 THEN UNCHANGED << from, num, got >>
                ELSE from' = from + 1 /\ num' = None /\ got' = 0
  /\ UNCHANGED << capacity, list, stats, phase, next, chan, sSucceed >>

NextSender ==
  /\ phase[MASTER] \in EventPhases /\ num # None /\ got = num
  /\ from' = from + 1
  /\ num' = None
  /\ got' = 0
  /\ UNCHANGED << capacity, list, stats, phase, next, chan, sSucceed >>

\* Both counters of a sender are received before they are added.
RecvSucceed ==
  /\ phase[MASTER] = STATS /\ from < Size /\ sSucceed = None
  /\ \E i \in 1 .. Len(chan[from]) :
       Arrived(from, 3, i) /\ sSucceed' = chan[from][i].body /\ Take(from, i)
  /\ UNCHANGED << capacity, list, stats, phase, next, from, num, got >>

RecvFail ==
  /\ phase[MASTER] = STATS /\ from < Size /\ sSucceed # None
  /\ \E i \in 1 .. Len(chan[from]) :
       /\ Arrived(from, 3, i)
       /\ stats' = [stats EXCEPT ![MASTER] =
                      [succeed |-> @.succeed + sSucceed, fail |-> @.fail + chan[from][i].body]]
       /\ Take(from, i)
  /\ sSucceed' = None
  /\ from' = from + 1
  /\ UNCHANGED << capacity, list, phase, next, num, got >>

MasterReturns ==
  /\ phase[MASTER] # DONE /\ from = Size
  /\ phase' = [phase EXCEPT ![MASTER] = @ + 1]
  /\ from' = 1
  /\ UNCHANGED << capacity, list, stats, next, chan, num, got, sSucceed >>

-------------------------------------------------------------------------------

SenderStep(r) == SendNum(r) \/ SendEvent(r) \/ SendStats(r) \/ SenderReturns(r)
MasterStep ==
  RecvNum \/ RecvEvent \/ NextSender \/ RecvSucceed \/ RecvFail \/ MasterReturns

Terminated ==
  /\ \A r \in Ranks : phase[r] = DONE
  /\ UNCHANGED vars

Next == MasterStep \/ (\E r \in Senders : SenderStep(r)) \/ Terminated

Spec == Init /\ [][Next]_vars

\* Every process keeps running; a receive whose message has arrived returns.
FairSpec == Spec /\ WF_vars(MasterStep) /\ (\A r \in Senders : WF_vars(SenderStep(r)))

-------------------------------------------------------------------------------
(* Properties.                                                                   *)

Messages ==
  [tag : {1}, body : Nat] \cup [tag : {2}, body : Events] \cup [tag : {3}, body : Nat]

TypeOK ==
  /\ capacity \in Capacities
  /\ list \in [Ranks -> [EventPhases -> Seq(Events)]]
  /\ stats \in [Ranks -> [succeed : Nat, fail : Nat]]
  /\ phase \in [Ranks -> 1 .. DONE]
  /\ next \in [Senders -> Nat]
  /\ chan \in [Senders -> Seq(Messages)]
  /\ from \in 1 .. Size
  /\ num \in Nat \cup {None}
  /\ got \in 0 .. (IF num = None THEN 0 ELSE num)
  /\ sSucceed \in Nat \cup {None}

Finished == \A r \in Ranks : phase[r] = DONE

\* How often the master's list p holds an event, labels left out.
Times(p, r, id) ==
  Cardinality({i \in DOMAIN list[MASTER][p] :
                 list[MASTER][p][i].proc = r /\ list[MASTER][p][i].id = id})

\* When the master leaves a gather function its list holds every event of every rank
\* once and nothing else, and no event of the other kind, though both kinds are sent
\* with the same tags and a fast sender may be a phase ahead (main.c:149-164, 183-199).
GatheredOnce ==
  \A p \in EventPhases : phase[MASTER] > p =>
    /\ \A r \in Senders : \A i \in DOMAIN list[r][p] : Times(p, r, list[r][p][i].id) = 1
    /\ \A i \in DOMAIN list[MASTER][p] :
         LET e == list[MASTER][p][i] IN
         e.proc # MASTER => \E j \in DOMAIN list[e.proc][p] : list[e.proc][p][j].id = e.id

\* Nothing is left unreceived when a rank goes on to MPI_Finalize.
NothingLeft == Finished => \A r \in Senders : chan[r] = << >>

\* What the master has yet to take, read off its place in the loops.
Taken(r, p) ==
  IF phase[MASTER] > p \/ (phase[MASTER] = p /\ from > r) THEN Len(list[r][p])
  ELSE IF phase[MASTER] = p /\ from = r THEN got ELSE 0
Counted(r) == phase[MASTER] = DONE \/ (phase[MASTER] = STATS /\ from > r)
\* An event without its label, which NamesArrive is about.
Key(e) == [proc |-> e.proc, id |-> e.id]
Keys(s) == [i \in DOMAIN s |-> Key(s[i])]

\* What is left to take of a sender, and what the master has.
Rest(r, p) == SubSeq(Keys(list[r][p]), Taken(r, p) + 1, Len(list[r][p]))
Has(p) == {Key(list[MASTER][p][i]) : i \in DOMAIN list[MASTER][p]}

Abstract == INSTANCE Collection WITH
  Kinds <- EventPhases,
  todo  <- [r \in Senders |-> [p \in EventPhases |-> Rest(r, p)]],
  have  <- [p \in EventPhases |-> Has(p)],
  owed  <- [r \in Senders |-> IF Counted(r) THEN [succeed |-> -1, fail |-> -1] ELSE stats[r]],
  total <- stats[MASTER]

\* The gather functions (main.c:137-230) implement Collection: with every interleaving
\* of the ranks and every buffering by MPI, the master's lists and counters change by
\* one event or one rank's counters at a time, in the fixed order, and nothing is lost,
\* taken twice or taken for another kind.
Collects == Abstract!Spec

\* In the end everything has been taken, whatever MPI buffers: no rank waits for good in
\* a send for a master that waits for another one (main.c:137-230).
CollectsAll == Abstract!Completes

\* timing.h:24 gives the name 255 characters; the master's copy of the core time
\* events has the first 191 of them only.
NamesArrive ==
  \A p \in EventPhases : \A i \in DOMAIN list[MASTER][p] :
    list[MASTER][p][i].label # "garbled"
===============================================================================
