------------------------------- MODULE CoreTime -------------------------------
(***************************************************************************)
(* Core time events (timing.c): what dump_coretime makes of the I/O calls  *)
(* of an event.  A call is [time, data]; times are integers here, and      *)
(* throughputs, data over time in the code, are compared by                *)
(* cross-multiplication.                                                   *)
(***************************************************************************)
EXTENDS Integers, Sequences

NoTime == [time |-> 0, data |-> 0]

\* coretime_event_new.  0 stands for G_MAXDOUBLE in minCallTime and for G_MINDOUBLE in
\* maxCallTime: both give way to any positive time.
NewEvent(id) ==
  [id |-> id, avgCoreTime |-> NoTime, minCoreTime |-> NoTime, maxCoreTime |-> NoTime,
   numCalls |-> 0, minCallTime |-> 0, maxCallTime |-> 0]

\* A positive throughput; a call that took no time counts as one of throughput 0.
Productive(c) == c.time > 0 /\ c.data > 0
Slower(c, d) == c.data * d.time < d.data * c.time

\* Mutant: a call that moved nothing takes the place of the slowest one.
SlowestOf_Idle(e, c) ==
  IF e.minCoreTime.time = 0 \/ Slower(c, e.minCoreTime) THEN c ELSE e.minCoreTime

SlowestOf(e, c) ==
  IF Productive(c) /\ (e.minCoreTime.time = 0 \/ Slower(c, e.minCoreTime))
  THEN c ELSE e.minCoreTime
FastestOf(e, c) ==
  IF Productive(c) /\ (e.maxCoreTime.time = 0 \/ Slower(e.maxCoreTime, c))
  THEN c ELSE e.maxCoreTime

\* dump_coretime, for one active event.
Account(e, c) ==
  [id |-> e.id,
   avgCoreTime |-> [time |-> e.avgCoreTime.time + c.time, data |-> e.avgCoreTime.data + c.data],
   minCoreTime |-> SlowestOf(e, c),
   maxCoreTime |-> FastestOf(e, c),
   numCalls    |-> e.numCalls + 1,
   minCallTime |-> IF c.time > 0 /\ (e.minCallTime = 0 \/ c.time < e.minCallTime)
                   THEN c.time ELSE e.minCallTime,
   maxCallTime |-> IF c.time > e.maxCallTime THEN c.time ELSE e.maxCallTime]

-------------------------------------------------------------------------------
(* What an event should hold of a sequence of calls, without order or loops.     *)

Total(calls, field) ==
  LET sum[n \in 0 .. Len(calls)] == IF n = 0 THEN 0 ELSE sum[n - 1] + calls[n][field]
  IN sum[Len(calls)]

Describes(e, calls) ==
  LET All == {calls[i] : i \in DOMAIN calls}
      Moving == {c \in All : Productive(c)}
      Times == {c.time : c \in All} \ {0}
  IN
  /\ e.numCalls = Len(calls)
  /\ e.avgCoreTime = [time |-> Total(calls, "time"), data |-> Total(calls, "data")]
  /\ IF Moving = {} THEN e.minCoreTime = NoTime /\ e.maxCoreTime = NoTime
     ELSE /\ {e.minCoreTime, e.maxCoreTime} \subseteq Moving
          /\ \A c \in Moving : ~Slower(c, e.minCoreTime) /\ ~Slower(e.maxCoreTime, c)
  /\ IF Times = {} THEN e.minCallTime = 0 /\ e.maxCallTime = 0
     ELSE /\ {e.minCallTime, e.maxCallTime} \subseteq Times
          /\ \A t \in Times : e.minCallTime <= t /\ t <= e.maxCallTime
===============================================================================
