------------------------------ MODULE Collection ------------------------------
(***************************************************************************)
(* What the gather functions of main.c promise: one event at a time goes   *)
(* over from a rank to the master, all events of the first kind before any *)
(* of the second, of a lower rank before those of a higher one and newest  *)
(* first, then the counters of one rank after the other.  Messages, tags,  *)
(* and how far the ranks have got do not appear.                           *)
(***************************************************************************)
EXTENDS Integers, Sequences

CONSTANTS
  Senders,  \* the ranks that have something to give: 1 .. N
  Kinds     \* of events: 1 .. K

VARIABLES
  todo,     \* per sender and kind: the events it still has to give, in this order
  have,     \* per kind: the events the master has
  owed,     \* per sender: the counters it still has to give, or None
  total     \* the counters of the master

cvars == << todo, have, owed, total >>

None == [succeed |-> -1, fail |-> -1]

\* Nothing is left to give before kind k of sender s.
Turn(s, k) ==
  /\ \A j \in Kinds : j < k => \A q \in Senders : todo[q][j] = << >>
  /\ k \in Kinds => \A q \in Senders : q < s => todo[q][k] = << >>

GiveEvent(s, k) ==
  /\ Turn(s, k) /\ todo[s][k] # << >> /\ Head(todo[s][k]) \notin have[k]
  /\ have' = [have EXCEPT ![k] = @ \cup {Head(todo[s][k])}]
  /\ todo' = [todo EXCEPT ![s][k] = Tail(@)]
  /\ UNCHANGED << owed, total >>

GiveCounters(s) ==
  /\ \A k \in Kinds, q \in Senders : todo[q][k] = << >>
  /\ owed[s] # None /\ \A q \in Senders : q < s => owed[q] = None
  /\ total' = [succeed |-> total.succeed + owed[s].succeed, fail |-> total.fail + owed[s].fail]
  /\ owed' = [owed EXCEPT ![s] = None]
  /\ UNCHANGED << todo, have >>

Give == \E s \in Senders : GiveCounters(s) \/ \E k \in Kinds : GiveEvent(s, k)

Spec == [][Give]_cvars

\* Whatever there is to give is given.
Given == \A s \in Senders : owed[s] = None /\ \A k \in Kinds : todo[s][k] = << >>
Completes == <>Given
===============================================================================
