------------------------------- MODULE MCReport -------------------------------
(* Report, and Gather in it, for TLC. *)
EXTENDS Report

CONSTANT MaxEvents  \* largest number of events of one kind on a sender

\* All that a run may leave on the senders, while the master has two events of either
\* kind, of which the core time events come from a block in another one.
MayBeLeft(p) ==
  {ids \in UNION {[1 .. n -> 0 .. n - 1] : n \in 0 .. MaxEvents} : MayLeave(p, ids)}
OfMaster == << << 1, 0 >>, << 0, 1 >> >>
OfSenders == {load \in [EventPhases -> UNION {MayBeLeft(p) : p \in EventPhases}] :
                \A p \in EventPhases : MayLeave(p, load[p])}
MCLoads ==
  {[r \in Ranks |-> IF r = MASTER THEN OfMaster ELSE load[r]] : load \in [Senders -> OfSenders]}

\* Counters whose sums tell which ones were added.
MCCounters == {[r \in Ranks |-> [succeed |-> 2 ^ r, fail |-> 8 * 2 ^ r]]}

\* Equal names, and names that differ by one and by more.
MCNamings == {[id \in 0 .. MaxEvents - 1 |-> IF id % 2 = 0 THEN 98 ELSE odd] : odd \in {98, 97, 100}}
===============================================================================
