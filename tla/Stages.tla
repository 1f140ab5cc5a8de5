-------------------------------- MODULE Stages --------------------------------
(***************************************************************************)
(* What main promises about the ranks: they go through the stages of a run *)
(* one after the other; where a stage ends in a gate no rank passes before *)
(* all have come to it; they leave at the exits only, and no rank is gone  *)
(* while another one still is in a stage.                                  *)
(***************************************************************************)
EXTENDS Integers

CONSTANTS
  Ranks,
  Last,   \* the stages are 0 .. Last
  Exits   \* the stages a rank may leave from

VARIABLES
  gates,  \* the stages that end in a gate in this run
  stage,  \* per rank: the stage it is in
  status  \* per rank: "in" a stage, "leaving", or "gone"

svars == << gates, stage, status >>

Init ==
  /\ gates \subseteq 0 .. Last - 1
  /\ stage = [r \in Ranks |-> 0]
  /\ status = [r \in Ranks |-> "in"]

\* A rank that has left has not come to the end of its stage.
HasCome(q, s) == stage[q] > s \/ (stage[q] = s /\ status[q] = "in")

Pass(r) ==
  /\ status[r] = "in" /\ stage[r] < Last
  /\ stage[r] \in gates => \A q \in Ranks : HasCome(q, stage[r])
  /\ stage' = [stage EXCEPT ![r] = @ + 1]
  /\ UNCHANGED << gates, status >>

Leave(r) ==
  /\ status[r] = "in" /\ stage[r] \in Exits
  /\ status' = [status EXCEPT ![r] = "leaving"]
  /\ UNCHANGED << gates, stage >>

Vanish(r) ==
  /\ status[r] = "leaving" /\ \A q \in Ranks : status[q] # "in"
  /\ status' = [status EXCEPT ![r] = "gone"]
  /\ UNCHANGED << gates, stage >>

Next == \E r \in Ranks : Pass(r) \/ Leave(r) \/ Vanish(r)

Spec == Init /\ [][Next]_svars
===============================================================================
