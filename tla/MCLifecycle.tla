----------------------------- MODULE MCLifecycle ------------------------------
(* Lifecycle for TLC.                                                           *)
EXTENDS Lifecycle

\* The ranks may run on hosts with different file systems.
MCInputs == [Ranks -> {"good", "faulty", "missing"}]
GoodInput == [Ranks -> {"good"}]
===============================================================================
