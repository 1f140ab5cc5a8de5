----------------------------- MODULE MCParallelIO -----------------------------
(* ParallelIO for TLC.                                                          *)
EXTENDS ParallelIO

CONSTANTS
  Faulty  \* whether the file may fail: a set of BOOLEANs

P(type, iter, elem, level, group) ==
  [type |-> type, iter |-> iter, elem |-> elem, level |-> level, group |-> group]
S(op, p) == [op |-> op, pattern |-> p]

\* Groups of the pattern: the communicator, a larger one, and one that a rank is not in.
Groups == {{0, 1}, {0, 1, 2}, {1}}
Layouts == {<< 1, 1 >>, << 2, 1 >>, << 1, 2 >>, << 2, 2 >>}
Any == P(1, 1, 1, 0, {0, 1})

\* Write and read back with every type and level; delete in between; overwrite; read a
\* file that is not there; empty patterns; an invalid level.
WriteRead(layouts, groups) ==
  UNION {{<< S("pwrite", P(t, l[1], l[2], a, g)), S("pread", P(u, l[1], l[2], b, g)) >> :
            t \in {1, 2}, u \in {1, 2}, a \in 0 .. 3, b \in 0 .. 3} : l \in layouts, g \in groups}
OpenClose ==
  {<< S("pfopen", Any), S("pfwrite", P(1, 2, 1, a, {0, 1})), S("pfread", P(2, 2, 1, b, {0, 1})),
      S("pfclose", Any) >> : a \in 0 .. 3, b \in 0 .. 3}
Others ==
  {<< S("pwrite", P(1, 1, 1, a, {0, 1})), S("pdelete", Any), S("pread", Any) >> : a \in 0 .. 3}
    \cup {<< S("pwrite", P(1, 2, 1, a, {0, 1})), S("pwrite", P(2, 1, 2, b, {0, 1})) >> :
            a \in 0 .. 3, b \in 0 .. 3}
    \cup {<< S("pread", Any), S("pwrite", P(1, 0, 1, 1, {0, 1})), S("pwrite", P(1, 1, 1, 4, {0, 1})) >>,
          << S("pfclose", Any) >>, << S("pfwrite", Any) >>}

MCPrograms ==
  {[stmts |-> s, faulty |-> FALSE] : s \in WriteRead(Layouts, Groups)}
    \cup {[stmts |-> s, faulty |-> TRUE] : s \in WriteRead({<< 2, 1 >>}, {{0, 1}, {1}})}
    \cup {[stmts |-> s, faulty |-> f] : s \in OpenClose \cup Others, f \in Faulty}

DeletePrograms == {[stmts |-> << S("pwrite", Any), S("pdelete", Any) >>, faulty |-> FALSE]}
===============================================================================
