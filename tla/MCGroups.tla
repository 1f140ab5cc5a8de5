------------------------------- MODULE MCGroups -------------------------------
(* Groups for TLC: every list of three groups, and lists that define a name     *)
(* twice, with every combination of requested sizes.                            *)
EXTENDS Groups

Def(n, t, s) == [name |-> n, tag |-> t, subtag |-> s]

Kinds == {<< TAG_SINGLE, 0 >>, << TAG_DISJOINT, 0 >>, << TAG_DISJOINT, 1 >>, << TAG_NONE, 0 >>}

MCDefLists ==
  {<< Def("a", x[1], x[2]), Def("b", y[1], y[2]), Def("c", z[1], z[2]) >> : x, y, z \in Kinds}
  \cup {<< Def("a", x[1], x[2]), Def("b", y[1], y[2]), Def("a", TAG_DISJOINT, -1) >> :
          x, y \in Kinds}

Number(n, v) == [name |-> n, form |-> "number", value |-> v]
Bare(n) == [name |-> n, form |-> "bare", value |-> 0]
Garbage(n) == [name |-> n, form |-> "garbage", value |-> 0]

\* The last group is sometimes given no option, or two.
MCReadOptions ==
  {<< Number("a", i), Number("b", j), Number("c", k) >> : i, j \in 0 .. 3, k \in {1, 2}}
  \cup {<< Number("a", i), Number("b", 1) >> : i \in {-1, 2}}
  \cup {<< Number("a", 1), Bare("b"), Number("c", 3), Number("a", 2) >>}

\* Options sscanf cannot read: every rank keeps whatever its variable held.
MCUnread == {-1, 1, 5}
MCGarbageOptions == {<< Garbage("a"), Number("b", 2) >>, << Number("a", 2), Garbage("b") >>}

\* A communicator that is none of the groups the lists ask for, on ranks in and outside it.
MCStrays == {{0, 1}}

MCOptionLists == MCReadOptions \cup MCGarbageOptions
===============================================================================
