------------------------------- MODULE MCInterp -------------------------------
(* Interp for TLC: every kernel of a few statements, over several choices of     *)
(* block statements and leaf statements, and some longer ones.                   *)
EXTENDS Interp

\* Group a overlaps group b; only rank 0 is in s; no rank was mapped to group u.
MCMembers == [g \in {"a", "b", "s", "u"} |->
                CASE g = "a" -> {0, 1} [] g = "b" -> {1, 2} [] g = "s" -> {0} [] g = "u" -> {}]

MCNobody == [g \in {} |-> {}]

S(type, arg) == [type |-> type, arg |-> arg, times |-> 0, perRank |-> FALSE]
RepeatStmt(v, times, perRank) ==
  [type |-> "REPEAT", arg |-> v, times |-> times, perRank |-> perRank]
K(parent, stmt) == [parent |-> parent, stmt |-> stmt]

\* Parents in preorder: the next node is a child of this one or of a node around it.
Preorders(n) ==
  {p \in [1 .. n -> 0 .. n - 1] :
     /\ p[1] = 0
     /\ \A m \in 2 .. n : \/ p[m] = m - 1
                          \/ \E d \in 1 .. m - 1 : /\ p[m] = p[d] /\ p[m] < d
                                                 /\ \A e \in d + 1 .. m - 1 : p[e] >= d}

\* The kernels of up to max statements; blocks are not empty.
Kernels(max, blocks, leaves) ==
  UNION { { K(p, s) : s \in {f \in [1 .. n -> blocks \cup leaves] :
                               \A m \in 1 .. n : f[m] \in blocks <=> \E c \in 1 .. n : p[c] = m} } :
          <<n, p>> \in UNION {{n} \X Preorders(n) : n \in 1 .. max} }

\* Kernel k as the block of statement s.
Under(s, k) ==
  K([n \in 1 .. Len(k.parent) + 1 |-> IF n = 1 THEN 0 ELSE k.parent[n - 1] + 1], << s >> \o k.stmt)

Twice == RepeatStmt("i", 2, FALSE)

\* Control flow: loops (equal and per rank), groups, masters and collectives.
ControlKernels ==
  Kernels(3, {Twice, RepeatStmt("i", -1, TRUE), S("GROUP", "a"), S("GROUP", "b"),
              S("GROUP", "x"), S("MASTER", "")},
             {S("BARRIER", ""), S("BARRIER", "a"), S("PWRITE", "")})
  \* a master block after a group block that rank 0 is no member of
  \cup {K(<< 0, 1, 0, 3 >>, << S("GROUP", "b"), S("PWRITE", ""), S("MASTER", ""), S("LOCAL", "") >>)}

\* Groups that overlap, nested in each other and in loops, every one of them meeting.
Overlapping == {S("GROUP", "a"), S("GROUP", "b")}
GroupKernels ==
  Kernels(4, Overlapping \cup {Twice}, {S("BARRIER", "")})
    \cup {Under(Twice, k) : k \in Kernels(4, Overlapping, {S("BARRIER", "")})}

\* Files opened, used and closed by the world and by overlapping groups; "i" is a loop
\* variable as well.
FileKernels ==
  Kernels(4, {Twice, S("GROUP", "a")},
             {S("PFOPEN", "f"), S("PFWRITE", "f"), S("PFCLOSE", "f")})
  \cup {K(<< 0, 1, 0, 3, 0 >>, << S("GROUP", "b"), S("PFOPEN", "f"), S("GROUP", "b"),
                                  S("PFWRITE", "f"), S("BARRIER", "") >>),
        K(<< 0, 0, 2, 0 >>, << S("PFOPEN", "i"), Twice, S("LOCAL", ""), S("PFCLOSE", "i") >>)}

\* Timing, on rank 0 alone: nested timing blocks and the I/O statements they measure.
TimingBlocks == {S("TIME", ""), S("CTIME", ""), Twice}
TimingKernels ==
  {Under(S("GROUP", "s"), k) : k \in Kernels(3, TimingBlocks, {S("POSIX", ""), S("PWRITE", ""), S("PDELETE", "")})
    \cup {K(<< 0, 1, 1, 3 >>, << S("CTIME", ""), S("POSIX", ""), S("CTIME", ""), S("POSIX", "") >>),
          K(<< 0, 1, 2, 2, 4 >>, << Twice, S("CTIME", ""), S("POSIX", ""), S("CTIME", ""),
                                    S("PWRITE", "") >>)}}

Run(kernels, dry, faulty) == [kernel : kernels, parseOnly : {dry}, faulty : {faulty}]
MCPrograms ==
  Run(ControlKernels \cup GroupKernels \cup FileKernels, FALSE, FALSE)
    \cup Run(TimingKernels, FALSE, TRUE)
    \cup Run(Kernels(2, TimingBlocks, {S("PFWRITE", "f"), S("POSIX", "")}), TRUE, FALSE)
NestedTiming == Run(Kernels(3, TimingBlocks, {S("LOCAL", "")}), FALSE, FALSE)
===============================================================================
