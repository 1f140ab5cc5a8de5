----------------------------- MODULE GroupsProofs -----------------------------
(***************************************************************************)
(* Proofs about create_groups for every world size, group list and set of  *)
(* -g options: type correctness, that the tags keep their promise, and     *)
(* that the ranks agree about their groups, cut a group short only at the  *)
(* end of the world and pack the process space.                            *)
(***************************************************************************)
EXTENDS Groups, FiniteSetTheorems, TLAPS

-------------------------------------------------------------------------------
(* The list stays the sorted one.                                               *)

Ordered(a, b) ==
  \/ a.tag < b.tag
  \/ a.tag = b.tag /\ a.subtag <= b.subtag

Sorted == \A i, j \in DOMAIN groupList : i < j => Ordered(groupList[i], groupList[j])

LEMMA CompareIsOrder ==
  ASSUME NEW a \in GroupDefs,
         NEW b \in GroupDefs,
         compare_groups(a, b) <= 0
  PROVE  Ordered(a, b)
BY DEF compare_groups, Ordered, GroupDefs, TAG_SINGLE, TAG_DISJOINT, TAG_NONE

LEMMA InitSorted == Init => IsGroupList(groupList) /\ Sorted
<1> SUFFICES ASSUME Init PROVE IsGroupList(groupList) /\ Sorted
  OBVIOUS
<1>1. PICK d \in DefLists : /\ groupList \in [DOMAIN d -> {d[i] : i \in DOMAIN d}]
                            /\ IsSortOf(groupList, d)
  BY DEF Init
<1>2. IsGroupList(d)
  BY <1>1, DefListsAssumption
<1>3. d \in Seq(GroupDefs) /\ DOMAIN d = 1 .. Len(d) /\ Len(d) \in Nat /\ Len(d) # 0
  BY <1>2 DEF IsGroupList
<1>4. {d[i] : i \in DOMAIN d} \subseteq GroupDefs
  BY <1>3
<1>5. groupList \in [1 .. Len(d) -> GroupDefs]
  BY <1>1, <1>3, <1>4
<1>6. IsGroupList(groupList)
  BY <1>5, <1>3 DEF IsGroupList
<1>7. Sorted
  <2>1. PICK p \in [DOMAIN d -> DOMAIN d] :
          /\ \A i \in DOMAIN d : groupList[i] = d[p[i]]
          /\ \A i, j \in DOMAIN d : i < j =>
               \/ compare_groups(d[p[i]], d[p[j]]) < 0
               \/ compare_groups(d[p[i]], d[p[j]]) = 0 /\ p[i] < p[j]
    BY <1>1 DEF IsSortOf
  <2>2. SUFFICES ASSUME NEW i \in DOMAIN d, NEW j \in DOMAIN d, i < j
                 PROVE  Ordered(groupList[i], groupList[j])
    BY <1>5, <1>3 DEF Sorted
  <2>3. groupList[i] \in GroupDefs /\ groupList[j] \in GroupDefs
    BY <1>5, <1>3
  <2>4. compare_groups(groupList[i], groupList[j]) <= 0
    <3>1. compare_groups(groupList[i], groupList[j]) < 0 \/ compare_groups(groupList[i], groupList[j]) = 0
      BY <2>1, <2>2
    <3>2. compare_groups(groupList[i], groupList[j]) \in Int
      BY <2>3 DEF compare_groups, GroupDefs, TAG_SINGLE, TAG_DISJOINT, TAG_NONE
    <3>. QED BY <3>1, <3>2
  <2>. QED BY <2>3, <2>4, CompareIsOrder
<1>. QED BY <1>6, <1>7

-------------------------------------------------------------------------------
(* Type correctness.                                                            *)

LEMMA SizeIsNat == Size \in Nat /\ Size > 0
BY SizeAssumption

LEMMA MapTypes ==
  ASSUME TypeOK, NEW r \in Ranks, pc[r] = "map", idx[r] <= Len(groupList)
  PROVE  /\ Group(r) \in GroupDefs
         /\ Group(r).name \in Names
         /\ Request(r) \in Int
         /\ StartBound(r) \in 0 .. Size
         /\ StartBound(r) \in {min_rank[r], lower_bound[r]}
         /\ Mappable(r) => /\ MappedCount(r) \in 1 .. Size
                           /\ StartBound(r) + MappedCount(r) \in 0 .. Size
<1>1. idx[r] \in 1 .. Len(groupList) /\ groupList \in Seq(GroupDefs)
  BY DEF TypeOK, IsGroupList
<1>2. Group(r) \in GroupDefs
  BY <1>1 DEF Group
<1>3. Group(r).name \in Names
  BY <1>1 DEF Group, Names
<1>4. Request(r) \in Int
  BY <1>3 DEF Request, TypeOK
<1>5. StartBound(r) \in {min_rank[r], lower_bound[r]}
  BY DEF StartBound
<1>6. StartBound(r) \in 0 .. Size
  BY <1>5 DEF TypeOK
<1>7. Mappable(r) => /\ MappedCount(r) \in 1 .. Size
                     /\ StartBound(r) + MappedCount(r) \in 0 .. Size
  BY <1>4, <1>6, SizeIsNat DEF Mappable, MappedCount
<1>. QED BY <1>2, <1>3, <1>4, <1>5, <1>6, <1>7

(* No rank is at work on a definition beyond the list.                          *)
InList == \A r \in Ranks : pc[r] # "done" => idx[r] <= Len(groupList)

LEMMA NextDefinitionTypes ==
  ASSUME TypeOK, InList, NEW R \in SUBSET Ranks, NextDefinition(R),
         \A r \in R : pc[r] # "done", UNCHANGED groupList
  PROVE  /\ pc' \in [Ranks -> {"barrier", "map", "create", "done"}]
         /\ idx' \in [Ranks -> 1 .. Len(groupList) + 1]
         /\ InList'
<1>1. Len(groupList) \in Nat
  BY DEF TypeOK, IsGroupList
<1>2. pc' \in [Ranks -> {"barrier", "map", "create", "done"}]
  BY DEF NextDefinition, TypeOK
<1>3. \A r \in R : idx[r] + 1 \in 1 .. Len(groupList) + 1
  BY <1>1 DEF TypeOK, InList
<1>4. idx' \in [Ranks -> 1 .. Len(groupList) + 1]
  BY <1>3 DEF NextDefinition, TypeOK
<1>5. ASSUME NEW r \in Ranks, pc'[r] # "done"
      PROVE  idx'[r] <= Len(groupList')
  <2>1. CASE r \in R
    BY <2>1, <1>1, <1>5, <1>3 DEF NextDefinition, InList, TypeOK
  <2>2. CASE r \notin R
    BY <2>2, <1>5 DEF NextDefinition, InList
  <2>. QED BY <2>1, <2>2
<1>. QED BY <1>2, <1>4, <1>5 DEF InList

LEMMA TypeInit == Init => TypeOK /\ InList
<1> SUFFICES ASSUME Init PROVE TypeOK /\ InList
  OBVIOUS
<1>1. IsGroupList(groupList)
  BY InitSorted
<1>2. Len(groupList) \in Nat /\ Len(groupList) >= 1
  BY <1>1 DEF IsGroupList
<1>3. sizeGroupmap \in [Ranks -> [Names -> Int]]
  <2>1. PICK o \in OptionLists :
          sizeGroupmap \in
            [Ranks -> {f \in [Names -> UNION {RequestedSizes(o, n) : n \in Names}] :
                         \A n \in Names : f[n] \in RequestedSizes(o, n)}]
    BY DEF Init
  <2>2. ASSUME NEW n PROVE RequestedSizes(o, n) \subseteq Int
    <3>1. o \in Seq(OptionDefs)
      BY OptionListsAssumption
    <3>2. ASSUME NEW i \in DOMAIN o PROVE StoredSize(o[i]) \subseteq Int
      <4>1. o[i].value \in Int
        <5>1. o[i] \in OptionDefs
          BY <3>1
        <5>. QED BY <5>1 DEF OptionDefs
      <4>2. \/ StoredSize(o[i]) = {0}
            \/ StoredSize(o[i]) = {o[i].value}
            \/ StoredSize(o[i]) = Unread
        BY DEF StoredSize
      <4>3. {o[i].value} \subseteq Int /\ {0} \subseteq Int
        BY <4>1
      <4>. QED BY <4>2, <4>3, UnreadAssumption
    <3>. QED BY <3>2 DEF RequestedSizes
  <2>. QED BY <2>1, <2>2
<1>4. groupMap \in [Ranks -> [Names -> Blocks]]
  BY DEF Init, NoBlock, Blocks
<1>5. /\ pc \in [Ranks -> {"barrier", "map", "create", "done"}]
      /\ idx \in [Ranks -> 1 .. Len(groupList) + 1]
      /\ lower_bound \in [Ranks -> 0 .. Size]
      /\ min_rank \in [Ranks -> 0 .. Size]
      /\ last_subtag \in [Ranks -> Int]
      /\ num \in [Ranks -> 0 .. Size]
      /\ ranks \in [Ranks -> SUBSET Ranks]
      /\ aborted \in BOOLEAN
  <2>1. 1 \in 1 .. Len(groupList) + 1 /\ 0 \in 0 .. Size
    BY <1>2, SizeIsNat
  <2>2. /\ pc = [r \in Ranks |-> "barrier"] /\ idx = [r \in Ranks |-> 1]
        /\ lower_bound = [r \in Ranks |-> 0] /\ min_rank = [r \in Ranks |-> 0]
        /\ last_subtag = [r \in Ranks |-> 0] /\ num = [r \in Ranks |-> 0]
        /\ ranks = [r \in Ranks |-> {}] /\ aborted = FALSE
    BY DEF Init
  <2>3. pc \in [Ranks -> {"barrier", "map", "create", "done"}]
    BY <2>2
  <2>4. idx \in [Ranks -> 1 .. Len(groupList) + 1]
    BY <2>1, <2>2
  <2>5. /\ lower_bound \in [Ranks -> 0 .. Size] /\ min_rank \in [Ranks -> 0 .. Size]
        /\ num \in [Ranks -> 0 .. Size]
    BY <2>1, <2>2
  <2>6. last_subtag \in [Ranks -> Int] /\ ranks \in [Ranks -> SUBSET Ranks]
    BY <2>2
  <2>. QED BY <2>2, <2>3, <2>4, <2>5, <2>6
<1>6. InList
  BY <1>2 DEF Init, InList
<1>. QED BY <1>1, <1>3, <1>4, <1>5, <1>6 DEF TypeOK

\* The parts of TypeOK no step changes.
LEMMA TypeFrame ==
  ASSUME TypeOK, UNCHANGED << groupList, sizeGroupmap >>, aborted' \in BOOLEAN,
         pc' \in [Ranks -> {"barrier", "map", "create", "done"}],
         idx' \in [Ranks -> 1 .. Len(groupList) + 1],
         lower_bound' \in [Ranks -> 0 .. Size],
         min_rank' \in [Ranks -> 0 .. Size],
         last_subtag' \in [Ranks -> Int],
         num' \in [Ranks -> 0 .. Size],
         ranks' \in [Ranks -> SUBSET Ranks],
         groupMap' \in [Ranks -> [Names -> Blocks]]
  PROVE  TypeOK'
<1>1. Names' = Names
  BY DEF Names
<1>2. IsGroupList(groupList)' /\ Len(groupList)' = Len(groupList)
  BY DEF TypeOK, IsGroupList
<1>3. sizeGroupmap' \in [Ranks -> [Names' -> Int]]
  BY <1>1 DEF TypeOK
<1>4. groupMap' \in [Ranks -> [Names' -> Blocks]]
  BY <1>1
<1>. QED BY <1>2, <1>3, <1>4 DEF TypeOK

LEMMA TypeNext == TypeOK /\ InList /\ [Next]_vars => TypeOK' /\ InList'
<1> SUFFICES ASSUME TypeOK, InList, [Next]_vars PROVE TypeOK' /\ InList'
  OBVIOUS
<1> USE SizeIsNat
<1>1. CASE WorldBarrier
  <2>1. UNCHANGED << groupList, sizeGroupmap, idx, lower_bound, min_rank,
                     last_subtag, num, ranks, groupMap, aborted >>
    BY <1>1 DEF WorldBarrier
  <2>2. pc' = [r \in Ranks |-> "map"] /\ \A r \in Ranks : pc[r] = "barrier"
    BY <1>1 DEF WorldBarrier
  <2>3. pc' \in [Ranks -> {"barrier", "map", "create", "done"}]
    BY <2>2
  <2>4. TypeOK'
    BY <2>1, <2>3, TypeFrame DEF TypeOK
  <2>5. InList'
    BY <2>1, <2>2 DEF InList
  <2>. QED BY <2>4, <2>5
<1>2. CASE CreateComm
  <2>1. UNCHANGED << groupList, sizeGroupmap, lower_bound, min_rank, last_subtag,
                     num, ranks, aborted >>
    BY <1>2 DEF CreateComm
  <2>2. NextDefinition(Ranks) /\ \A r \in Ranks : pc[r] = "create"
    BY <1>2 DEF CreateComm, AllInCreate
  <2>3. InList' /\ pc' \in [Ranks -> {"barrier", "map", "create", "done"}]
                /\ idx' \in [Ranks -> 1 .. Len(groupList) + 1]
    BY <2>1, <2>2, NextDefinitionTypes
  <2>4. groupMap' \in [Ranks -> [Names -> Blocks]]
    <3>1. PICK handle \in Handles :
            groupMap' = [r \in Ranks |-> [groupMap[r] EXCEPT ![Group(r).name] =
                           [entry     |-> idx[r],
                            member    |-> handle[r] # {},
                            groupsize |-> num[r],
                            comm      |-> IF handle[r] # {} THEN handle[r] ELSE {r}]]]
      BY <1>2 DEF CreateComm
    <3>2. ASSUME NEW r \in Ranks
          PROVE  [entry |-> idx[r], member |-> handle[r] # {}, groupsize |-> num[r],
                  comm |-> IF handle[r] # {} THEN handle[r] ELSE {r}] \in Blocks
      <4>1. idx[r] \in Nat /\ num[r] \in Nat
        BY DEF TypeOK
      <4>2. handle[r] \in SUBSET Ranks /\ {r} \in SUBSET Ranks
        BY StraysAssumption DEF Handles, TypeOK
      <4>. QED BY <4>1, <4>2 DEF Blocks
    <3>. QED BY <3>1, <3>2 DEF TypeOK
  <2>. QED BY <2>1, <2>3, <2>4, TypeFrame DEF TypeOK
<1>3. ASSUME NEW r \in Ranks, MapGroup(r) PROVE TypeOK' /\ InList'
  <2>1. pc[r] = "map" /\ idx[r] <= Len(groupList) /\ Mappable(r)
    BY <1>3 DEF MapGroup, InList
  <2>2. /\ Group(r).subtag \in Int
        /\ StartBound(r) \in 0 .. Size
        /\ MappedCount(r) \in 0 .. Size
        /\ StartBound(r) + MappedCount(r) \in 0 .. Size
    BY <2>1, MapTypes DEF GroupDefs
  <2>3. UNCHANGED << groupList, sizeGroupmap, idx, groupMap, aborted >>
    BY <1>3 DEF MapGroup
  <2>4. pc' = [pc EXCEPT ![r] = "create"]
    BY <1>3 DEF MapGroup
  <2>5. pc' \in [Ranks -> {"barrier", "map", "create", "done"}]
    BY <2>4 DEF TypeOK
  <2>6. InList'
    BY <2>1, <2>3, <2>4 DEF InList, TypeOK
  <2>7. num' \in [Ranks -> 0 .. Size]
    BY <1>3, <2>2 DEF MapGroup, TypeOK
  <2>8. ranks' \in [Ranks -> SUBSET Ranks]
    <3>1. GroupRanks(r) \subseteq Ranks
      BY <2>2 DEF GroupRanks, Ranks
    <3>. QED BY <1>3, <3>1 DEF MapGroup, TypeOK
  <2>9. lower_bound' \in [Ranks -> 0 .. Size]
    BY <1>3, <2>2 DEF MapGroup, TypeOK
  <2>10. min_rank' \in [Ranks -> 0 .. Size]
    BY <1>3, <2>2 DEF MapGroup, TypeOK
  <2>11. last_subtag' \in [Ranks -> Int]
    BY <1>3, <2>2 DEF MapGroup, TypeOK
  <2>. QED BY <2>3, <2>5, <2>6, <2>7, <2>8, <2>9, <2>10, <2>11, TypeFrame DEF TypeOK
<1>4. ASSUME NEW r \in Ranks, MapOverflow(r) PROVE TypeOK' /\ InList'
  <2>1. UNCHANGED << groupList, sizeGroupmap, pc, idx, lower_bound, min_rank,
                     last_subtag, num, ranks, groupMap >>
    BY <1>4 DEF MapOverflow
  <2>2. aborted' \in BOOLEAN
    BY <1>4 DEF MapOverflow
  <2>. QED BY <2>1, <2>2, TypeFrame DEF TypeOK, InList
<1>5. ASSUME NEW r \in Ranks, SkipGroup(r) PROVE TypeOK' /\ InList'
  <2>1. pc[r] = "map" /\ idx[r] <= Len(groupList)
    BY <1>5 DEF SkipGroup, InList
  <2>2. StartBound(r) \in 0 .. Size /\ Group(r).name \in Names
    BY <2>1, MapTypes
  <2>3. UNCHANGED << groupList, sizeGroupmap, min_rank, last_subtag, num, ranks, aborted >>
    BY <1>5 DEF SkipGroup
  <2>4. NextDefinition({r})
    BY <1>5 DEF SkipGroup
  <2>5. InList' /\ pc' \in [Ranks -> {"barrier", "map", "create", "done"}]
                /\ idx' \in [Ranks -> 1 .. Len(groupList) + 1]
    BY <2>1, <2>3, <2>4, NextDefinitionTypes
  <2>6. lower_bound' \in [Ranks -> 0 .. Size]
    BY <1>5, <2>2 DEF SkipGroup, TypeOK
  <2>7. groupMap' \in [Ranks -> [Names -> Blocks]]
    <3>1. idx[r] \in Nat /\ {r} \in SUBSET Ranks
      BY DEF TypeOK
    <3>2. [entry |-> idx[r], member |-> FALSE, groupsize |-> 0, comm |-> {r}] \in Blocks
      BY <3>1 DEF Blocks
    <3>. QED BY <1>5, <2>2, <3>2 DEF SkipGroup, TypeOK
  <2>. QED BY <2>3, <2>5, <2>6, <2>7, TypeFrame DEF TypeOK
<1>6. CASE CreateErroneous
  <2>1. UNCHANGED << groupList, sizeGroupmap, pc, idx, lower_bound, min_rank,
                     last_subtag, num, ranks, groupMap >> /\ aborted' \in BOOLEAN
    BY <1>6 DEF CreateErroneous
  <2>. QED BY <2>1, TypeFrame DEF TypeOK, InList
<1>7. CASE UNCHANGED vars
  BY <1>7, TypeFrame DEF vars, TypeOK, InList
<1>. QED BY <1>1, <1>2, <1>3, <1>4, <1>5, <1>6, <1>7 DEF Next, Terminated

\* The variables of create_groups keep their types, whatever the group list and
\* the -g options: no bound leaves 0 .. Size, so no rank outside the world is
\* ever put into the array given to MPI_Group_incl.
THEOREM TypeCorrect == Spec => []TypeOK
<1>1. Init => TypeOK /\ InList
  BY TypeInit
<1>2. TypeOK /\ InList /\ [Next]_vars => TypeOK' /\ InList'
  BY TypeNext
<1>. QED BY <1>1, <1>2, PTL DEF Spec

-------------------------------------------------------------------------------
(***************************************************************************)
(* Ranks with the same sizes walk alike.  Each keeps bounds of its own, and *)
(* the barriers only keep them at the same definition: one may have mapped *)
(* or skipped it while another has yet to.  So what they have in common is *)
(* where each stands after the definition at hand.  It makes every         *)
(* MPI_Comm_create a correct one.                                          *)
(***************************************************************************)

\* The definition whose barrier a rank has passed last.
Level(r) == IF pc[r] \in {"map", "create"} THEN idx[r] ELSE idx[r] - 1
Lockstep == \A r, s \in Ranks : Level(r) = Level(s)

\* The ranks it hands to MPI_Comm_create for the definition at hand, if any, and its
\* bounds after that.
View(r) ==
  IF pc[r] = "map"
  THEN LET end == StartBound(r) + MappedCount(r) IN
       [lower  |-> IF Mappable(r) /\ Group(r).tag # TAG_NONE THEN end ELSE StartBound(r),
        min    |-> IF Mappable(r) /\ Group(r).tag = TAG_SINGLE THEN end ELSE min_rank[r],
        subtag |-> IF Mappable(r) /\ Group(r).tag = TAG_DISJOINT
                   THEN Group(r).subtag ELSE last_subtag[r],
        ranks  |-> IF Mappable(r) THEN GroupRanks(r) ELSE {}]
  ELSE [lower  |-> lower_bound[r],
        min    |-> min_rank[r],
        subtag |-> last_subtag[r],
        ranks  |-> IF pc[r] = "create" THEN ranks[r] ELSE {}]

Walk == SameSizes /\ Lockstep /\ \A r, s \in Ranks : View(r) = View(s)

LEMMA SameSizesKept == [Next]_vars => (SameSizes' <=> SameSizes)
<1>1. [Next]_vars => UNCHANGED sizeGroupmap
  BY DEF Next, vars, WorldBarrier, CreateComm, CreateErroneous, MapGroup,
         MapOverflow, SkipGroup, Terminated
<1>. QED BY <1>1 DEF SameSizes

LEMMA LockstepNext == TypeOK /\ InList /\ Lockstep /\ [Next]_vars => Lockstep'
<1> SUFFICES ASSUME TypeOK, InList, Lockstep, [Next]_vars,
                    NEW r \in Ranks, NEW s \in Ranks
             PROVE  Level(r)' = Level(s)'
  BY DEF Lockstep
<1>1. Level(r) = Level(s)
  BY DEF Lockstep
<1>2. idx[r] \in Int /\ idx[s] \in Int
  BY DEF TypeOK, IsGroupList
<1>3. CASE WorldBarrier
  <2>1. pc[r] = "barrier" /\ pc[s] = "barrier" /\ pc'[r] = "map" /\ pc'[s] = "map" /\ idx' = idx
    BY <1>3 DEF WorldBarrier
  <2>. QED BY <2>1, <1>1, <1>2 DEF Level
<1>4. ASSUME NEW q \in Ranks, NextDefinition({q}), pc[q] = "map"
      PROVE  \A t \in Ranks : Level(t)' = Level(t)
  <2> TAKE t \in Ranks
  <2>1. CASE t = q
    <3>1. idx'[q] = idx[q] + 1 /\ pc'[q] \in {"done", "barrier"} /\ idx[q] \in Int
      BY <1>4 DEF NextDefinition, TypeOK, IsGroupList
    <3>. QED BY <2>1, <3>1, <1>4 DEF Level
  <2>2. CASE t # q
    BY <2>2, <1>4 DEF NextDefinition, Level
  <2>. QED BY <2>1, <2>2
<1>5. CASE CreateComm
  <2>1. /\ idx'[r] = idx[r] + 1 /\ idx'[s] = idx[s] + 1
        /\ pc'[r] \in {"done", "barrier"} /\ pc'[s] \in {"done", "barrier"}
        /\ pc[r] = "create" /\ pc[s] = "create"
    BY <1>5 DEF CreateComm, AllInCreate, NextDefinition
  <2>. QED BY <2>1, <1>1, <1>2 DEF Level
<1>6. ASSUME NEW q \in Ranks, MapGroup(q) PROVE Level(r)' = Level(s)'
  <2>1. \A t \in Ranks : Level(t)' = Level(t)
    BY <1>6 DEF MapGroup, Level, TypeOK
  <2>. QED BY <2>1, <1>1
<1>7. ASSUME NEW q \in Ranks, MapOverflow(q) PROVE Level(r)' = Level(s)'
  BY <1>7, <1>1 DEF MapOverflow, Level
<1>8. ASSUME NEW q \in Ranks, SkipGroup(q) PROVE Level(r)' = Level(s)'
  <2>1. NextDefinition({q}) /\ pc[q] = "map"
    BY <1>8 DEF SkipGroup
  <2>. QED BY <2>1, <1>4, <1>1
<1>9. CASE CreateErroneous
  BY <1>9, <1>1 DEF CreateErroneous, Level
<1>10. CASE UNCHANGED vars
  BY <1>10, <1>1 DEF vars, Level
<1>. QED BY <1>3, <1>5, <1>6, <1>7, <1>8, <1>9, <1>10 DEF Next, Terminated

LEMMA WalkInit == Init /\ SameSizes => Walk
<1> SUFFICES ASSUME Init, SameSizes PROVE Walk
  OBVIOUS
<1>1. Lockstep
  BY DEF Init, Lockstep, Level
<1>2. \A r, s \in Ranks : View(r) = View(s)
  BY DEF Init, View
<1>. QED BY <1>1, <1>2 DEF Walk

\* Ranks with the same bounds do the same with a definition.
LEMMA SameMap ==
  ASSUME SameSizes, NEW r \in Ranks, NEW s \in Ranks, idx[r] = idx[s],
         lower_bound[r] = lower_bound[s], min_rank[r] = min_rank[s],
         last_subtag[r] = last_subtag[s]
  PROVE  /\ Group(r) = Group(s)
         /\ StartBound(r) = StartBound(s)
         /\ MappedCount(r) = MappedCount(s)
         /\ Mappable(r) <=> Mappable(s)
         /\ GroupRanks(r) = GroupRanks(s)
<1>1. Group(r) = Group(s)
  BY DEF Group
<1>2. Request(r) = Request(s)
  BY <1>1 DEF Request, SameSizes
<1>3. StartBound(r) = StartBound(s)
  BY <1>1 DEF StartBound
<1>4. MappedCount(r) = MappedCount(s)
  BY <1>2, <1>3 DEF MappedCount
<1>. QED BY <1>1, <1>2, <1>3, <1>4 DEF Mappable, GroupRanks

LEMMA WalkNext == TypeOK /\ InList /\ Walk /\ [Next]_vars => Walk'
<1> SUFFICES ASSUME TypeOK, InList, Walk, [Next]_vars PROVE Walk'
  OBVIOUS
<1>1. SameSizes' /\ Lockstep'
  BY SameSizesKept, LockstepNext DEF Walk
<1>2. SUFFICES ASSUME NEW r \in Ranks, NEW s \in Ranks PROVE View(r)' = View(s)'
  BY <1>1 DEF Walk
<1>3. View(r) = View(s) /\ Level(r) = Level(s)
  BY DEF Walk, Lockstep
<1>4. CASE WorldBarrier
  <2>1. /\ pc[r] = "barrier" /\ pc[s] = "barrier" /\ pc'[r] = "map" /\ pc'[s] = "map"
        /\ UNCHANGED << groupList, sizeGroupmap, idx, lower_bound, min_rank, last_subtag >>
    BY <1>4 DEF WorldBarrier
  <2>2. /\ lower_bound[r] = lower_bound[s] /\ min_rank[r] = min_rank[s]
        /\ last_subtag[r] = last_subtag[s]
    BY <2>1, <1>3 DEF View
  <2>3. idx[r] = idx[s]
    <3>1. idx[r] \in Int /\ idx[s] \in Int
      BY DEF TypeOK, IsGroupList
    <3>. QED BY <3>1, <2>1, <1>3 DEF Level
  <2>4. /\ Group(r)' = Group(s)' /\ StartBound(r)' = StartBound(s)'
        /\ MappedCount(r)' = MappedCount(s)' /\ (Mappable(r)' <=> Mappable(s)')
        /\ GroupRanks(r)' = GroupRanks(s)' /\ min_rank'[r] = min_rank'[s]
        /\ last_subtag'[r] = last_subtag'[s]
    <3>1. ASSUME NEW t \in Ranks
          PROVE  /\ Group(t)' = Group(t) /\ StartBound(t)' = StartBound(t)
                 /\ MappedCount(t)' = MappedCount(t) /\ (Mappable(t)' <=> Mappable(t))
                 /\ GroupRanks(t)' = GroupRanks(t)
      BY <2>1 DEF Group, Request, StartBound, MappedCount, Mappable, GroupRanks
    <3>. QED BY <3>1, <2>1, <2>2, <2>3, SameMap DEF Walk
  <2>. QED BY <2>1, <2>4 DEF View
<1>5. CASE CreateComm
  <2>1. \A t \in Ranks : /\ pc[t] = "create" /\ pc'[t] \in {"done", "barrier"}
                         /\ lower_bound'[t] = lower_bound[t] /\ min_rank'[t] = min_rank[t]
                         /\ last_subtag'[t] = last_subtag[t]
    BY <1>5 DEF CreateComm, AllInCreate, NextDefinition
  <2>2. /\ lower_bound[r] = lower_bound[s] /\ min_rank[r] = min_rank[s]
        /\ last_subtag[r] = last_subtag[s]
    BY <2>1, <1>3 DEF View
  <2>. QED BY <2>1, <2>2 DEF View
<1>6. ASSUME \A t \in Ranks : View(t)' = View(t) PROVE View(r)' = View(s)'
  BY <1>3, <1>6
<1>7. ASSUME NEW q \in Ranks, MapGroup(q) PROVE View(r)' = View(s)'
  <2>1. ASSUME NEW t \in Ranks PROVE View(t)' = View(t)
    <3>1. CASE t = q
      <4>1. /\ pc[q] = "map" /\ Mappable(q) /\ pc'[q] = "create"
            /\ lower_bound'[q] = IF Group(q).tag = TAG_NONE
                                 THEN StartBound(q) ELSE StartBound(q) + MappedCount(q)
            /\ min_rank'[q] = IF Group(q).tag = TAG_SINGLE
                              THEN StartBound(q) + MappedCount(q) ELSE min_rank[q]
            /\ last_subtag'[q] = IF Group(q).tag = TAG_DISJOINT
                                 THEN Group(q).subtag ELSE last_subtag[q]
            /\ ranks'[q] = GroupRanks(q)
        BY <1>7 DEF MapGroup, TypeOK
      <4>. QED BY <4>1, <3>1 DEF View
    <3>2. CASE t # q
      <4>1. /\ pc'[t] = pc[t] /\ lower_bound'[t] = lower_bound[t] /\ min_rank'[t] = min_rank[t]
            /\ last_subtag'[t] = last_subtag[t] /\ ranks'[t] = ranks[t]
            /\ UNCHANGED << groupList, sizeGroupmap, idx >>
        BY <1>7, <3>2 DEF MapGroup, TypeOK
      <4>2. /\ Group(t)' = Group(t) /\ StartBound(t)' = StartBound(t)
            /\ MappedCount(t)' = MappedCount(t) /\ (Mappable(t)' <=> Mappable(t))
            /\ GroupRanks(t)' = GroupRanks(t)
        BY <4>1 DEF Group, Request, StartBound, MappedCount, Mappable, GroupRanks
      <4>. QED BY <4>1, <4>2 DEF View
    <3>. QED BY <3>1, <3>2
  <2>. QED BY <2>1, <1>6
<1>8. ASSUME NEW q \in Ranks, SkipGroup(q) PROVE View(r)' = View(s)'
  <2>1. ASSUME NEW t \in Ranks PROVE View(t)' = View(t)
    <3>1. CASE t = q
      <4>1. /\ pc[q] = "map" /\ ~Mappable(q) /\ pc'[q] \in {"done", "barrier"}
            /\ lower_bound'[q] = StartBound(q)
            /\ UNCHANGED << min_rank, last_subtag, ranks >>
        BY <1>8 DEF SkipGroup, NextDefinition, TypeOK
      <4>. QED BY <4>1, <3>1 DEF View
    <3>2. CASE t # q
      <4>1. /\ pc'[t] = pc[t] /\ lower_bound'[t] = lower_bound[t] /\ idx'[t] = idx[t]
            /\ UNCHANGED << groupList, sizeGroupmap, min_rank, last_subtag, ranks >>
        BY <1>8, <3>2 DEF SkipGroup, NextDefinition, TypeOK
      <4>2. /\ Group(t)' = Group(t) /\ StartBound(t)' = StartBound(t)
            /\ MappedCount(t)' = MappedCount(t) /\ (Mappable(t)' <=> Mappable(t))
            /\ GroupRanks(t)' = GroupRanks(t)
        BY <4>1 DEF Group, Request, StartBound, MappedCount, Mappable, GroupRanks
      <4>. QED BY <4>1, <4>2 DEF View
    <3>. QED BY <3>1, <3>2
  <2>. QED BY <2>1, <1>6
<1>9. CASE UNCHANGED << groupList, sizeGroupmap, pc, idx, lower_bound, min_rank, last_subtag, ranks >>
  <2>1. ASSUME NEW t \in Ranks PROVE View(t)' = View(t)
    BY <1>9 DEF View, Group, Request, StartBound, MappedCount, Mappable, GroupRanks
  <2>. QED BY <2>1, <1>6
<1>10. ASSUME NEW q \in Ranks, MapOverflow(q) PROVE View(r)' = View(s)'
  BY <1>10, <1>9 DEF MapOverflow
<1>11. CASE CreateErroneous
  BY <1>11, <1>9 DEF CreateErroneous
<1>12. CASE UNCHANGED vars
  BY <1>12, <1>9 DEF vars
<1>. QED BY <1>4, <1>5, <1>7, <1>8, <1>10, <1>11, <1>12 DEF Next, Terminated

\* The block a correct MPI_Comm_create leads to.
NewBlock(r) ==
  [entry     |-> idx[r],
   member    |-> r \in ranks[r],
   groupsize |-> num[r],
   comm      |-> IF r \in ranks[r] THEN ranks[r] ELSE {r}]

LEMMA WalkersAgree ==
  ASSUME Walk, AllInCreate, NEW r \in Ranks, NEW s \in Ranks
  PROVE  idx[r] = idx[s] /\ Group(r) = Group(s) /\ ranks[r] = ranks[s]
<1>1. pc[r] = "create" /\ pc[s] = "create"
  BY DEF AllInCreate
<1>2. idx[r] = idx[s] /\ Group(r) = Group(s)
  BY <1>1 DEF Walk, Lockstep, Level, Group
<1>3. View(r) = View(s)
  BY DEF Walk
<1>4. ranks[r] = ranks[s]
  BY <1>1, <1>3 DEF View
<1>. QED BY <1>2, <1>4

LEMMA CreateMakes ==
  ASSUME TypeOK, Walk, CreateComm, NEW r \in Ranks
  PROVE  /\ groupMap'[r] = [groupMap[r] EXCEPT ![Group(r).name] = NewBlock(r)]
         /\ NewBlock(r) \in Blocks
<1>1. AllInCreate
  BY DEF CreateComm
<1>2. SameGroup
  BY <1>1, WalkersAgree DEF SameGroup
<1>3. PICK handle \in Handles :
        groupMap' = [q \in Ranks |-> [groupMap[q] EXCEPT ![Group(q).name] =
                       [entry     |-> idx[q],
                        member    |-> handle[q] # {},
                        groupsize |-> num[q],
                        comm      |-> IF handle[q] # {} THEN handle[q] ELSE {q}]]]
  BY DEF CreateComm
<1>4. handle[r] = IF r \in ranks[r] THEN ranks[r] ELSE {}
  BY <1>2, <1>3 DEF Handles
<1>5. (handle[r] # {}) <=> (r \in ranks[r])
  BY <1>4
<1>6. [entry     |-> idx[r],
       member    |-> handle[r] # {},
       groupsize |-> num[r],
       comm      |-> IF handle[r] # {} THEN handle[r] ELSE {r}] = NewBlock(r)
  <2>1. CASE r \in ranks[r]
    BY <2>1, <1>4, <1>5 DEF NewBlock
  <2>2. CASE r \notin ranks[r]
    BY <2>2, <1>4, <1>5 DEF NewBlock
  <2>. QED BY <2>1, <2>2
<1>7. groupMap'[r] = [groupMap[r] EXCEPT ![Group(r).name] = NewBlock(r)]
  BY <1>3, <1>6
<1>8. NewBlock(r) \in Blocks
  <2>1. idx[r] \in Nat /\ num[r] \in Nat
    BY DEF TypeOK
  <2>2. ranks[r] \in SUBSET Ranks /\ {r} \in SUBSET Ranks
    BY DEF TypeOK
  <2>. QED BY <2>1, <2>2 DEF NewBlock, Blocks
<1>. QED BY <1>7, <1>8

-------------------------------------------------------------------------------
(***************************************************************************)
(* The tags keep their promise.  No invariant over the blocks alone is     *)
(* inductive: that the next group stays clear of the earlier ones follows  *)
(* from where lower_bound and min_rank stand, and from the list being      *)
(* sorted, so that no earlier definition has a later tag or subtag.        *)
(***************************************************************************)

\* Two definitions whose groups may not share a process.
Clash(g, h) ==
  \/ g.tag = TAG_SINGLE
  \/ h.tag = TAG_SINGLE
  \/ g.tag = TAG_DISJOINT /\ h.tag = TAG_DISJOINT /\ g.subtag = h.subtag

\* A membership stands below min_rank if its group is TAG_SINGLE, else above it;
\* and below lower_bound if the definition at hand continues its row.
Placed(r, n) ==
  Member(r, n) =>
    /\ groupMap[r][n].entry \in 1 .. Len(groupList)
    /\ groupMap[r][n].entry < idx[r]
    /\ DefOf(r, n).tag = TAG_SINGLE => r < min_rank[r]
    /\ DefOf(r, n).tag # TAG_SINGLE => min_rank[r] <= r
    /\ (/\ pc[r] # "done"
        /\ Group(r).tag = TAG_DISJOINT
        /\ DefOf(r, n).tag = TAG_DISJOINT
        /\ DefOf(r, n).subtag = Group(r).subtag)
       => last_subtag[r] = Group(r).subtag /\ r < lower_bound[r]

\* The same of the rank array of a group that is about to be created.
AboutToJoin(r) ==
  pc[r] = "create" /\ r \in ranks[r] =>
    /\ Group(r).tag = TAG_SINGLE => r < min_rank[r]
    /\ Group(r).tag # TAG_SINGLE => min_rank[r] <= r
    /\ Group(r).tag = TAG_DISJOINT => last_subtag[r] = Group(r).subtag /\ r < lower_bound[r]
    /\ \A n \in Names : Member(r, n) => ~Clash(Group(r), DefOf(r, n))

NoClash(r) ==
  \A m, n \in Names :
    m # n /\ Member(r, m) /\ Member(r, n) => ~Clash(DefOf(r, m), DefOf(r, n))

RankInv(r) ==
  /\ min_rank[r] <= lower_bound[r]
  /\ \A n \in Names : Placed(r, n)
  /\ AboutToJoin(r)
  /\ NoClash(r)

IInv == TypeOK /\ InList /\ Walk /\ Sorted /\ \A r \in Ranks : RankInv(r)

LEMMA InvInit == Init => (SameSizes => IInv)
<1> SUFFICES ASSUME Init, SameSizes PROVE IInv
  OBVIOUS
<1>1. ASSUME NEW r \in Ranks PROVE RankInv(r)
  <2>1. \A n \in Names : ~Member(r, n)
    BY DEF Init, Member, NoBlock
  <2>2. min_rank[r] = 0 /\ lower_bound[r] = 0 /\ ranks[r] = {}
    BY DEF Init
  <2>. QED BY <2>1, <2>2 DEF RankInv, Placed, AboutToJoin, NoClash
<1>. QED BY <1>1, TypeInit, InitSorted, WalkInit DEF IInv

\* What one rank keeps in a step that leaves its own variables alone.
LEMMA RankFrame ==
  ASSUME NEW r \in Ranks, RankInv(r), UNCHANGED groupList,
         idx'[r] = idx[r], lower_bound'[r] = lower_bound[r], min_rank'[r] = min_rank[r],
         last_subtag'[r] = last_subtag[r], ranks'[r] = ranks[r],
         groupMap'[r] = groupMap[r],
         pc'[r] = "create" => pc[r] = "create",
         pc'[r] # "done" => pc[r] # "done"
  PROVE  RankInv(r)'
<1>1. Names' = Names /\ Group(r)' = Group(r)
  BY DEF Names, Group
<1>2. \A n \in Names : (Member(r, n)' <=> Member(r, n)) /\ DefOf(r, n)' = DefOf(r, n)
  BY DEF Member, DefOf
<1>3. \A n \in Names : Placed(r, n)'
  BY <1>1, <1>2 DEF RankInv, Placed
<1>4. AboutToJoin(r)'
  BY <1>1, <1>2 DEF RankInv, AboutToJoin
<1>5. NoClash(r)'
  BY <1>1, <1>2 DEF RankInv, NoClash
<1>. QED BY <1>1, <1>3, <1>4, <1>5 DEF RankInv

\* Where an earlier definition stands, relative to the one at hand.
LEMMA EarlierDef ==
  ASSUME IInv, NEW r \in Ranks, NEW n \in Names, Member(r, n),
         NEW k \in 1 .. Len(groupList), idx[r] <= k
  PROVE  /\ DefOf(r, n) \in GroupDefs
         /\ Ordered(DefOf(r, n), groupList[k])
<1>1. Placed(r, n)
  BY DEF IInv, RankInv
<1>2. groupMap[r][n].entry \in 1 .. Len(groupList) /\ groupMap[r][n].entry < k
  BY <1>1 DEF Placed, IInv, TypeOK
<1>3. groupList \in Seq(GroupDefs)
  BY DEF IInv, TypeOK, IsGroupList
<1>. QED BY <1>2, <1>3 DEF DefOf, Sorted, IInv

LEMMA MapInv ==
  ASSUME IInv, NEW r \in Ranks, MapGroup(r)
  PROVE  RankInv(r)'
<1> USE SizeIsNat DEF TAG_SINGLE, TAG_DISJOINT, TAG_NONE
<1> DEFINE start == StartBound(r)
           count == MappedCount(r)
<1>1. /\ pc[r] = "map" /\ Mappable(r) /\ UNCHANGED << groupList, idx, groupMap >>
      /\ pc'[r] = "create" /\ ranks'[r] = GroupRanks(r)
      /\ lower_bound'[r] = IF Group(r).tag = TAG_NONE THEN start ELSE start + count
      /\ min_rank'[r] = IF Group(r).tag = TAG_SINGLE THEN start + count ELSE min_rank[r]
      /\ last_subtag'[r] = IF Group(r).tag = TAG_DISJOINT THEN Group(r).subtag ELSE last_subtag[r]
  BY DEF MapGroup, IInv, TypeOK
<1>2. TypeOK /\ InList /\ RankInv(r)
  BY DEF IInv
<1>3. /\ Group(r) \in GroupDefs /\ start \in 0 .. Size /\ count \in 1 .. Size
      /\ start + count \in 0 .. Size
      /\ start \in {min_rank[r], lower_bound[r]}
  BY <1>1, <1>2, MapTypes DEF InList
<1>4. /\ Names' = Names /\ Group(r)' = Group(r)
      /\ \A n \in Names : (Member(r, n)' <=> Member(r, n)) /\ DefOf(r, n)' = DefOf(r, n)
  BY <1>1 DEF Names, Group, Member, DefOf
<1>5. min_rank[r] \in 0 .. Size /\ lower_bound[r] \in 0 .. Size /\ min_rank[r] <= lower_bound[r]
  BY <1>2 DEF TypeOK, RankInv
<1>6. min_rank[r] <= start
  BY <1>3, <1>5
<1>7. Group(r).tag \in {0, 1, 2} /\ Group(r).subtag \in Int
  BY <1>3 DEF GroupDefs
<1>8. ASSUME NEW n \in Names, Member(r, n)
      PROVE  /\ DefOf(r, n) \in GroupDefs
             /\ Ordered(DefOf(r, n), Group(r))
             /\ Placed(r, n)
  <2>1. idx[r] \in 1 .. Len(groupList)
    BY <1>1, <1>2 DEF TypeOK, InList
  <2>. QED BY <2>1, <1>8, <1>2, EarlierDef DEF Group, RankInv, TypeOK
<1>9. min_rank'[r] <= lower_bound'[r]
  BY <1>1, <1>3, <1>5, <1>6, <1>7
<1>10. ASSUME NEW n \in Names, Member(r, n),
              Group(r).tag = TAG_DISJOINT, DefOf(r, n).tag = TAG_DISJOINT,
              DefOf(r, n).subtag = Group(r).subtag
       PROVE  start = lower_bound[r] /\ r < start
  <2>1. last_subtag[r] = Group(r).subtag /\ r < lower_bound[r]
    BY <1>10, <1>8, <1>1 DEF Placed
  <2>. QED BY <2>1, <1>10 DEF StartBound
<1>11. ASSUME NEW n \in Names PROVE Placed(r, n)'
  <2>1. SUFFICES ASSUME Member(r, n) PROVE Placed(r, n)'
    BY <1>4 DEF Placed
  <2>2. /\ Placed(r, n) /\ Ordered(DefOf(r, n), Group(r)) /\ DefOf(r, n) \in GroupDefs
    BY <2>1, <1>8
  <2>3. DefOf(r, n).tag \in {0, 1, 2} /\ DefOf(r, n).subtag \in Int
    BY <2>2 DEF GroupDefs
  <2>4. DefOf(r, n).tag = TAG_SINGLE => r < min_rank'[r]
    BY <2>1, <2>2, <1>1, <1>3, <1>5, <1>6 DEF Placed, Ranks
  <2>5. DefOf(r, n).tag # TAG_SINGLE => min_rank'[r] <= r
    <3>1. DefOf(r, n).tag # TAG_SINGLE => Group(r).tag # TAG_SINGLE
      BY <2>2, <2>3, <1>7 DEF Ordered
    <3>. QED BY <3>1, <2>1, <2>2, <1>1 DEF Placed
  <2>6. Group(r).tag = TAG_DISJOINT /\ DefOf(r, n).tag = TAG_DISJOINT
          /\ DefOf(r, n).subtag = Group(r).subtag
        => last_subtag'[r] = Group(r).subtag /\ r < lower_bound'[r]
    BY <2>1, <1>10, <1>1, <1>3 DEF Ranks
  <2>. QED BY <2>1, <2>2, <2>4, <2>5, <2>6, <1>1, <1>4 DEF Placed
<1>12. ASSUME r \in ranks'[r]
       PROVE  AboutToJoin(r)'
  <2>1. start <= r /\ r < start + count
    BY <1>12, <1>1, <1>3 DEF GroupRanks, Ranks
  <2>2. Group(r).tag = TAG_SINGLE => r < min_rank'[r]
    BY <2>1, <1>1
  <2>3. Group(r).tag # TAG_SINGLE => min_rank'[r] <= r
    BY <2>1, <1>1, <1>3, <1>5, <1>6 DEF Ranks
  <2>4. Group(r).tag = TAG_DISJOINT => last_subtag'[r] = Group(r).subtag /\ r < lower_bound'[r]
    BY <2>1, <1>1
  <2>5. ASSUME NEW n \in Names, Member(r, n), Clash(Group(r), DefOf(r, n))
        PROVE  FALSE
    <3>1. /\ Placed(r, n) /\ Ordered(DefOf(r, n), Group(r)) /\ DefOf(r, n) \in GroupDefs
      BY <2>5, <1>8
    <3>2. DefOf(r, n).tag \in {0, 1, 2} /\ DefOf(r, n).subtag \in Int
      BY <3>1 DEF GroupDefs
    <3>3. CASE DefOf(r, n).tag = TAG_SINGLE
      <4>1. r < min_rank[r]
        BY <3>1, <3>3, <2>5 DEF Placed
      <4>. QED BY <4>1, <2>1, <1>3, <1>5, <1>6 DEF Ranks
    <3>4. CASE DefOf(r, n).tag # TAG_SINGLE
      <4>1. Group(r).tag = TAG_DISJOINT /\ DefOf(r, n).tag = TAG_DISJOINT
              /\ DefOf(r, n).subtag = Group(r).subtag
        BY <3>1, <3>2, <3>4, <2>5, <1>7 DEF Clash, Ordered
      <4>2. r < start
        BY <4>1, <2>5, <1>10
      <4>. QED BY <4>2, <2>1, <1>3 DEF Ranks
    <3>. QED BY <3>3, <3>4
  <2>. QED BY <2>2, <2>3, <2>4, <2>5, <1>4, <1>1 DEF AboutToJoin
<1>13. AboutToJoin(r)'
  BY <1>12 DEF AboutToJoin
<1>14. NoClash(r)'
  BY <1>2, <1>4 DEF RankInv, NoClash
<1>. QED BY <1>4, <1>9, <1>11, <1>13, <1>14 DEF RankInv

\* One rank finishes an iteration: its block goes into the map under the name of
\* the definition at hand, and it is a member only if nothing clashes.
LEMMA InsertInv ==
  ASSUME IInv, NEW r \in Ranks, pc[r] # "done", UNCHANGED << groupList, min_rank, last_subtag >>,
         NEW block \in Blocks, block.entry = idx[r],
         groupMap'[r] = [groupMap[r] EXCEPT ![Group(r).name] = block],
         idx'[r] = idx[r] + 1, pc'[r] # "create",
         pc'[r] # "done" => idx[r] < Len(groupList),
         lower_bound'[r] \in Int, min_rank[r] <= lower_bound'[r],
         block.member =>
           /\ Group(r).tag = TAG_SINGLE => r < min_rank[r]
           /\ Group(r).tag # TAG_SINGLE => min_rank[r] <= r
           /\ Group(r).tag = TAG_DISJOINT => last_subtag[r] = Group(r).subtag /\ r < lower_bound'[r]
           /\ \A n \in Names : Member(r, n) => ~Clash(Group(r), DefOf(r, n)),
         \A n \in Names :
           (/\ Member(r, n)
            /\ Group(r).tag = TAG_DISJOINT
            /\ DefOf(r, n).tag = TAG_DISJOINT
            /\ DefOf(r, n).subtag = Group(r).subtag)
           => lower_bound'[r] >= lower_bound[r]
  PROVE  RankInv(r)'
<1> USE SizeIsNat DEF TAG_SINGLE, TAG_DISJOINT, TAG_NONE
<1>1. TypeOK /\ InList /\ Sorted /\ RankInv(r)
  BY DEF IInv
<1>2. /\ idx[r] \in 1 .. Len(groupList) /\ Len(groupList) \in Nat
      /\ groupList \in Seq(GroupDefs)
  BY <1>1 DEF TypeOK, InList, IsGroupList
<1>3. /\ Group(r) \in GroupDefs /\ Group(r).name \in Names /\ Names' = Names
      /\ Group(r) = groupList[idx[r]]
  BY <1>2 DEF Group, Names
<1>4. groupMap[r] \in [Names -> Blocks]
  BY <1>1 DEF TypeOK
<1>5. ASSUME NEW n \in Names
      PROVE  \/ /\ n = Group(r).name /\ (Member(r, n)' <=> block.member)
                /\ groupMap'[r][n].entry = idx[r] /\ DefOf(r, n)' = Group(r)
             \/ /\ n # Group(r).name /\ (Member(r, n)' <=> Member(r, n))
                /\ groupMap'[r][n].entry = groupMap[r][n].entry /\ DefOf(r, n)' = DefOf(r, n)
  BY <1>3, <1>4 DEF Member, DefOf, Group
<1>6. ASSUME NEW n \in Names, Member(r, n)
      PROVE  DefOf(r, n) \in GroupDefs /\ Ordered(DefOf(r, n), Group(r)) /\ Placed(r, n)
  BY <1>6, <1>2, <1>3, <1>1, EarlierDef DEF RankInv
<1>7. ASSUME pc'[r] # "done"
      PROVE  /\ Group(r)' = groupList[idx[r] + 1]
             /\ Group(r)' \in GroupDefs
             /\ Ordered(Group(r), Group(r)')
  <2>1. idx[r] + 1 \in 1 .. Len(groupList)
    BY <1>7, <1>2
  <2>2. Group(r)' = groupList[idx[r] + 1]
    BY DEF Group
  <2>3. Ordered(groupList[idx[r]], groupList[idx[r] + 1])
    BY <2>1, <1>1, <1>2 DEF Sorted
  <2>. QED BY <2>1, <2>2, <2>3, <1>2, <1>3
<1>8. ASSUME NEW n \in Names PROVE Placed(r, n)'
  <2>1. SUFFICES ASSUME Member(r, n)' PROVE Placed(r, n)'
    BY DEF Placed
  <2>2. r \in Nat /\ lower_bound[r] \in 0 .. Size
    BY <1>1 DEF Ranks, TypeOK
  <2>3. CASE n = Group(r).name
    <3>1. block.member /\ groupMap'[r][n].entry = idx[r] /\ DefOf(r, n)' = Group(r)
      BY <2>1, <2>3, <1>5
    <3>2. ASSUME pc'[r] # "done", Group(r)'.tag = TAG_DISJOINT, Group(r).tag = TAG_DISJOINT,
                 Group(r).subtag = Group(r)'.subtag
          PROVE  last_subtag'[r] = Group(r)'.subtag /\ r < lower_bound'[r]
      BY <3>1, <3>2
    <3>. QED BY <3>1, <3>2, <1>2 DEF Placed
  <2>4. CASE n # Group(r).name
    <3>1. /\ Member(r, n) /\ groupMap'[r][n].entry = groupMap[r][n].entry
          /\ DefOf(r, n)' = DefOf(r, n)
      BY <2>1, <2>4, <1>5
    <3>2. DefOf(r, n) \in GroupDefs /\ Ordered(DefOf(r, n), Group(r)) /\ Placed(r, n)
      BY <3>1, <1>6
    <3>3. ASSUME pc'[r] # "done", Group(r)'.tag = TAG_DISJOINT, DefOf(r, n).tag = TAG_DISJOINT,
                 DefOf(r, n).subtag = Group(r)'.subtag
          PROVE  last_subtag'[r] = Group(r)'.subtag /\ r < lower_bound'[r]
      <4>1. /\ Ordered(Group(r), Group(r)') /\ Group(r)' \in GroupDefs
            /\ Group(r) \in GroupDefs /\ DefOf(r, n) \in GroupDefs
        BY <3>2, <3>3, <1>3, <1>7
      <4>2. Group(r).tag = TAG_DISJOINT /\ Group(r).subtag = DefOf(r, n).subtag
        BY <4>1, <3>2, <3>3 DEF Ordered, GroupDefs
      <4>3. last_subtag[r] = Group(r).subtag /\ r < lower_bound[r]
        BY <4>2, <3>1, <3>2, <3>3 DEF Placed
      <4>4. lower_bound'[r] >= lower_bound[r]
        BY <4>2, <3>1, <3>3
      <4>5. r < lower_bound'[r]
        BY <4>3, <4>4, <2>2
      <4>6. last_subtag'[r] = last_subtag[r]
        OBVIOUS
      <4>7. last_subtag'[r] = Group(r)'.subtag
        BY <4>6, <4>2, <4>3, <3>3, Zenon
      <4>. QED BY <4>5, <4>7
    <3>4. groupMap[r][n].entry < idx[r] + 1
      BY <3>1, <3>2, <1>2 DEF Placed
    <3>. QED BY <3>1, <3>2, <3>3, <3>4 DEF Placed
  <2>. QED BY <2>3, <2>4
<1>9. NoClash(r)'
  <2>1. SUFFICES ASSUME NEW m \in Names, NEW n \in Names, m # n, Member(r, m)', Member(r, n)'
                 PROVE  ~Clash(DefOf(r, m)', DefOf(r, n)')
    BY <1>3 DEF NoClash, Clash
  <2>2. CASE m # Group(r).name /\ n # Group(r).name
    BY <2>1, <2>2, <1>5, <1>1 DEF RankInv, NoClash
  <2>3. CASE m = Group(r).name
    BY <2>1, <2>3, <1>5
  <2>4. CASE n = Group(r).name
    <3>1. ~Clash(Group(r), DefOf(r, m))
      BY <2>1, <2>4, <1>5
    <3>. QED BY <2>1, <2>4, <1>5, <3>1 DEF Clash
  <2>. QED BY <2>2, <2>3, <2>4
<1>10. AboutToJoin(r)'
  BY DEF AboutToJoin
<1>. QED BY <1>3, <1>8, <1>9, <1>10 DEF RankInv

LEMMA SkipInv ==
  ASSUME IInv, NEW r \in Ranks, SkipGroup(r)
  PROVE  RankInv(r)'
<1> USE SizeIsNat
<1>1. TypeOK /\ InList /\ RankInv(r)
  BY DEF IInv
<1>2. /\ pc[r] = "map" /\ UNCHANGED << groupList, min_rank, last_subtag >>
      /\ lower_bound'[r] = StartBound(r)
      /\ NextDefinition({r})
  BY <1>1 DEF SkipGroup, TypeOK
<1>3. /\ Group(r).name \in Names /\ idx[r] \in 1 .. Len(groupList)
      /\ StartBound(r) \in 0 .. Size /\ StartBound(r) \in {min_rank[r], lower_bound[r]}
  BY <1>1, <1>2, MapTypes DEF InList, TypeOK
<1> DEFINE block == [entry |-> idx[r], member |-> FALSE, groupsize |-> 0, comm |-> {r}]
<1>4. block \in Blocks /\ block.entry = idx[r] /\ ~block.member
  BY <1>3 DEF Blocks
<1>5. groupMap'[r] = [groupMap[r] EXCEPT ![Group(r).name] = block]
  BY <1>1 DEF SkipGroup, TypeOK
<1>6. idx'[r] = idx[r] + 1 /\ pc'[r] # "create" /\ (pc'[r] # "done" => idx[r] < Len(groupList))
  BY <1>2, <1>3 DEF NextDefinition
<1>7. min_rank[r] <= lower_bound'[r] /\ lower_bound'[r] \in Int
  BY <1>1, <1>2, <1>3 DEF RankInv, TypeOK
<1>8. ASSUME NEW n \in Names, Member(r, n),
             Group(r).tag = TAG_DISJOINT, DefOf(r, n).tag = TAG_DISJOINT,
             DefOf(r, n).subtag = Group(r).subtag
      PROVE  lower_bound'[r] >= lower_bound[r]
  <2>1. last_subtag[r] = Group(r).subtag
    BY <1>8, <1>1, <1>2 DEF RankInv, Placed
  <2>2. StartBound(r) = lower_bound[r]
    BY <2>1, <1>8 DEF StartBound, TAG_DISJOINT, TAG_NONE
  <2>. QED BY <2>2, <1>1, <1>2 DEF TypeOK
<1> HIDE DEF block
<1>. QED BY <1>2, <1>4, <1>5, <1>6, <1>7, <1>8, InsertInv

LEMMA CreateInv ==
  ASSUME IInv, NEW r \in Ranks, CreateComm
  PROVE  RankInv(r)'
<1> USE SizeIsNat
<1>1. TypeOK /\ InList /\ RankInv(r)
  BY DEF IInv
<1>2. /\ pc[r] = "create" /\ UNCHANGED << groupList, min_rank, last_subtag, lower_bound >>
      /\ NextDefinition(Ranks)
  BY DEF CreateComm, AllInCreate
<1>3. idx[r] \in 1 .. Len(groupList)
  BY <1>1, <1>2 DEF InList, TypeOK
<1>4. /\ NewBlock(r) \in Blocks /\ NewBlock(r).entry = idx[r]
      /\ NewBlock(r).member <=> r \in ranks[r]
  BY <1>1, CreateMakes DEF NewBlock, IInv
<1>5. groupMap'[r] = [groupMap[r] EXCEPT ![Group(r).name] = NewBlock(r)]
  BY <1>1, CreateMakes DEF IInv
<1>6. idx'[r] = idx[r] + 1 /\ pc'[r] # "create" /\ (pc'[r] # "done" => idx[r] < Len(groupList))
  BY <1>2, <1>3 DEF NextDefinition
<1>7. /\ lower_bound'[r] = lower_bound[r] /\ min_rank[r] <= lower_bound'[r]
      /\ lower_bound'[r] \in Int
  BY <1>1, <1>2 DEF RankInv, TypeOK
<1>8. r \in ranks[r] =>
        /\ Group(r).tag = TAG_SINGLE => r < min_rank[r]
        /\ Group(r).tag # TAG_SINGLE => min_rank[r] <= r
        /\ Group(r).tag = TAG_DISJOINT => last_subtag[r] = Group(r).subtag /\ r < lower_bound'[r]
        /\ \A n \in Names : Member(r, n) => ~Clash(Group(r), DefOf(r, n))
  BY <1>1, <1>2, <1>7 DEF RankInv, AboutToJoin
<1>9. lower_bound'[r] >= lower_bound[r]
  BY <1>7
<1>. QED BY <1>2, <1>4, <1>5, <1>6, <1>7, <1>8, <1>9, InsertInv

LEMMA InvNext == IInv /\ [Next]_vars => IInv'
<1> SUFFICES ASSUME IInv, [Next]_vars PROVE IInv'
  OBVIOUS
<1>1. TypeOK' /\ InList' /\ Walk'
  BY TypeNext, WalkNext DEF IInv
<1>2. UNCHANGED groupList
  BY DEF Next, vars, WorldBarrier, CreateComm, CreateErroneous, MapGroup,
         MapOverflow, SkipGroup, Terminated
<1>3. Sorted'
  BY <1>2 DEF IInv, Sorted
<1>4. ASSUME NEW q \in Ranks PROVE RankInv(q)'
  <2>1. RankInv(q) /\ TypeOK
    BY DEF IInv
  <2>2. CASE WorldBarrier
    <3>1. pc'[q] = "map" /\ pc[q] = "barrier"
      BY <2>2 DEF WorldBarrier
    <3>2. UNCHANGED << groupList, idx, lower_bound, min_rank, last_subtag, ranks, groupMap >>
      BY <2>2 DEF WorldBarrier
    <3>. QED BY <2>1, <3>1, <3>2, RankFrame
  <2>3. CASE CreateComm
    BY <2>3, CreateInv
  <2>4. ASSUME NEW r \in Ranks, MapGroup(r) PROVE RankInv(q)'
    <3>1. CASE q = r
      BY <2>4, <3>1, MapInv
    <3>2. CASE q # r
      <4>1. /\ pc'[q] = pc[q] /\ lower_bound'[q] = lower_bound[q] /\ min_rank'[q] = min_rank[q]
            /\ last_subtag'[q] = last_subtag[q] /\ ranks'[q] = ranks[q]
            /\ UNCHANGED << groupList, idx, groupMap >>
        BY <2>1, <2>4, <3>2 DEF MapGroup, TypeOK
      <4>. QED BY <2>1, <4>1, RankFrame
    <3>. QED BY <3>1, <3>2
  <2>5. ASSUME NEW r \in Ranks, MapOverflow(r) PROVE RankInv(q)'
    <3>1. UNCHANGED << groupList, pc, idx, lower_bound, min_rank, last_subtag, ranks, groupMap >>
      BY <2>5 DEF MapOverflow
    <3>. QED BY <2>1, <3>1, RankFrame
  <2>6. ASSUME NEW r \in Ranks, SkipGroup(r) PROVE RankInv(q)'
    <3>1. CASE q = r
      BY <2>6, <3>1, SkipInv
    <3>2. CASE q # r
      <4>1. /\ pc'[q] = pc[q] /\ lower_bound'[q] = lower_bound[q] /\ idx'[q] = idx[q]
            /\ groupMap'[q] = groupMap[q]
            /\ UNCHANGED << groupList, min_rank, last_subtag, ranks >>
        BY <2>1, <2>6, <3>2 DEF SkipGroup, NextDefinition, TypeOK
      <4>. QED BY <2>1, <4>1, RankFrame
    <3>. QED BY <3>1, <3>2
  <2>7. CASE CreateErroneous
    <3>1. UNCHANGED << groupList, pc, idx, lower_bound, min_rank, last_subtag, ranks, groupMap >>
      BY <2>7 DEF CreateErroneous
    <3>. QED BY <2>1, <3>1, RankFrame
  <2>8. CASE UNCHANGED vars
    <3>1. UNCHANGED << groupList, pc, idx, lower_bound, min_rank, last_subtag, ranks, groupMap >>
      BY <2>8 DEF vars
    <3>. QED BY <2>1, <3>1, RankFrame
  <2>. QED BY <2>2, <2>3, <2>4, <2>5, <2>6, <2>7, <2>8 DEF Next, Terminated
<1>. QED BY <1>1, <1>3, <1>4 DEF IInv

LEMMA InvKept == (SameSizes => IInv) /\ [Next]_vars => (SameSizes => IInv)'
BY InvNext, SameSizesKept

\* For every world size, group list and command line that gives all ranks the same
\* sizes, a process of a TAG_SINGLE group is in no other group.
THEOREM SingleIsExclusive == Spec => []SingleExclusive
<1>1. (SameSizes => IInv) => SingleExclusive
  BY DEF IInv, RankInv, NoClash, Clash, SingleExclusive
<1>. QED BY <1>1, InvInit, InvKept, PTL DEF Spec

\* For every world size, group list and command line that gives all ranks the same
\* sizes, disjoint groups with the same subtag share no process.
THEOREM SubtagIsDisjoint == Spec => []SubtagDisjoint
<1>1. (SameSizes => IInv) => SubtagDisjoint
  BY DEF IInv, RankInv, NoClash, Clash, SubtagDisjoint
<1>. QED BY <1>1, InvInit, InvKept, PTL DEF Spec

-------------------------------------------------------------------------------
(***************************************************************************)
(* Proofs about what the ranks hold together once create_groups made them  *)
(* blocks: that they agree about every group, that a group is cut short    *)
(* only at the end of the world, and that the process space is packed.     *)
(***************************************************************************)

-------------------------------------------------------------------------------
(***************************************************************************)
(* The ranks agree.  A block is made by all ranks in one step, for the     *)
(* same definition and of the same ranks, because they walk alike.         *)
(***************************************************************************)

\* What a rank brings into MPI_Comm_create.
Counted(r) ==
  pc[r] = "create" =>
    /\ Cardinality(ranks[r]) = num[r]
    /\ num[r] < Request(r) => Size - 1 \in ranks[r]

\* What a member's block says, and what the others hold for the same definition,
\* which all of them have passed.
Agreed(r, n) ==
  Member(r, n) =>
    /\ groupMap[r][n].groupsize < sizeGroupmap[r][n] => Size - 1 \in groupMap[r][n].comm
    /\ \A s \in Ranks :
         /\ groupMap[r][n].entry < idx[s]
         /\ groupMap[s][n].entry = groupMap[r][n].entry =>
              /\ groupMap[s][n].groupsize = Cardinality(groupMap[r][n].comm)
              /\ s \in groupMap[r][n].comm <=> Member(s, n)

AgreeInv ==
  /\ TypeOK /\ InList /\ Walk
  /\ \A r \in Ranks : Counted(r)
  /\ \A r \in Ranks : \A n \in Names : Agreed(r, n)

LEMMA AgreeInit == Init => (SameSizes => AgreeInv)
<1> SUFFICES ASSUME Init, SameSizes PROVE AgreeInv
  OBVIOUS
<1>1. Walk
  BY WalkInit
<1>2. \A r \in Ranks : Counted(r)
  BY DEF Init, Counted
<1>3. \A r \in Ranks : \A n \in Names : Agreed(r, n)
  BY DEF Init, Agreed, Member, NoBlock
<1>. QED BY <1>1, <1>2, <1>3, TypeInit DEF AgreeInv

\* All ranks that meet in MPI_Comm_create are at the same definition.
LEMMA SameDefinition ==
  ASSUME AgreeInv, CreateComm, NEW r \in Ranks, NEW s \in Ranks
  PROVE  idx[r] = idx[s] /\ Group(r) = Group(s) /\ ranks[r] = ranks[s]
BY WalkersAgree DEF AgreeInv, CreateComm

LEMMA CountedNext ==
  ASSUME AgreeInv, [Next]_vars, NEW r \in Ranks PROVE Counted(r)'
<1> SUFFICES ASSUME pc'[r] = "create" PROVE Counted(r)'
  BY DEF Counted
<1>1. TypeOK /\ InList /\ Counted(r)
  BY DEF AgreeInv
<1>2. ASSUME pc[r] = "create", num'[r] = num[r], ranks'[r] = ranks[r], Request(r)' = Request(r)
      PROVE  Counted(r)'
  BY <1>1, <1>2 DEF Counted
<1>3. ASSUME MapGroup(r) PROVE Counted(r)'
  <2>1. /\ pc[r] = "map" /\ Mappable(r)
        /\ num'[r] = MappedCount(r) /\ ranks'[r] = GroupRanks(r)
        /\ Request(r)' = Request(r)
    BY <1>1, <1>3 DEF MapGroup, TypeOK, Request, Group
  <2>2. /\ Request(r) \in Int /\ StartBound(r) \in 0 .. Size /\ MappedCount(r) \in 1 .. Size
        /\ Size \in Nat
    BY <1>1, <2>1, MapTypes, SizeIsNat DEF InList
  <2>3. Cardinality(GroupRanks(r)) = MappedCount(r)
    <3>1. PICK a \in Int : a = StartBound(r)
      BY <2>2
    <3>2. PICK b \in Int : b = StartBound(r) + MappedCount(r) - 1
      BY <2>2
    <3>3. Cardinality(a .. b) = IF a > b THEN 0 ELSE b - a + 1
      BY FS_Interval
    <3>. QED BY <3>1, <3>2, <3>3, <2>2 DEF GroupRanks
  <2>4. MappedCount(r) < Request(r) => Size - 1 \in GroupRanks(r)
    BY <2>2 DEF MappedCount, GroupRanks
  <2>. QED BY <2>1, <2>3, <2>4 DEF Counted
<1>4. CASE WorldBarrier
  BY <1>4 DEF WorldBarrier
<1>5. CASE CreateComm
  BY <1>5 DEF CreateComm, NextDefinition
<1>6. ASSUME NEW q \in Ranks, q # r, MapGroup(q) PROVE Counted(r)'
  <2>1. /\ pc[r] = "create" /\ num'[r] = num[r] /\ ranks'[r] = ranks[r]
        /\ Request(r)' = Request(r)
    BY <1>1, <1>6 DEF MapGroup, TypeOK, Request, Group
  <2>. QED BY <2>1, <1>2
<1>7. ASSUME NEW q \in Ranks, MapOverflow(q) PROVE Counted(r)'
  BY <1>7, <1>2 DEF MapOverflow, Request, Group
<1>8. ASSUME NEW q \in Ranks, SkipGroup(q) PROVE Counted(r)'
  <2>1. q # r
    BY <1>8 DEF SkipGroup, NextDefinition
  <2>2. /\ pc[r] = "create" /\ num'[r] = num[r] /\ ranks'[r] = ranks[r]
        /\ Request(r)' = Request(r)
    BY <1>8, <2>1 DEF SkipGroup, NextDefinition, Request, Group
  <2>. QED BY <2>2, <1>2
<1>9. CASE CreateErroneous
  BY <1>9, <1>2 DEF CreateErroneous, Request, Group
<1>10. CASE UNCHANGED vars
  BY <1>10, <1>2 DEF vars, Request, Group
<1>. QED BY <1>3, <1>4, <1>5, <1>6, <1>7, <1>8, <1>9, <1>10 DEF Next, Terminated

LEMMA AgreedFrame ==
  ASSUME NEW r \in Ranks, NEW n, Agreed(r, n), UNCHANGED << sizeGroupmap, idx, groupMap >>
  PROVE  Agreed(r, n)'
BY DEF Agreed, Member

LEMMA AgreedSkip ==
  ASSUME AgreeInv, NEW q \in Ranks, SkipGroup(q), NEW r \in Ranks, NEW n \in Names
  PROVE  Agreed(r, n)'
<1>1. TypeOK /\ InList /\ Agreed(r, n)
  BY DEF AgreeInv
<1>2. /\ groupMap' = [groupMap EXCEPT ![q][Group(q).name] =
                        [entry |-> idx[q], member |-> FALSE, groupsize |-> 0, comm |-> {q}]]
      /\ sizeGroupmap' = sizeGroupmap
      /\ \A s \in Ranks : idx'[s] \in {idx[s], idx[s] + 1}
  BY DEF SkipGroup, NextDefinition
<1>3. /\ groupMap \in [Ranks -> [Names -> Blocks]]
      /\ \A s \in Ranks : idx[s] \in Nat
      /\ Group(q).name \in Names
  <2>1. pc[q] = "map" /\ idx[q] <= Len(groupList)
    BY <1>1 DEF SkipGroup, InList
  <2>2. Group(q).name \in Names
    BY <2>1, <1>1, MapTypes
  <2>3. Len(groupList) \in Nat
    BY <1>1 DEF TypeOK, IsGroupList
  <2>4. \A s \in Ranks : idx[s] \in 1 .. Len(groupList) + 1
    BY <1>1 DEF TypeOK
  <2>5. groupMap \in [Ranks -> [Names -> Blocks]]
    BY <1>1 DEF TypeOK
  <2>. QED BY <2>2, <2>3, <2>4, <2>5
<1>4. SUFFICES ASSUME Member(r, n)' PROVE Agreed(r, n)'
  BY DEF Agreed
<1>5. ~(r = q /\ n = Group(q).name) /\ groupMap'[r][n] = groupMap[r][n]
  <2>1. ~(r = q /\ n = Group(q).name)
    BY <1>2, <1>3, <1>4 DEF Member
  <2>. QED BY <2>1, <1>2, <1>3
<1>6. Member(r, n)
  BY <1>4, <1>5 DEF Member
<1>7. groupMap[r][n].entry \in Nat
  BY <1>3 DEF Blocks
<1>8. ASSUME NEW s \in Ranks
      PROVE  /\ groupMap'[r][n].entry < idx'[s]
             /\ groupMap'[s][n].entry = groupMap'[r][n].entry =>
                  /\ groupMap'[s][n].groupsize = Cardinality(groupMap'[r][n].comm)
                  /\ s \in groupMap'[r][n].comm <=> Member(s, n)'
  <2>1. groupMap[r][n].entry < idx[s]
    BY <1>1, <1>6 DEF Agreed
  <2>2. groupMap'[r][n].entry < idx'[s]
    BY <2>1, <1>2, <1>3, <1>5, <1>7
  <2>3. CASE s = q /\ n = Group(q).name
    <3>1. groupMap'[s][n].entry = idx[s]
      BY <2>3, <1>2, <1>3
    <3>. QED BY <3>1, <2>1, <2>2, <1>3, <1>5, <1>7
  <2>4. CASE ~(s = q /\ n = Group(q).name)
    <3>1. groupMap'[s][n] = groupMap[s][n]
      BY <2>4, <1>2, <1>3
    <3>. QED BY <3>1, <2>2, <1>1, <1>5, <1>6 DEF Agreed, Member
  <2>. QED BY <2>3, <2>4
<1>. QED BY <1>8, <1>1, <1>2, <1>5, <1>6 DEF Agreed

LEMMA AgreedCreate ==
  ASSUME AgreeInv, CreateComm, NEW r \in Ranks, NEW n \in Names
  PROVE  Agreed(r, n)'
<1>1. TypeOK /\ InList /\ Agreed(r, n)
  BY DEF AgreeInv
<1>2. \A s \in Ranks : /\ idx[s] = idx[r] /\ Group(s) = Group(r) /\ ranks[s] = ranks[r]
                       /\ pc[s] = "create" /\ idx'[s] = idx[s] + 1
  BY SameDefinition DEF CreateComm, AllInCreate, NextDefinition
<1>3. /\ groupMap \in [Ranks -> [Names -> Blocks]] /\ idx[r] \in Nat
  BY <1>1 DEF TypeOK, IsGroupList
<1>4. ASSUME NEW s \in Ranks
      PROVE  /\ n # Group(r).name => groupMap'[s][n] = groupMap[s][n]
             /\ n = Group(r).name =>
                  /\ groupMap'[s][n].entry = idx[r]
                  /\ groupMap'[s][n].groupsize = num[s]
                  /\ Member(s, n)' <=> s \in ranks[r]
                  /\ s \in ranks[r] => groupMap'[s][n].comm = ranks[r]
  <2>1. PICK made : made = NewBlock(s)
    OBVIOUS
  <2>2. groupMap'[s] = [groupMap[s] EXCEPT ![Group(s).name] = made]
    BY <2>1, <1>1, CreateMakes DEF AgreeInv
  <2>3. groupMap'[s][n] = IF n = Group(r).name THEN made ELSE groupMap[s][n]
    <3>1. groupMap[s] \in [Names -> Blocks] /\ Group(s) = Group(r)
      BY <1>2, <1>3
    <3>. QED BY <2>2, <3>1
  <2>4. /\ made.entry = idx[r] /\ made.groupsize = num[s]
        /\ made.member <=> s \in ranks[r]
        /\ s \in ranks[r] => made.comm = ranks[r]
    <3>1. idx[s] = idx[r] /\ ranks[s] = ranks[r]
      BY <1>2
    <3>. QED BY <2>1, <3>1 DEF NewBlock
  <2>. QED BY <2>3, <2>4 DEF Member
<1>5. sizeGroupmap' = sizeGroupmap
  BY DEF CreateComm
<1>6. SUFFICES ASSUME Member(r, n)' PROVE Agreed(r, n)'
  BY DEF Agreed
<1>7. CASE n = Group(r).name
  <2>2. r \in ranks[r] /\ groupMap'[r][n].comm = ranks[r] /\ groupMap'[r][n].groupsize = num[r]
    BY <1>4, <1>6, <1>7
  <2>3. \A s \in Ranks : num[s] = Cardinality(ranks[r])
    BY <1>2 DEF AgreeInv, Counted
  <2>4. num[r] < sizeGroupmap[r][n] => Size - 1 \in ranks[r]
    BY <1>7, <1>2 DEF AgreeInv, Counted, Request
  <2>5. ASSUME NEW s \in Ranks
        PROVE  /\ groupMap'[r][n].entry < idx'[s]
               /\ groupMap'[s][n].groupsize = Cardinality(groupMap'[r][n].comm)
               /\ s \in groupMap'[r][n].comm <=> Member(s, n)'
    <3>1. groupMap'[r][n].entry = idx[r] /\ groupMap'[s][n].groupsize = num[s]
          /\ (Member(s, n)' <=> s \in ranks[r])
      BY <1>4, <1>7
    <3>2. idx'[s] = idx[r] + 1
      BY <1>2
    <3>. QED BY <3>1, <3>2, <2>2, <2>3, <1>3
  <2>. QED BY <2>2, <2>4, <2>5, <1>5 DEF Agreed
<1>8. CASE n # Group(r).name
  <2>1. \A s \in Ranks : groupMap'[s][n] = groupMap[s][n]
    BY <1>4, <1>8
  <2>2. Member(r, n) /\ groupMap[r][n].entry \in Nat
    BY <2>1, <1>6, <1>3 DEF Member, Blocks
  <2>3. \A s \in Ranks : groupMap[r][n].entry < idx[s] /\ groupMap[r][n].entry < idx'[s]
    BY <2>2, <1>1, <1>2, <1>3 DEF Agreed
  <2>. QED BY <2>1, <2>2, <2>3, <1>1, <1>5 DEF Agreed, Member
<1>. QED BY <1>7, <1>8

LEMMA AgreeNext == AgreeInv /\ [Next]_vars => AgreeInv'
<1> SUFFICES ASSUME AgreeInv, [Next]_vars PROVE AgreeInv'
  OBVIOUS
<1>1. TypeOK' /\ InList' /\ Walk'
  BY TypeNext, WalkNext DEF AgreeInv
<1>2. \A r \in Ranks : Counted(r)'
  BY CountedNext
<1>3. Names' = Names
  BY DEF Names, Next, vars, WorldBarrier, CreateComm, CreateErroneous, MapGroup,
         MapOverflow, SkipGroup, Terminated
<1>4. ASSUME NEW r \in Ranks, NEW n \in Names PROVE Agreed(r, n)'
  <2>1. CASE CreateComm
    BY <2>1, AgreedCreate
  <2>2. ASSUME NEW q \in Ranks, SkipGroup(q) PROVE Agreed(r, n)'
    BY <2>2, AgreedSkip
  <2>3. CASE UNCHANGED << sizeGroupmap, idx, groupMap >>
    BY <2>3, AgreedFrame DEF AgreeInv
  <2>4. CASE WorldBarrier
    BY <2>4, <2>3 DEF WorldBarrier
  <2>5. ASSUME NEW q \in Ranks, MapGroup(q) PROVE Agreed(r, n)'
    BY <2>5, <2>3 DEF MapGroup
  <2>6. ASSUME NEW q \in Ranks, MapOverflow(q) PROVE Agreed(r, n)'
    BY <2>6, <2>3 DEF MapOverflow
  <2>7. CASE CreateErroneous
    BY <2>7, <2>3 DEF CreateErroneous
  <2>8. CASE UNCHANGED vars
    BY <2>8, <2>3 DEF vars
  <2>. QED BY <2>1, <2>2, <2>4, <2>5, <2>6, <2>7, <2>8 DEF Next, Terminated
<1>. QED BY <1>1, <1>2, <1>3, <1>4 DEF AgreeInv

LEMMA AgreeKept == (SameSizes => AgreeInv) /\ [Next]_vars => (SameSizes => AgreeInv)'
BY AgreeNext, SameSizesKept

\* For every number of processes, group list and command line: as long as the ranks
\* hold the same sizes, all their MPI_Comm_create calls are correct, and processes that
\* hold a block made for the same definition agree about its members and their number.
THEOREM BlocksAgree == Spec => []CommConsistent
<1>1. (SameSizes => AgreeInv) => CommConsistent
  <2> SUFFICES ASSUME AgreeInv, NEW n \in Names, NEW r \in Ranks, groupMap[r][n].member,
                      \A s \in Ranks : groupMap[s][n].entry = groupMap[r][n].entry
               PROVE  /\ groupMap[r][n].comm = {s \in Ranks : Member(s, n)}
                      /\ \A s \in Ranks :
                           groupMap[s][n].groupsize = Cardinality(groupMap[r][n].comm)
    BY DEF CommConsistent
  <2>1. Agreed(r, n) /\ Member(r, n)
    BY DEF AgreeInv, Member
  <2>2. groupMap[r][n].comm \subseteq Ranks
    BY DEF AgreeInv, TypeOK, Blocks
  <2>. QED BY <2>1, <2>2 DEF Agreed
<1>. QED BY <1>1, AgreeInit, AgreeKept, PTL DEF Spec

\* For every number of processes, group list and command line that gives all ranks the
\* same sizes, a group that got fewer processes than it asked for reaches the last rank.
THEOREM CutAtTop == Spec => []CutOnlyAtTop
<1>1. (SameSizes => AgreeInv) => CutOnlyAtTop
  BY DEF AgreeInv, Agreed, CutOnlyAtTop
<1>. QED BY <1>1, AgreeInit, AgreeKept, PTL DEF Spec

-------------------------------------------------------------------------------
(***************************************************************************)
(* The process space is packed.  While ranks wait in MPI_Comm_create the   *)
(* blocks lag behind the bounds, so the invariant counts the group a rank  *)
(* is about to create as held: then every rank's own bounds describe what  *)
(* all ranks hold, and the joint step of MPI_Comm_create changes nothing.  *)
(***************************************************************************)

\* No name is defined twice.
Distinct == \A i, j \in DOMAIN groupList : groupList[i].name = groupList[j].name => i = j

\* Process r is in the group of definition i, as rank q sees it.
Holds(q, r, i) ==
  IF pc[q] = "create" /\ i = idx[q] THEN r \in ranks[q] ELSE Member(r, groupList[i].name)

Singles(q) ==
  {r \in Ranks : \E i \in DOMAIN groupList : groupList[i].tag = TAG_SINGLE /\ Holds(q, r, i)}
Row(q, s) ==
  {r \in Ranks : \E i \in DOMAIN groupList :
     groupList[i].tag = TAG_DISJOINT /\ groupList[i].subtag = s /\ Holds(q, r, i)}

\* min_rank ends the TAG_SINGLE groups; rows start there, and lower_bound ends the
\* row of the definition at hand once a group of it is mapped; untagged groups
\* start there too.
PackedBy(q) ==
  /\ Singles(q) = 0 .. min_rank[q] - 1
  /\ pc[q] # "done" /\ Group(q).tag = TAG_SINGLE => lower_bound[q] = min_rank[q]
  /\ \A s \in Int : pc[q] # "done" /\ Group(q).tag = TAG_DISJOINT /\ Group(q).subtag = s =>
       /\ pc[q] = "create" \/ Row(q, s) # {} => last_subtag[q] = s
       /\ last_subtag[q] = s => Row(q, s) = min_rank[q] .. lower_bound[q] - 1
  /\ \A s \in Int : \E top \in Int : min_rank[q] <= top + 1 /\ Row(q, s) = min_rank[q] .. top
  /\ pc[q] = "create" /\ Group(q).tag = TAG_NONE =>
       ranks[q] = min_rank[q] .. min_rank[q] + num[q] - 1
  /\ \A n \in Names : Member(q, n) /\ DefOf(q, n).tag = TAG_NONE =>
       groupMap[q][n].comm = min_rank[q] .. min_rank[q] + groupMap[q][n].groupsize - 1

\* A block is kept under the name of its definition.
Named(r) == \A n \in Names : Member(r, n) => DefOf(r, n).name = n

PackInv ==
  /\ IInv /\ AgreeInv
  /\ \A r \in Ranks : Named(r)
  /\ Distinct => \A q \in Ranks : PackedBy(q)

\* A member of the group of definition i is one by a block made for i, which every
\* rank has passed.
LEMMA JoinedDef ==
  ASSUME PackInv, Distinct, NEW r \in Ranks, NEW i \in DOMAIN groupList,
         Member(r, groupList[i].name)
  PROVE  DefOf(r, groupList[i].name) = groupList[i] /\ \A q \in Ranks : i < idx[q]
<1>1. PICK n : n = groupList[i].name
  OBVIOUS
<1>2. n \in Names /\ Member(r, n) /\ groupList \in Seq(GroupDefs)
  BY <1>1 DEF Names, PackInv, IInv, TypeOK, IsGroupList
<1>3. groupMap[r][n].entry \in 1 .. Len(groupList)
  BY <1>2 DEF PackInv, IInv, RankInv, Placed
<1>4. groupList[groupMap[r][n].entry].name = n
  BY <1>2 DEF PackInv, Named, DefOf
<1>5. groupMap[r][n].entry = i
  BY <1>1, <1>2, <1>3, <1>4 DEF Distinct
<1>6. \A q \in Ranks : groupMap[r][n].entry < idx[q]
  BY <1>2 DEF PackInv, AgreeInv, Agreed
<1>. QED BY <1>1, <1>5, <1>6 DEF DefOf

\* What a rank holds it has come to.
LEMMA HeldAreEarlier ==
  ASSUME PackInv, Distinct, NEW q \in Ranks, NEW r \in Ranks, NEW i \in DOMAIN groupList,
         Holds(q, r, i)
  PROVE  i <= idx[q] /\ (pc[q] # "create" => i < idx[q])
<1>1. idx[q] \in Int /\ i \in Int
  BY DEF PackInv, IInv, TypeOK, IsGroupList
<1>2. CASE pc[q] = "create" /\ i = idx[q]
  BY <1>1, <1>2
<1>3. CASE ~(pc[q] = "create" /\ i = idx[q])
  BY <1>1, <1>3, JoinedDef DEF Holds
<1>. QED BY <1>2, <1>3

\* A row that comes after the definition at hand has no process yet.
LEMMA LaterRowEmpty ==
  ASSUME PackInv, Distinct, NEW q \in Ranks, NEW s \in Int, idx[q] \in DOMAIN groupList,
         \/ Group(q).tag = TAG_SINGLE
         \/ Group(q).tag = TAG_DISJOINT /\ Group(q).subtag < s
  PROVE  Row(q, s) = {}
<1> SUFFICES ASSUME NEW r \in Ranks, NEW i \in DOMAIN groupList,
                    groupList[i].tag = TAG_DISJOINT, groupList[i].subtag = s, Holds(q, r, i)
             PROVE  FALSE
  BY DEF Row
<1>1. i <= idx[q]
  BY HeldAreEarlier
<1>2. groupList \in Seq(GroupDefs) /\ Sorted
  BY DEF PackInv, IInv, TypeOK, IsGroupList
<1>3. i = idx[q] \/ Ordered(groupList[i], groupList[idx[q]])
  BY <1>1, <1>2 DEF Sorted
<1>4. Group(q) = groupList[idx[q]] /\ Group(q) \in GroupDefs /\ groupList[i] \in GroupDefs
  BY <1>2 DEF Group
<1>. QED BY <1>3, <1>4 DEF Ordered, GroupDefs, TAG_SINGLE, TAG_DISJOINT, TAG_NONE

\* Rank q's view of who holds what stays as it is.
SameView(q) ==
  \A r \in Ranks : \A i \in DOMAIN groupList : Holds(q, r, i)' <=> Holds(q, r, i)

LEMMA ViewKept ==
  ASSUME NEW q \in Ranks, SameView(q), UNCHANGED groupList
  PROVE  Singles(q)' = Singles(q) /\ \A s \in Int : Row(q, s)' = Row(q, s)
BY DEF SameView, Singles, Row

LEMMA PackedFrame ==
  ASSUME NEW q \in Ranks, PackedBy(q), SameView(q), UNCHANGED groupList,
         idx'[q] = idx[q], lower_bound'[q] = lower_bound[q], min_rank'[q] = min_rank[q],
         last_subtag'[q] = last_subtag[q], ranks'[q] = ranks[q], num'[q] = num[q],
         groupMap'[q] = groupMap[q],
         pc'[q] = "create" => pc[q] = "create",
         pc'[q] # "done" => pc[q] # "done"
  PROVE  PackedBy(q)'
<1>1. Singles(q)' = Singles(q) /\ \A s \in Int : Row(q, s)' = Row(q, s)
  BY ViewKept
<1>2. Group(q)' = Group(q) /\ Names' = Names
  BY DEF Group, Names
<1>3. \A n \in Names : (Member(q, n)' <=> Member(q, n)) /\ DefOf(q, n)' = DefOf(q, n)
  BY DEF Member, DefOf
<1>4. /\ Singles(q)' = 0 .. min_rank'[q] - 1
      /\ pc'[q] # "done" /\ Group(q)'.tag = TAG_SINGLE => lower_bound'[q] = min_rank'[q]
  BY <1>1, <1>2 DEF PackedBy
<1>5. ASSUME NEW s \in Int, pc'[q] # "done", Group(q)'.tag = TAG_DISJOINT, Group(q)'.subtag = s
      PROVE  /\ pc'[q] = "create" \/ Row(q, s)' # {} => last_subtag'[q] = s
             /\ last_subtag'[q] = s => Row(q, s)' = min_rank'[q] .. lower_bound'[q] - 1
  BY <1>1, <1>2, <1>5 DEF PackedBy
<1>6. \A s \in Int : \E top \in Int : min_rank'[q] <= top + 1 /\ Row(q, s)' = min_rank'[q] .. top
  BY <1>1 DEF PackedBy
<1>7. pc'[q] = "create" /\ Group(q)'.tag = TAG_NONE =>
        ranks'[q] = min_rank'[q] .. min_rank'[q] + num'[q] - 1
  BY <1>2 DEF PackedBy
<1>8. \A n \in Names' : Member(q, n)' /\ DefOf(q, n)'.tag = TAG_NONE =>
        groupMap'[q][n].comm = min_rank'[q] .. min_rank'[q] + groupMap'[q][n].groupsize - 1
  BY <1>2, <1>3 DEF PackedBy
<1>. QED BY <1>4, <1>5, <1>6, <1>7, <1>8 DEF PackedBy

\* One rank ends an iteration, as in InsertInv: its view stays as it is, and its
\* lower_bound ends the row it has been at.
LEMMA PackedAdvance ==
  ASSUME PackInv, Distinct, NEW q \in Ranks, pc[q] # "done", SameView(q),
         UNCHANGED << groupList, min_rank, last_subtag >>,
         NEW block \in Blocks, block.entry = idx[q],
         groupMap'[q] = [groupMap[q] EXCEPT ![Group(q).name] = block],
         idx'[q] = idx[q] + 1, pc'[q] # "create",
         pc'[q] # "done" => idx[q] < Len(groupList),
         Group(q).tag = TAG_SINGLE => lower_bound'[q] = min_rank[q],
         Group(q).tag = TAG_DISJOINT =>
           lower_bound'[q] = IF last_subtag[q] = Group(q).subtag
                             THEN lower_bound[q] ELSE min_rank[q],
         block.member /\ Group(q).tag = TAG_NONE =>
           block.comm = min_rank[q] .. min_rank[q] + block.groupsize - 1
  PROVE  PackedBy(q)'
<1> USE DEF TAG_SINGLE, TAG_DISJOINT, TAG_NONE
<1>1. TypeOK /\ InList /\ Sorted /\ PackedBy(q)
  BY DEF PackInv, IInv
<1>2. idx[q] \in 1 .. Len(groupList) /\ Len(groupList) \in Nat /\ groupList \in Seq(GroupDefs)
  BY <1>1 DEF TypeOK, InList, IsGroupList
<1>3. /\ Group(q) = groupList[idx[q]] /\ Group(q) \in GroupDefs /\ Group(q).name \in Names
      /\ Names' = Names
  BY <1>2 DEF Group, Names
<1>4. Singles(q)' = Singles(q) /\ \A s \in Int : Row(q, s)' = Row(q, s)
  BY ViewKept
<1>5. min_rank'[q] = min_rank[q] /\ last_subtag'[q] = last_subtag[q] /\ min_rank[q] \in Int
  BY <1>1 DEF TypeOK
<1>6. ASSUME pc'[q] # "done"
      PROVE  /\ Group(q)' = groupList[idx[q] + 1]
             /\ Group(q)' \in GroupDefs
             /\ Ordered(Group(q), Group(q)')
  <2>1. idx[q] + 1 \in 1 .. Len(groupList)
    BY <1>6, <1>2
  <2>2. Group(q)' = groupList[idx[q] + 1]
    BY DEF Group
  <2>3. Ordered(groupList[idx[q]], groupList[idx[q] + 1])
    BY <2>1, <1>1, <1>2 DEF Sorted
  <2>. QED BY <2>1, <2>2, <2>3, <1>2, <1>3
<1>7. Group(q).tag \in {0, 1, 2} /\ Group(q).subtag \in Int
  BY <1>3 DEF GroupDefs
<1>8. ASSUME pc'[q] # "done", Group(q)'.tag = TAG_SINGLE
      PROVE  lower_bound'[q] = min_rank'[q]
  BY <1>5, <1>6, <1>7, <1>8 DEF Ordered
<1>9. ASSUME NEW s \in Int, pc'[q] # "done", Group(q)'.tag = TAG_DISJOINT, Group(q)'.subtag = s
      PROVE  /\ Row(q, s)' # {} => last_subtag'[q] = s
             /\ last_subtag'[q] = s => Row(q, s)' = min_rank'[q] .. lower_bound'[q] - 1
  <2>1. /\ Group(q).tag \in {TAG_SINGLE, TAG_DISJOINT}
        /\ Group(q).tag = TAG_DISJOINT => Group(q).subtag <= s
    BY <1>6, <1>7, <1>9 DEF Ordered
  <2>2. CASE Group(q).tag = TAG_DISJOINT /\ Group(q).subtag = s
    BY <2>2, <1>1, <1>4, <1>5 DEF PackedBy
  <2>3. CASE ~(Group(q).tag = TAG_DISJOINT /\ Group(q).subtag = s)
    <3>1. \/ Group(q).tag = TAG_SINGLE
          \/ Group(q).tag = TAG_DISJOINT /\ Group(q).subtag < s
      BY <2>1, <2>3, <1>7
    <3>2. Row(q, s) = {}
      BY <3>1, <1>2, LaterRowEmpty
    <3>3. last_subtag[q] = s => lower_bound'[q] = min_rank[q]
      BY <3>1, <1>7
    <3>4. min_rank[q] .. min_rank[q] - 1 = {}
      BY <1>5
    <3>. QED BY <3>2, <3>3, <3>4, <1>4, <1>5
  <2>. QED BY <2>2, <2>3
<1>10. \A s \in Int : \E top \in Int : min_rank'[q] <= top + 1 /\ Row(q, s)' = min_rank'[q] .. top
  BY <1>1, <1>4, <1>5 DEF PackedBy
<1>11. ASSUME NEW n \in Names, Member(q, n)', DefOf(q, n)'.tag = TAG_NONE
       PROVE  groupMap'[q][n].comm = min_rank'[q] .. min_rank'[q] + groupMap'[q][n].groupsize - 1
  <2>1. groupMap[q] \in [Names -> Blocks]
    BY <1>1 DEF TypeOK
  <2>2. CASE n = Group(q).name
    <3>1. groupMap'[q][n] = block
      BY <2>1, <2>2
    <3>2. block.member /\ Group(q).tag = TAG_NONE
      BY <3>1, <1>3, <1>11 DEF Member, DefOf
    <3>. QED BY <3>1, <3>2, <1>5
  <2>3. CASE n # Group(q).name
    <3>1. groupMap'[q][n] = groupMap[q][n]
      BY <2>1, <2>3
    <3>2. Member(q, n) /\ DefOf(q, n).tag = TAG_NONE
      BY <3>1, <1>11 DEF Member, DefOf
    <3>. QED BY <3>1, <3>2, <1>1, <1>5 DEF PackedBy
  <2>. QED BY <2>2, <2>3
<1>. QED BY <1>1, <1>3, <1>4, <1>5, <1>8, <1>9, <1>10, <1>11 DEF PackedBy

\* Mapping a group adds it to the rank's view.
LEMMA ViewMap ==
  ASSUME PackInv, Distinct, NEW q \in Ranks, MapGroup(q),
         NEW r \in Ranks, NEW i \in DOMAIN groupList
  PROVE  Holds(q, r, i)' <=> (Holds(q, r, i) \/ (i = idx[q] /\ r \in GroupRanks(q)))
<1>1. /\ pc[q] = "map" /\ pc'[q] = "create" /\ ranks'[q] = GroupRanks(q)
      /\ UNCHANGED << groupList, idx, groupMap >>
  BY DEF MapGroup, PackInv, IInv, TypeOK
<1>2. Holds(q, r, i) => i < idx[q]
  BY <1>1, HeldAreEarlier
<1>3. Holds(q, r, i) <=> Member(r, groupList[i].name)
  BY <1>1 DEF Holds
<1>4. Holds(q, r, i)' <=> IF i = idx[q] THEN r \in GroupRanks(q)
                          ELSE Member(r, groupList[i].name)
  BY <1>1 DEF Holds, Member
<1>5. idx[q] \in Int /\ i \in Int
  BY DEF PackInv, IInv, TypeOK, IsGroupList
<1>. QED BY <1>2, <1>3, <1>4, <1>5

LEMMA IntervalsJoin ==
  ASSUME NEW a \in Int, NEW b \in Int, NEW c \in Int, a <= b, b <= c
  PROVE  (a .. b - 1) \cup (b .. c - 1) = a .. c - 1
OBVIOUS

\* The lower bound extends the row at hand, or begins it.
LEMMA PackedMap ==
  ASSUME PackInv, Distinct, NEW q \in Ranks, MapGroup(q)
  PROVE  PackedBy(q)'
<1> USE DEF TAG_SINGLE, TAG_DISJOINT, TAG_NONE
<1>1. TypeOK /\ InList /\ Sorted /\ PackedBy(q)
  BY DEF PackInv, IInv
<1>2. PICK start, count, end :
        /\ start = StartBound(q) /\ count = MappedCount(q)
        /\ end = StartBound(q) + MappedCount(q)
  OBVIOUS
<1>3. /\ pc[q] = "map" /\ Mappable(q) /\ UNCHANGED << groupList, idx, groupMap >>
      /\ pc'[q] = "create" /\ ranks'[q] = GroupRanks(q) /\ num'[q] = count
      /\ lower_bound'[q] = IF Group(q).tag = TAG_NONE THEN start ELSE end
      /\ min_rank'[q] = IF Group(q).tag = TAG_SINGLE THEN end ELSE min_rank[q]
      /\ last_subtag'[q] = IF Group(q).tag = TAG_DISJOINT THEN Group(q).subtag ELSE last_subtag[q]
  BY <1>1, <1>2 DEF MapGroup, TypeOK
<1>4. /\ Group(q) \in GroupDefs /\ start \in 0 .. Size /\ count \in 1 .. Size
      /\ end \in 0 .. Size /\ end = start + count /\ Size \in Nat
  BY <1>1, <1>2, <1>3, MapTypes, SizeIsNat DEF InList
<1>5. start = IF \/ Group(q).tag = TAG_DISJOINT /\ last_subtag[q] # Group(q).subtag
                 \/ Group(q).tag = TAG_NONE
              THEN min_rank[q] ELSE lower_bound[q]
  BY <1>2 DEF StartBound
<1>6. /\ idx[q] \in DOMAIN groupList /\ Group(q) = groupList[idx[q]] /\ Group(q)' = Group(q)
      /\ Names' = Names
  <2>1. idx[q] \in 1 .. Len(groupList) /\ groupList \in Seq(GroupDefs)
    BY <1>1, <1>3 DEF TypeOK, InList, IsGroupList
  <2>. QED BY <2>1, <1>3 DEF Group, Names
<1>7. Group(q).tag \in {0, 1, 2} /\ Group(q).subtag \in Int
  BY <1>4 DEF GroupDefs
<1>8. min_rank[q] \in Int /\ lower_bound[q] \in Int /\ min_rank[q] <= lower_bound[q]
  BY <1>1 DEF TypeOK, PackInv, IInv, RankInv
<1>8a. GroupRanks(q) = start .. end - 1
  <2>1. GroupRanks(q) = start .. start + count - 1
    BY <1>2 DEF GroupRanks
  <2>. QED BY <2>1, <1>4
<1>9. \A r \in Ranks : \A i \in DOMAIN groupList :
        Holds(q, r, i)' <=> (Holds(q, r, i) \/ (i = idx[q] /\ r \in start .. end - 1))
  BY <1>8a, ViewMap
<1>10. start .. end - 1 \subseteq Ranks
  BY <1>4 DEF Ranks
<1>11. Singles(q)' = IF Group(q).tag = TAG_SINGLE
                     THEN Singles(q) \cup (start .. end - 1) ELSE Singles(q)
  BY <1>3, <1>6, <1>9, <1>10 DEF Singles
<1>12. ASSUME NEW s \in Int
       PROVE  Row(q, s)' = IF Group(q).tag = TAG_DISJOINT /\ Group(q).subtag = s
                           THEN Row(q, s) \cup (start .. end - 1) ELSE Row(q, s)
  BY <1>3, <1>6, <1>9, <1>10 DEF Row
<1>13. Singles(q)' = 0 .. min_rank'[q] - 1
  <2>1. CASE Group(q).tag = TAG_SINGLE
    <3>1. start = min_rank[q] /\ min_rank'[q] = end /\ Singles(q) = 0 .. start - 1
      BY <2>1, <1>1, <1>3, <1>5 DEF PackedBy
    <3>2. (0 .. start - 1) \cup (start .. end - 1) = 0 .. end - 1
      BY <1>4, IntervalsJoin
    <3>. QED BY <3>1, <3>2, <2>1, <1>11, Zenon
  <2>2. CASE Group(q).tag # TAG_SINGLE
    BY <2>2, <1>1, <1>3, <1>11 DEF PackedBy
  <2>. QED BY <2>1, <2>2
<1>14. Group(q)'.tag = TAG_SINGLE => lower_bound'[q] = min_rank'[q]
  BY <1>3, <1>6
<1>15. ASSUME NEW s \in Int, Group(q).tag = TAG_DISJOINT, Group(q).subtag = s
       PROVE  Row(q, s)' = min_rank[q] .. lower_bound'[q] - 1
  <2>1. lower_bound'[q] = end
    BY <1>3, <1>15
  <2>2. CASE last_subtag[q] = s
    <3>1. Row(q, s) = min_rank[q] .. start - 1 /\ min_rank[q] <= start
      BY <2>2, <1>1, <1>3, <1>5, <1>8, <1>15 DEF PackedBy
    <3>2. (min_rank[q] .. start - 1) \cup (start .. end - 1) = min_rank[q] .. end - 1
      BY <3>1, <1>4, <1>8, IntervalsJoin
    <3>3. Row(q, s)' = Row(q, s) \cup (start .. end - 1)
      BY <1>12, <1>15
    <3>. QED BY <3>1, <3>2, <3>3, <2>1, Zenon
  <2>3. CASE last_subtag[q] # s
    <3>1. Row(q, s) = {} /\ start = min_rank[q]
      BY <2>3, <1>1, <1>3, <1>5, <1>15 DEF PackedBy
    <3>. QED BY <3>1, <2>1, <1>12, <1>15
  <2>. QED BY <2>2, <2>3
<1>16. ASSUME NEW s \in Int, Group(q)'.tag = TAG_DISJOINT, Group(q)'.subtag = s
       PROVE  /\ last_subtag'[q] = s
              /\ Row(q, s)' = min_rank'[q] .. lower_bound'[q] - 1
  BY <1>3, <1>6, <1>15, <1>16
<1>17. ASSUME NEW s \in Int
       PROVE  \E top \in Int : min_rank'[q] <= top + 1 /\ Row(q, s)' = min_rank'[q] .. top
  <2>1. CASE Group(q).tag = TAG_SINGLE
    <3>1. Row(q, s)' = {} /\ min_rank'[q] \in Int
      BY <2>1, <1>3, <1>4, <1>6, <1>12, LaterRowEmpty
    <3>2. min_rank'[q] .. min_rank'[q] - 1 = {} /\ min_rank'[q] - 1 \in Int
      BY <3>1
    <3>. QED BY <3>1, <3>2
  <2>2. CASE Group(q).tag = TAG_DISJOINT /\ Group(q).subtag = s
    <3>1. /\ Row(q, s)' = min_rank[q] .. lower_bound'[q] - 1
          /\ min_rank'[q] = min_rank[q] /\ lower_bound'[q] = end
      BY <2>2, <1>3, <1>15
    <3>2. min_rank[q] <= start
      BY <1>5, <1>8
    <3>3. end - 1 \in Int /\ min_rank[q] <= end - 1 + 1
      BY <3>2, <1>4, <1>8
    <3>. QED BY <3>1, <3>3
  <2>3. CASE Group(q).tag # TAG_SINGLE /\ ~(Group(q).tag = TAG_DISJOINT /\ Group(q).subtag = s)
    BY <2>3, <1>1, <1>3, <1>12 DEF PackedBy
  <2>. QED BY <2>1, <2>2, <2>3
<1>18. Group(q)'.tag = TAG_NONE => ranks'[q] = min_rank'[q] .. min_rank'[q] + num'[q] - 1
  <2>1. ASSUME Group(q).tag = TAG_NONE PROVE GroupRanks(q) = min_rank[q] .. min_rank[q] + count - 1
    BY <2>1, <1>4, <1>5, <1>8a
  <2>. QED BY <2>1, <1>3, <1>6
<1>19. ASSUME NEW n \in Names, Member(q, n)', DefOf(q, n)'.tag = TAG_NONE
       PROVE  groupMap'[q][n].comm = min_rank'[q] .. min_rank'[q] + groupMap'[q][n].groupsize - 1
  <2>1. Member(q, n) /\ DefOf(q, n).tag = TAG_NONE /\ groupMap'[q][n] = groupMap[q][n]
    BY <1>3, <1>19 DEF Member, DefOf
  <2>2. Ordered(DefOf(q, n), Group(q))
    <3>1. idx[q] \in 1 .. Len(groupList) /\ idx[q] <= idx[q]
      BY <1>6, <1>1 DEF TypeOK, IsGroupList
    <3>. QED BY <3>1, <2>1, <1>6, EarlierDef DEF PackInv
  <2>3. Group(q).tag # TAG_SINGLE
    BY <2>1, <2>2, <1>7 DEF Ordered
  <2>. QED BY <2>1, <2>3, <1>1, <1>3 DEF PackedBy
<1>. QED BY <1>3, <1>6, <1>13, <1>14, <1>16, <1>17, <1>18, <1>19 DEF PackedBy

LEMMA ViewSkip ==
  ASSUME PackInv, Distinct, NEW p \in Ranks, SkipGroup(p), NEW q \in Ranks
  PROVE  SameView(q)
<1>1. TypeOK /\ InList
  BY DEF PackInv, IInv
<1>2. pc[p] = "map" /\ idx[p] \in 1 .. Len(groupList) /\ groupList \in Seq(GroupDefs)
  BY <1>1 DEF SkipGroup, InList, TypeOK, IsGroupList
<1>3. groupMap' = [groupMap EXCEPT ![p][Group(p).name] =
                     [entry |-> idx[p], member |-> FALSE, groupsize |-> 0, comm |-> {p}]]
  BY DEF SkipGroup
<1>4. groupMap \in [Ranks -> [Names -> Blocks]]
  BY <1>1 DEF TypeOK
<1>5. UNCHANGED << groupList, ranks >> /\ NextDefinition({p})
  BY DEF SkipGroup
<1>6. SUFFICES ASSUME NEW r \in Ranks, NEW i \in DOMAIN groupList
               PROVE  Holds(q, r, i)' <=> Holds(q, r, i)
  BY DEF SameView
<1>7. PICK n : n = groupList[i].name
  OBVIOUS
<1>8. n \in Names
  BY <1>7 DEF Names
<1>9. Member(r, n)' <=> Member(r, n)
  <2>1. CASE r = p /\ n = Group(p).name
    <3>1. i = idx[p]
      <4>1. idx[p] \in DOMAIN groupList /\ groupList[idx[p]].name = groupList[i].name
        BY <2>1, <1>2, <1>7 DEF Group
      <4>. QED BY <4>1, Zenon DEF Distinct
    <3>2. ~Member(r, n)
      BY <3>1, <1>2, <1>7, JoinedDef
    <3>3. ~Member(r, n)'
      BY <2>1, <1>3, <1>4, <1>8 DEF Member
    <3>. QED BY <3>2, <3>3
  <2>2. CASE ~(r = p /\ n = Group(p).name)
    BY <2>2, <1>3, <1>4, <1>8 DEF Member
  <2>. QED BY <2>1, <2>2
<1>10. /\ pc'[q] = "create" <=> pc[q] = "create"
       /\ pc[q] = "create" => idx'[q] = idx[q]
       /\ ranks'[q] = ranks[q] /\ groupList'[i] = groupList[i]
  BY <1>2, <1>5 DEF NextDefinition
<1>. QED BY <1>7, <1>9, <1>10 DEF Holds

LEMMA ViewCreate ==
  ASSUME PackInv, Distinct, CreateComm, NEW q \in Ranks
  PROVE  SameView(q)
<1>1. TypeOK /\ InList /\ AgreeInv
  BY DEF PackInv, IInv
<1>2. SUFFICES ASSUME NEW r \in Ranks, NEW i \in DOMAIN groupList
               PROVE  Holds(q, r, i)' <=> Holds(q, r, i)
  BY DEF SameView
<1>3. /\ pc[q] = "create" /\ pc'[q] # "create" /\ pc[r] = "create"
      /\ UNCHANGED groupList
  BY DEF CreateComm, AllInCreate, NextDefinition
<1>4. idx[r] = idx[q] /\ ranks[r] = ranks[q]
  BY <1>1, SameDefinition
<1>5. idx[q] \in 1 .. Len(groupList) /\ groupList \in Seq(GroupDefs)
  BY <1>1, <1>3 DEF InList, TypeOK, IsGroupList
<1>6. PICK n : n = groupList[i].name
  OBVIOUS
<1>7. n \in Names
  BY <1>6 DEF Names
<1>8. PICK made : made = NewBlock(r)
  OBVIOUS
<1>9. groupMap'[r] = [groupMap[r] EXCEPT ![Group(r).name] = made]
  BY <1>1, <1>8, CreateMakes DEF AgreeInv
<1>10. groupMap'[r][n] = IF n = Group(r).name THEN made ELSE groupMap[r][n]
  <2>1. groupMap[r] \in [Names -> Blocks]
    BY <1>1 DEF TypeOK
  <2>. QED BY <2>1, <1>7, <1>9
<1>11. made.member <=> r \in ranks[q]
  BY <1>4, <1>8 DEF NewBlock
<1>12. n = Group(r).name <=> i = idx[q]
  BY <1>4, <1>5, <1>6 DEF Distinct, Group
<1>13. Holds(q, r, i)' <=> Member(r, n)'
  BY <1>3, <1>6 DEF Holds
<1>14. Holds(q, r, i) <=> IF i = idx[q] THEN r \in ranks[q] ELSE Member(r, n)
  BY <1>3, <1>6 DEF Holds
<1>. QED BY <1>10, <1>11, <1>12, <1>13, <1>14 DEF Member

LEMMA PackedSkip ==
  ASSUME PackInv, Distinct, NEW q \in Ranks, SkipGroup(q)
  PROVE  PackedBy(q)'
<1>1. TypeOK /\ InList /\ PackedBy(q)
  BY DEF PackInv, IInv
<1>2. /\ pc[q] = "map" /\ UNCHANGED << groupList, min_rank, last_subtag >>
      /\ lower_bound'[q] = StartBound(q)
      /\ NextDefinition({q})
  BY <1>1 DEF SkipGroup, TypeOK
<1>3. idx[q] \in 1 .. Len(groupList)
  BY <1>1, <1>2 DEF InList, TypeOK
<1> DEFINE block == [entry |-> idx[q], member |-> FALSE, groupsize |-> 0, comm |-> {q}]
<1>4. block \in Blocks /\ block.entry = idx[q] /\ ~block.member
  <2>1. idx[q] \in Nat /\ {q} \in SUBSET Ranks
    BY <1>3
  <2>. QED BY <2>1 DEF Blocks
<1>5. groupMap'[q] = [groupMap[q] EXCEPT ![Group(q).name] = block]
  BY <1>1 DEF SkipGroup, TypeOK
<1>6. idx'[q] = idx[q] + 1 /\ pc'[q] # "create" /\ (pc'[q] # "done" => idx[q] < Len(groupList))
  BY <1>2, <1>3 DEF NextDefinition
<1>7. Group(q).tag = TAG_SINGLE => lower_bound'[q] = min_rank[q]
  BY <1>1, <1>2 DEF PackedBy, StartBound, TAG_SINGLE, TAG_DISJOINT, TAG_NONE
<1>8. Group(q).tag = TAG_DISJOINT =>
        lower_bound'[q] = IF last_subtag[q] = Group(q).subtag
                          THEN lower_bound[q] ELSE min_rank[q]
  BY <1>2 DEF StartBound, TAG_DISJOINT, TAG_NONE
<1> HIDE DEF block
<1>. QED BY <1>2, <1>4, <1>5, <1>6, <1>7, <1>8, ViewSkip, PackedAdvance

LEMMA PackedCreate ==
  ASSUME PackInv, Distinct, CreateComm, NEW q \in Ranks
  PROVE  PackedBy(q)'
<1>1. TypeOK /\ InList /\ PackedBy(q)
  BY DEF PackInv, IInv
<1>2. /\ pc[q] = "create" /\ UNCHANGED << groupList, min_rank, last_subtag >>
      /\ lower_bound'[q] = lower_bound[q]
      /\ NextDefinition(Ranks)
  BY DEF CreateComm, AllInCreate
<1>3. /\ idx[q] \in 1 .. Len(groupList) /\ Group(q).subtag \in Int
      /\ idx[q] \in Nat /\ num[q] \in Nat
  <2>1. idx[q] \in 1 .. Len(groupList) /\ groupList \in Seq(GroupDefs)
    BY <1>1, <1>2 DEF InList, TypeOK, IsGroupList
  <2>2. groupList[idx[q]].subtag \in Int
    <3>1. groupList[idx[q]] \in GroupDefs
      BY <2>1
    <3>. QED BY <3>1 DEF GroupDefs
  <2>3. num[q] \in 0 .. Size
    BY <1>1 DEF TypeOK
  <2>. QED BY <2>1, <2>2, <2>3, SizeIsNat DEF Group
<1>4. PICK block : block = NewBlock(q)
  OBVIOUS
<1>5. /\ block \in Blocks /\ block.entry = idx[q]
      /\ groupMap'[q] = [groupMap[q] EXCEPT ![Group(q).name] = block]
  BY <1>1, <1>4, CreateMakes DEF NewBlock, PackInv, IInv
<1>6. idx'[q] = idx[q] + 1 /\ pc'[q] # "create" /\ (pc'[q] # "done" => idx[q] < Len(groupList))
  BY <1>2, <1>3 DEF NextDefinition
<1>7. Group(q).tag = TAG_SINGLE => lower_bound'[q] = min_rank[q]
  BY <1>1, <1>2 DEF PackedBy
<1>8. Group(q).tag = TAG_DISJOINT =>
        lower_bound'[q] = IF last_subtag[q] = Group(q).subtag
                          THEN lower_bound[q] ELSE min_rank[q]
  BY <1>1, <1>2, <1>3 DEF PackedBy
<1>9. block.member /\ Group(q).tag = TAG_NONE =>
        block.comm = min_rank[q] .. min_rank[q] + block.groupsize - 1
  <2>1. /\ block.member <=> q \in ranks[q]
        /\ q \in ranks[q] => block.comm = ranks[q]
        /\ block.groupsize = num[q]
    BY <1>4 DEF NewBlock
  <2>. QED BY <2>1, <1>1, <1>2 DEF PackedBy
<1>. QED BY <1>2, <1>5, <1>6, <1>7, <1>8, <1>9, ViewCreate, PackedAdvance

LEMMA NamedNext ==
  ASSUME PackInv, [Next]_vars, NEW r \in Ranks PROVE Named(r)'
<1>1. TypeOK /\ InList /\ Named(r)
  BY DEF PackInv, IInv
<1>2. UNCHANGED groupList
  BY DEF Next, vars, WorldBarrier, CreateComm, CreateErroneous, MapGroup,
         MapOverflow, SkipGroup, Terminated
<1>3. groupMap[r] \in [Names -> Blocks] /\ Names' = Names
  BY <1>1, <1>2 DEF TypeOK, Names
<1>4. ASSUME groupMap'[r] = groupMap[r] PROVE Named(r)'
  BY <1>1, <1>2, <1>3, <1>4 DEF Named, Member, DefOf
<1>5. ASSUME NEW made, groupMap'[r] = [groupMap[r] EXCEPT ![Group(r).name] = made],
             made.entry = idx[r]
      PROVE  Named(r)'
  <2>1. ASSUME NEW n \in Names, Member(r, n)' PROVE DefOf(r, n)'.name = n
    <3>1. CASE n = Group(r).name
      <4>1. groupMap'[r][n] = made
        BY <3>1, <1>3, <1>5
      <4>. QED BY <4>1, <3>1, <1>2, <1>5 DEF DefOf, Group
    <3>2. CASE n # Group(r).name
      <4>1. groupMap'[r][n] = groupMap[r][n]
        BY <3>2, <1>3, <1>5
      <4>. QED BY <4>1, <2>1, <1>1, <1>2 DEF Named, Member, DefOf
    <3>. QED BY <3>1, <3>2
  <2>. QED BY <2>1, <1>3 DEF Named
<1>6. CASE WorldBarrier
  BY <1>6, <1>4 DEF WorldBarrier
<1>7. CASE CreateComm
  <2>1. PICK made : made = NewBlock(r)
    OBVIOUS
  <2>2. groupMap'[r] = [groupMap[r] EXCEPT ![Group(r).name] = made] /\ made.entry = idx[r]
    BY <1>7, <2>1, CreateMakes DEF NewBlock, PackInv, IInv
  <2>. QED BY <2>2, <1>5
<1>8. ASSUME NEW q \in Ranks, MapGroup(q) PROVE Named(r)'
  BY <1>8, <1>4 DEF MapGroup
<1>9. ASSUME NEW q \in Ranks, MapOverflow(q) PROVE Named(r)'
  BY <1>9, <1>4 DEF MapOverflow
<1>10. ASSUME NEW q \in Ranks, SkipGroup(q) PROVE Named(r)'
  <2>1. CASE q = r
    <3>1. PICK made : made = [entry |-> idx[r], member |-> FALSE, groupsize |-> 0, comm |-> {r}]
      OBVIOUS
    <3>2. groupMap'[r] = [groupMap[r] EXCEPT ![Group(r).name] = made]
      BY <1>1, <1>10, <2>1, <3>1 DEF SkipGroup, TypeOK
    <3>. QED BY <3>1, <3>2, <1>5
  <2>2. CASE q # r
    BY <1>1, <1>10, <2>2, <1>4 DEF SkipGroup, TypeOK
  <2>. QED BY <2>1, <2>2
<1>11. CASE CreateErroneous
  BY <1>11, <1>4 DEF CreateErroneous
<1>12. CASE UNCHANGED vars
  BY <1>12, <1>4 DEF vars
<1>. QED BY <1>6, <1>7, <1>8, <1>9, <1>10, <1>11, <1>12 DEF Next, Terminated

LEMMA PackedNext ==
  ASSUME PackInv, Distinct, [Next]_vars, NEW q \in Ranks PROVE PackedBy(q)'
<1>1. TypeOK /\ PackedBy(q)
  BY DEF PackInv, IInv
<1>2. CASE WorldBarrier
  <2>1. /\ UNCHANGED << groupList, idx, lower_bound, min_rank, last_subtag, num, ranks, groupMap >>
        /\ pc[q] = "barrier" /\ pc'[q] = "map"
    BY <1>2 DEF WorldBarrier
  <2>2. SameView(q)
    BY <2>1 DEF SameView, Holds, Member
  <2>. QED BY <2>1, <2>2, <1>1, PackedFrame
<1>3. CASE CreateComm
  BY <1>3, PackedCreate
<1>4. ASSUME NEW p \in Ranks, MapGroup(p) PROVE PackedBy(q)'
  <2>1. CASE p = q
    BY <1>4, <2>1, PackedMap
  <2>2. CASE p # q
    <3>1. /\ UNCHANGED << groupList, idx, groupMap >>
          /\ lower_bound'[q] = lower_bound[q] /\ min_rank'[q] = min_rank[q]
          /\ last_subtag'[q] = last_subtag[q] /\ num'[q] = num[q] /\ ranks'[q] = ranks[q]
          /\ pc'[q] = pc[q]
      BY <1>1, <1>4, <2>2 DEF MapGroup, TypeOK
    <3>2. SameView(q)
      BY <3>1 DEF SameView, Holds, Member
    <3>. QED BY <3>1, <3>2, <1>1, PackedFrame
  <2>. QED BY <2>1, <2>2
<1>5. CASE UNCHANGED << groupList, pc, idx, lower_bound, min_rank, last_subtag, num, ranks, groupMap >>
  <2>1. SameView(q)
    BY <1>5 DEF SameView, Holds, Member
  <2>. QED BY <2>1, <1>1, <1>5, PackedFrame
<1>6. ASSUME NEW p \in Ranks, MapOverflow(p) PROVE PackedBy(q)'
  BY <1>6, <1>5 DEF MapOverflow
<1>7. ASSUME NEW p \in Ranks, SkipGroup(p) PROVE PackedBy(q)'
  <2>1. CASE p = q
    BY <1>7, <2>1, PackedSkip
  <2>2. CASE p # q
    <3>1. /\ UNCHANGED << groupList, min_rank, last_subtag, num, ranks >>
          /\ lower_bound'[q] = lower_bound[q] /\ groupMap'[q] = groupMap[q]
          /\ pc'[q] = pc[q] /\ idx'[q] = idx[q]
      BY <1>1, <1>7, <2>2 DEF SkipGroup, NextDefinition, TypeOK
    <3>2. SameView(q)
      BY <1>7, ViewSkip
    <3>. QED BY <3>1, <3>2, <1>1, PackedFrame
  <2>. QED BY <2>1, <2>2
<1>8. CASE CreateErroneous
  BY <1>8, <1>5 DEF CreateErroneous
<1>9. CASE UNCHANGED vars
  BY <1>9, <1>5 DEF vars
<1>. QED BY <1>2, <1>3, <1>4, <1>6, <1>7, <1>8, <1>9 DEF Next, Terminated

LEMMA PackNext == PackInv /\ [Next]_vars => PackInv'
<1> SUFFICES ASSUME PackInv, [Next]_vars PROVE PackInv'
  OBVIOUS
<1>1. IInv' /\ AgreeInv'
  BY InvNext, AgreeNext DEF PackInv
<1>2. \A r \in Ranks : Named(r)'
  BY NamedNext
<1>3. UNCHANGED groupList
  BY DEF Next, vars, WorldBarrier, CreateComm, CreateErroneous, MapGroup,
         MapOverflow, SkipGroup, Terminated
<1>4. ASSUME Distinct' PROVE \A q \in Ranks : PackedBy(q)'
  <2>1. Distinct
    BY <1>3, <1>4 DEF Distinct
  <2>. QED BY <2>1, PackedNext
<1>. QED BY <1>1, <1>2, <1>4 DEF PackInv

LEMMA PackKept == (SameSizes => PackInv) /\ [Next]_vars => (SameSizes => PackInv)'
BY PackNext, SameSizesKept

LEMMA PackInit == Init => (SameSizes => PackInv)
<1> SUFFICES ASSUME Init, SameSizes PROVE PackInv
  OBVIOUS
<1>1. IsGroupList(groupList)
  BY InitSorted
<1>2. \A r \in Ranks : \A n \in Names : ~Member(r, n)
  BY DEF Init, Member, NoBlock
<1>3. ASSUME NEW q \in Ranks PROVE PackedBy(q)
  <2>1. /\ pc[q] = "barrier" /\ min_rank[q] = 0 /\ lower_bound[q] = 0
    BY DEF Init
  <2>2. \A r \in Ranks : \A i \in DOMAIN groupList : ~Holds(q, r, i)
    BY <2>1, <1>1, <1>2 DEF Holds, Names
  <2>3. Singles(q) = {} /\ \A s \in Int : Row(q, s) = {}
    BY <2>2 DEF Singles, Row
  <2>4. 0 .. 0 - 1 = {} /\ 0 - 1 \in Int /\ 0 <= (0 - 1) + 1
    OBVIOUS
  <2>5. \A s \in Int : \E top \in Int : min_rank[q] <= top + 1 /\ Row(q, s) = min_rank[q] .. top
    BY <2>1, <2>3, <2>4
  <2>. QED BY <2>1, <2>3, <2>4, <2>5, <1>2 DEF PackedBy
<1>. QED BY <1>2, <1>3, InvInit, AgreeInit DEF PackInv, Named

\* As many names as definitions: none is defined twice.
LEMMA DistinctNames ==
  ASSUME IsGroupList(groupList), Cardinality(Names) = Len(groupList) PROVE Distinct
<1>1. Len(groupList) \in Nat /\ DOMAIN groupList = 1 .. Len(groupList)
  BY DEF IsGroupList
<1>2. IsFiniteSet(DOMAIN groupList) /\ Cardinality(DOMAIN groupList) = Len(groupList)
  <2>1. PICK k \in Nat : k = Len(groupList)
    BY <1>1
  <2>2. IsFiniteSet(1 .. k) /\ Cardinality(1 .. k) = IF 1 > k THEN 0 ELSE k - 1 + 1
    BY FS_Interval
  <2>3. Cardinality(1 .. k) = k
    BY <2>2
  <2>. QED BY <2>1, <2>2, <2>3, <1>1
<1>3. PICK f : f = [i \in DOMAIN groupList |-> groupList[i].name]
  OBVIOUS
<1>4. f \in Surjection(DOMAIN groupList, Names)
  BY <1>3 DEF Surjection, Names
<1>5. f \in Injection(DOMAIN groupList, Names)
  BY <1>2, <1>4, FS_Surjection
<1>6. \A i, j \in DOMAIN groupList : f[i] = f[j] => i = j
  BY <1>5, Zenon DEF Injection, IsInjective
<1>. QED BY <1>3, <1>6 DEF Distinct

\* For every number of processes, list of distinct groups and command line that gives
\* all ranks the same sizes: when all have returned, TAG_SINGLE groups fill the space from rank 0 up, and every
\* row of disjoint groups and every untagged group starts right above them.
THEOREM SpaceIsPacked == Spec => []Packed
<1>1. (SameSizes => PackInv) => Packed
  <2> SUFFICES ASSUME PackInv, Done, Cardinality(Names) = Len(groupList) PROVE Packed
    BY DEF Packed
  <2> DEFINE Held(tag, subtag) ==
               {r \in Ranks : \E n \in Names : /\ Member(r, n)
                                               /\ DefOf(r, n).tag = tag
                                               /\ DefOf(r, n).subtag = subtag}
             singles == UNION {Held(TAG_SINGLE, groupList[i].subtag) : i \in DOMAIN groupList}
             base    == Cardinality(singles)
  <2>1. IsGroupList(groupList) /\ Distinct
    BY DistinctNames DEF PackInv, IInv, TypeOK
  <2>2. \A q \in Ranks : PackedBy(q) /\ pc[q] = "done" /\ min_rank[q] \in 0 .. Size
    BY <2>1 DEF PackInv, IInv, TypeOK, Done
  <2>3. \A q \in Ranks : \A r \in Ranks : \A i \in DOMAIN groupList :
          Holds(q, r, i) <=> Member(r, groupList[i].name)
    BY <2>2 DEF Holds
  <2>4. \A r \in Ranks : \A i \in DOMAIN groupList :
          Member(r, groupList[i].name) => DefOf(r, groupList[i].name) = groupList[i]
    BY <2>1, JoinedDef
  <2>5. ASSUME NEW tag, NEW s
        PROVE  Held(tag, s) = {r \in Ranks : \E i \in DOMAIN groupList :
                                 /\ groupList[i].tag = tag /\ groupList[i].subtag = s
                                 /\ Member(r, groupList[i].name)}
    BY <2>4 DEF Names
  <2>6. ASSUME NEW q \in Ranks PROVE singles = Singles(q)
    <3>1. \A r \in singles : r \in Singles(q)
      BY <2>3, <2>5 DEF Singles
    <3>2. ASSUME NEW r \in Singles(q) PROVE r \in singles
      <4>1. PICK i \in DOMAIN groupList :
              groupList[i].tag = TAG_SINGLE /\ Member(r, groupList[i].name)
        BY <2>3 DEF Singles
      <4>2. r \in Held(TAG_SINGLE, groupList[i].subtag)
        <5>1. groupList[i].name \in Names /\ DefOf(r, groupList[i].name) = groupList[i] /\ r \in Ranks
          BY <4>1, <2>4 DEF Names, Singles
        <5>. QED BY <5>1, <4>1
      <4>. QED BY <4>2
    <3>. QED BY <3>1, <3>2
  <2>7. ASSUME NEW q \in Ranks, NEW s PROVE Held(TAG_DISJOINT, s) = Row(q, s)
    BY <2>3, <2>5 DEF Row
  <2> HIDE DEF Held, singles
  <2>8. \A q \in Ranks : singles = 0 .. min_rank[q] - 1
    BY <2>2, <2>6 DEF PackedBy
  <2>9. \A q \in Ranks : base = min_rank[q]
    <3> TAKE q \in Ranks
    <3>1. PICK m \in Int : m = min_rank[q] - 1 /\ 0 <= m + 1
      BY <2>2
    <3>2. Cardinality(0 .. m) = IF 0 > m THEN 0 ELSE m - 0 + 1
      BY FS_Interval
    <3>. QED BY <3>1, <3>2, <2>2, <2>8
  <2>10. 0 \in Ranks
    BY SizeIsNat DEF Ranks
  <2>11. base \in Nat /\ singles = 0 .. base - 1
    BY <2>2, <2>8, <2>9, <2>10
  <2> HIDE DEF base
  <2>12. ASSUME NEW i \in DOMAIN groupList, groupList[i].tag = TAG_DISJOINT,
                NEW row, row = Held(TAG_DISJOINT, groupList[i].subtag)
         PROVE  row = base .. base + Cardinality(row) - 1
    <3>1. groupList[i].subtag \in Int
      <4>1. groupList[i] \in GroupDefs
        BY <2>1 DEF IsGroupList
      <4>. QED BY <4>1 DEF GroupDefs
    <3>2. PICK s \in Int : s = groupList[i].subtag
      BY <3>1
    <3>3. PICK top \in Int : base <= top + 1 /\ row = base .. top
      <4>1. PICK q \in Ranks : q = 0
        BY <2>10
      <4>2. PICK top \in Int : min_rank[q] <= top + 1 /\ Row(q, s) = min_rank[q] .. top
        BY <2>2 DEF PackedBy
      <4>3. row = Row(q, s) /\ base = min_rank[q]
        BY <3>2, <2>7, <2>9, <2>12
      <4>. QED BY <4>2, <4>3
    <3>4. Cardinality(base .. top) = IF base > top THEN 0 ELSE top - base + 1
      BY <2>11, FS_Interval
    <3>5. base + Cardinality(row) - 1 = top
      BY <3>3, <3>4, <2>11
    <3>. QED BY <3>3, <3>5
  <2>13. ASSUME NEW n \in Names, NEW r \in Ranks, Member(r, n), DefOf(r, n).tag = TAG_NONE
         PROVE  groupMap[r][n].comm = base .. base + groupMap[r][n].groupsize - 1
    <3>1. groupMap[r][n].comm = min_rank[r] .. min_rank[r] + groupMap[r][n].groupsize - 1
      BY <2>2, <2>13 DEF PackedBy
    <3>. QED BY <3>1, <2>9
  <2>. QED BY <2>11, <2>12, <2>13 DEF Packed, Held, singles, base
<1>. QED BY <1>1, PackInit, PackKept, PTL DEF Spec
===============================================================================
