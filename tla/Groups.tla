-------------------------------- MODULE Groups --------------------------------
(***************************************************************************)
(* The mapping of processes to named groups: create_groups() in groups.c,  *)
(* which every rank runs while it parses a "define groups" block.  All     *)
(* ranks walk the same sorted list; each iteration passes a world barrier  *)
(* and, when the group is mapped, a collective MPI_Comm_create.            *)
(***************************************************************************)
EXTENDS Integers, Sequences, FiniteSets

CONSTANTS
  Size,         \* number of processes in MPI_COMM_WORLD
  DefLists,     \* the "define groups" lists, in source order
  OptionLists,  \* the -g options given on the command line
  Unread,       \* what an int that sscanf never wrote may hold
  Strays,       \* communicators an erroneous MPI_Comm_create may return
  IntMax        \* largest value of an int

TAG_SINGLE   == 0
TAG_DISJOINT == 1
TAG_NONE     == 2

Ranks == 0 .. Size - 1

\* A Group of the list: its name, its tag and its subtag.
GroupDefs == [name: STRING, tag: {TAG_SINGLE, TAG_DISJOINT, TAG_NONE}, subtag: Int]

\* The grammar has no empty list.
IsGroupList(list) == list \in Seq(GroupDefs) /\ list # << >>

ASSUME SizeAssumption == Size \in Nat \ {0}
ASSUME DefListsAssumption == \A d \in DefLists : IsGroupList(d)
ASSUME UnreadAssumption == Unread \subseteq Int
ASSUME StraysAssumption == Strays \subseteq SUBSET Ranks
ASSUME IntMaxAssumption == IntMax \in Nat /\ Size < IntMax

\* An option is [name, form, value]: "-g NAME" has form "bare", "-g NAME:4"
\* form "number", and "-g NAME:x", where sscanf converts nothing, "garbage".
OptionDefs == [name: STRING, form: {"bare", "number", "garbage"}, value: Int]
ASSUME OptionListsAssumption == OptionLists \subseteq Seq(OptionDefs)

VARIABLES
  groupList,     \* the sorted definitions, the same on every rank
  sizeGroupmap,  \* per rank: requested size of every defined name
  pc,            \* per rank: the collective it stands in, or its local step
  idx,           \* per rank: index of the current definition
  lower_bound,   \* per rank: minimum rank for the current mapping
  min_rank,      \* per rank: minimum rank above the TAG_SINGLE space
  last_subtag,   \* per rank: subtag of the last mapped TAG_DISJOINT group
  num,           \* per rank: number of processes to map
  ranks,         \* per rank: the ranks handed to MPI_Group_incl
  groupMap,      \* per rank: name -> block
  aborted        \* MPI_Abort has ended the job

vars == << groupList, sizeGroupmap, pc, idx, lower_bound, min_rank,
           last_subtag, num, ranks, groupMap, aborted >>

Names == {groupList[i].name : i \in DOMAIN groupList}

\* Mutant: the tag is not compared.
compare_groups_SubtagOnly(a, b) ==
  CASE a.subtag < b.subtag -> -1 [] a.subtag > b.subtag -> 1 [] OTHER -> 0

\* compare_groups: by tag, then by subtag.
compare_groups(a, b) ==
  CASE a.tag < b.tag -> -1
    [] a.tag > b.tag -> 1
    [] a.tag = b.tag /\ a.subtag < b.subtag -> -1
    [] a.tag = b.tag /\ a.subtag > b.subtag -> 1
    [] OTHER -> 0

\* g_slist_sort is a stable merge sort: sorted is list in compare_groups order,
\* equal elements staying in the order they had.
IsSortOf(sorted, list) ==
  /\ DOMAIN sorted = DOMAIN list
  /\ \E p \in [DOMAIN list -> DOMAIN list] :
       /\ \A i, j \in DOMAIN list : i # j => p[i] # p[j]
       /\ \A i \in DOMAIN list : sorted[i] = list[p[i]]
       /\ \A i, j \in DOMAIN list : i < j =>
            \/ compare_groups(list[p[i]], list[p[j]]) < 0
            \/ compare_groups(list[p[i]], list[p[j]]) = 0 /\ p[i] < p[j]

\* What group_cb stores for one option: a bare name means size 0, and a number
\* sscanf cannot convert leaves the local variable as it was.
StoredSize(option) ==
  CASE option.form = "bare"   -> {0}
    [] option.form = "number" -> {option.value}
    [] OTHER                  -> Unread

\* The size looked up for a name: that of the last option which gives one, and
\* NULL, which is 0, if there is none.
RequestedSizes(options, name) ==
  LET given == {i \in DOMAIN options : options[i].name = name}
  IN  IF given = {} THEN {0}
      ELSE UNION {StoredSize(options[i]) : i \in {k \in given : \A j \in given : j <= k}}

(***************************************************************************)
(* A GroupBlock: member and groupsize as in the code, the communicator as  *)
(* its set of ranks ({r} is MPI_COMM_SELF), and the index of the           *)
(* definition it was made for, which the properties below refer to.        *)
(***************************************************************************)
Blocks == [entry: Nat, member: BOOLEAN, groupsize: Nat, comm: SUBSET Ranks]
NoBlock == [entry |-> 0, member |-> FALSE, groupsize |-> 0, comm |-> {}]

Init ==
  /\ \E d \in DefLists, o \in OptionLists :
       /\ groupList \in [DOMAIN d -> {d[i] : i \in DOMAIN d}]
       /\ IsSortOf(groupList, d)
       /\ sizeGroupmap \in
            [Ranks -> {f \in [Names -> UNION {RequestedSizes(o, n) : n \in Names}] :
                         \A n \in Names : f[n] \in RequestedSizes(o, n)}]
  /\ pc = [r \in Ranks |-> "barrier"]
  /\ idx = [r \in Ranks |-> 1]
  /\ lower_bound = [r \in Ranks |-> 0]
  /\ min_rank = [r \in Ranks |-> 0]
  /\ last_subtag = [r \in Ranks |-> 0]
  /\ num = [r \in Ranks |-> 0]
  /\ ranks = [r \in Ranks |-> {}]
  /\ groupMap = [r \in Ranks |-> [n \in Names |-> NoBlock]]
  /\ aborted = FALSE

-------------------------------------------------------------------------------

Group(r) == groupList[idx[r]]
Request(r) == sizeGroupmap[r][Group(r).name]

\* Mutants: every disjoint group starts anew; an untagged group does not.
StartBound_DisjointResets(r) ==
  IF Group(r).tag \in {TAG_DISJOINT, TAG_NONE} THEN min_rank[r] ELSE lower_bound[r]
StartBound_NoneContinues(r) ==
  IF Group(r).tag = TAG_DISJOINT /\ last_subtag[r] # Group(r).subtag
  THEN min_rank[r]
  ELSE lower_bound[r]

\* lower_bound after the two resets at the top of an iteration.
StartBound(r) ==
  IF \/ Group(r).tag = TAG_DISJOINT /\ last_subtag[r] # Group(r).subtag
     \/ Group(r).tag = TAG_NONE
  THEN min_rank[r]
  ELSE lower_bound[r]

\* Mutants: the request is not chopped; the last rank is not counted.
MappedCount_Unchopped(r) == Request(r)
MappedCount_ChopsEarly(r) ==
  IF StartBound(r) + Request(r) >= Size THEN Size - 1 - StartBound(r) ELSE Request(r)

\* The number of ranks mapped: the request, chopped at the end of the world.
MappedCount(r) ==
  IF StartBound(r) + Request(r) > Size THEN Size - StartBound(r) ELSE Request(r)

\* Mutant: the loop that fills the array runs once more.
GroupRanks_OneMore(r) == Ranks \cap (StartBound(r) .. StartBound(r) + MappedCount(r))

\* The ranks array: lower_bound .. lower_bound + num - 1.
GroupRanks(r) == StartBound(r) .. StartBound(r) + MappedCount(r) - 1

\* Mutant: only the future members go on to MPI_Comm_create.
Mappable_MembersOnly(r) == Request(r) > 0 /\ r \in GroupRanks(r)

Mappable(r) == Request(r) > 0 /\ StartBound(r) < Size

\* The end of an iteration: on to the next definition's barrier, or return.
NextDefinition(R) ==
  /\ idx' = [r \in Ranks |-> IF r \in R THEN idx[r] + 1 ELSE idx[r]]
  /\ pc' = [r \in Ranks |-> IF r \notin R THEN pc[r]
                            ELSE IF idx[r] = Len(groupList) THEN "done" ELSE "barrier"]

\* MPI_Barrier(MPI_COMM_WORLD) at the top of an iteration lets all ranks go on.
WorldBarrier ==
  /\ ~aborted
  /\ \A r \in Ranks : pc[r] = "barrier"
  /\ pc' = [r \in Ranks |-> "map"]
  /\ UNCHANGED << groupList, sizeGroupmap, idx, lower_bound, min_rank,
                  last_subtag, num, ranks, groupMap, aborted >>

\* Compute the ranks of the group and enter MPI_Comm_create.
MapGroup(r) ==
  LET start == StartBound(r)
      count == MappedCount(r)
  IN
  /\ ~aborted
  /\ pc[r] = "map"
  /\ Mappable(r)
  /\ num' = [num EXCEPT ![r] = count]
  /\ ranks' = [ranks EXCEPT ![r] = GroupRanks(r)]
  /\ lower_bound' = [lower_bound EXCEPT ![r] =
                       IF Group(r).tag = TAG_NONE THEN start ELSE start + count]
  /\ min_rank' = [min_rank EXCEPT ![r] = IF Group(r).tag = TAG_SINGLE THEN start + count ELSE @]
  /\ last_subtag' = [last_subtag EXCEPT ![r] =
                       IF Group(r).tag = TAG_DISJOINT THEN Group(r).subtag ELSE @]
  /\ pc' = [pc EXCEPT ![r] = "create"]
  /\ UNCHANGED << groupList, sizeGroupmap, idx, groupMap, aborted >>

\* lower_bound + num does not fit an int: the sum may wrap, the request is then
\* not chopped, and the rank list given to MPI_Group_incl kills the job.
MapOverflow(r) ==
  /\ ~aborted
  /\ pc[r] = "map"
  /\ Mappable(r)
  /\ StartBound(r) + Request(r) > IntMax
  /\ aborted' = TRUE
  /\ UNCHANGED << groupList, sizeGroupmap, pc, idx, lower_bound, min_rank,
                  last_subtag, num, ranks, groupMap >>

\* No size requested or no process left: the block stays empty.
SkipGroup(r) ==
  /\ ~aborted
  /\ pc[r] = "map"
  /\ ~Mappable(r)
  /\ lower_bound' = [lower_bound EXCEPT ![r] = StartBound(r)]
  /\ groupMap' = [groupMap EXCEPT ![r][Group(r).name] =
                    [entry |-> idx[r], member |-> FALSE, groupsize |-> 0, comm |-> {r}]]
  /\ NextDefinition({r})
  /\ UNCHANGED << groupList, sizeGroupmap, min_rank, last_subtag, num, ranks,
                  aborted >>

\* MPI_Comm_create is collective over the world, and all ranks have to hand in the
\* same group.
AllInCreate == \A r \in Ranks : pc[r] = "create"
SameGroup == \A r, s \in Ranks : ranks[r] = ranks[s]

\* What it may give the ranks, {} being MPI_COMM_NULL: to the members the new
\* communicator, and when the groups differ to each rank anything.
Handles ==
  IF SameGroup THEN {[r \in Ranks |-> IF r \in ranks[r] THEN ranks[r] ELSE {}]}
               ELSE [Ranks -> Strays \cup {{}}]

\* Whoever gets a communicator believes to be a member; groupsize is the rank's own num.
CreateComm ==
  /\ ~aborted
  /\ AllInCreate
  /\ \E handle \in Handles :
       groupMap' = [r \in Ranks |-> [groupMap[r] EXCEPT ![Group(r).name] =
                      [entry     |-> idx[r],
                       member    |-> handle[r] # {},
                       groupsize |-> num[r],
                       comm      |-> IF handle[r] # {} THEN handle[r] ELSE {r}]]]
  /\ NextDefinition(Ranks)
  /\ UNCHANGED << groupList, sizeGroupmap, lower_bound, min_rank, last_subtag,
                  num, ranks, aborted >>

\* Differing groups are erroneous: MPI may end the job.  (Or not return at all.)
CreateErroneous ==
  /\ ~aborted
  /\ AllInCreate /\ ~SameGroup
  /\ aborted' = TRUE
  /\ UNCHANGED << groupList, sizeGroupmap, pc, idx, lower_bound, min_rank,
                  last_subtag, num, ranks, groupMap >>

\* Every rank has returned to the parser, or the job is gone.
Terminated ==
  /\ aborted \/ \A r \in Ranks : pc[r] = "done"
  /\ UNCHANGED vars

Next ==
  \/ WorldBarrier
  \/ CreateComm \/ CreateErroneous
  \/ \E r \in Ranks : MapGroup(r) \/ MapOverflow(r) \/ SkipGroup(r)
  \/ Terminated

Spec == Init /\ [][Next]_vars

\* Every rank keeps running and MPI completes a correct collective all have entered.
Fairness ==
  /\ WF_vars(WorldBarrier)
  /\ WF_vars(SameGroup /\ CreateComm)
  /\ \A r \in Ranks : WF_vars(MapGroup(r) \/ SkipGroup(r))

FairSpec == Spec /\ Fairness

-------------------------------------------------------------------------------

TypeOK ==
  /\ IsGroupList(groupList)
  /\ sizeGroupmap \in [Ranks -> [Names -> Int]]
  /\ pc \in [Ranks -> {"barrier", "map", "create", "done"}]
  /\ idx \in [Ranks -> 1 .. Len(groupList) + 1]
  /\ lower_bound \in [Ranks -> 0 .. Size]
  /\ min_rank \in [Ranks -> 0 .. Size]
  /\ last_subtag \in [Ranks -> Int]
  /\ num \in [Ranks -> 0 .. Size]
  /\ ranks \in [Ranks -> SUBSET Ranks]
  /\ groupMap \in [Ranks -> [Names -> Blocks]]
  /\ aborted \in BOOLEAN

Member(r, n) == groupMap[r][n].member
DefOf(r, n) == groupList[groupMap[r][n].entry]

\* The sizes are the same on all ranks, as they are unless sscanf could not read one
\* (main.c:55).  Otherwise the ranks come to hand differing groups to MPI_Comm_create,
\* which promises nothing then.
SameSizes == \A r, s \in Ranks : sizeGroupmap[r] = sizeGroupmap[s]

\* A process of a TAG_SINGLE group is in no other group: the diagram above
\* create_groups puts those groups in rank ranges of their own.
SingleExclusive ==
  SameSizes => \A r \in Ranks : \A m, n \in Names :
    m # n /\ Member(r, m) /\ Member(r, n) => DefOf(r, m).tag # TAG_SINGLE

\* Two TAG_DISJOINT groups with the same subtag share no process: the mapping
\* moves lower_bound on from one to the next for as long as the subtag stays.
SubtagDisjoint ==
  SameSizes => \A r \in Ranks : \A m, n \in Names :
    /\ m # n /\ Member(r, m) /\ Member(r, n)
    /\ DefOf(r, m).tag = TAG_DISJOINT /\ DefOf(r, n).tag = TAG_DISJOINT
    => DefOf(r, m).subtag # DefOf(r, n).subtag

\* Ranks with the same sizes never hand differing groups to MPI_Comm_create, though
\* one may be a skipped group ahead of another and each keeps bounds of its own: once
\* all hold the block made for one definition, they agree about it.  The members of
\* the communicator are the ranks that believe to be members, and groupsize (which
\* create_pattern lays the file out by) is its size everywhere.
CommConsistent ==
  SameSizes => \A n \in Names : \A r \in Ranks :
    LET block == groupMap[r][n]
    IN  (block.member /\ \A s \in Ranks : groupMap[s][n].entry = block.entry)
        => /\ block.comm = {s \in Ranks : Member(s, n)}
           /\ \A s \in Ranks : groupMap[s][n].groupsize = Cardinality(block.comm)

\* A group gets fewer processes than requested only if it reaches the last rank,
\* and none at all only if nothing is left above its lower bound.
CutOnlyAtTop ==
  SameSizes => \A r \in Ranks : \A n \in Names :
    Member(r, n) /\ groupMap[r][n].groupsize < sizeGroupmap[r][n]
    => Size - 1 \in groupMap[r][n].comm

Done == ~aborted /\ \A r \in Ranks : pc[r] = "done"

\* The process space is packed without holes: TAG_SINGLE groups fill it from rank
\* 0 up, and every untagged group and every row of disjoint groups starts right
\* above them.  (Stated for lists in which no name is defined twice.)
Packed ==
  Done /\ SameSizes /\ Cardinality(Names) = Len(groupList) =>
    LET Held(tag, subtag) ==
          {r \in Ranks : \E n \in Names : /\ Member(r, n)
                                          /\ DefOf(r, n).tag = tag
                                          /\ DefOf(r, n).subtag = subtag}
        singles == UNION {Held(TAG_SINGLE, groupList[i].subtag) : i \in DOMAIN groupList}
        base    == Cardinality(singles)
    IN /\ singles = 0 .. base - 1
       /\ \A i \in DOMAIN groupList :
            groupList[i].tag = TAG_DISJOINT =>
              LET row == Held(TAG_DISJOINT, groupList[i].subtag)
              IN  row = base .. base + Cardinality(row) - 1
       /\ \A n \in Names : \A r \in Ranks :
            Member(r, n) /\ DefOf(r, n).tag = TAG_NONE
            => groupMap[r][n].comm = base .. base + groupMap[r][n].groupsize - 1

\* With the same sizes on all ranks, none of them too large for the sum to fit an
\* int, every rank gets through create_groups: no rank enters MPI_Comm_create
\* while another skips the group and waits in the next barrier.
SizesFit == \A r \in Ranks : \A n \in Names : sizeGroupmap[r][n] + Size <= IntMax
EveryRankReturns == (SameSizes /\ SizesFit) ~> Done
===============================================================================
