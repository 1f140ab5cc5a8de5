----------------------------- MODULE InterpProofs -----------------------------
(***************************************************************************)
(* Proofs about the interpreter for every number of ranks, every group     *)
(* mapping and every kernel: type correctness, that a master block has one *)
(* rank at a time, that core time events are numbered in the order they    *)
(* began, and that each describes the calls between its begin and its end. *)
(***************************************************************************)
EXTENDS Interp, WellFoundedInduction, TLAPS

-------------------------------------------------------------------------------
(* Types.                                                                       *)

Frames == [node : Nat, last : Nat, round : Nat, count : Int, start : Nat]
CoreTimes == [time : Nat, data : Int]
CoreEvents ==
  [event : [id : Nat, avgCoreTime : CoreTimes, minCoreTime : CoreTimes, maxCoreTime : CoreTimes,
            numCalls : Nat, minCallTime : Nat, maxCallTime : Nat],
   start : Nat, before : Nat, until : Nat]
Comms == {World} \cup {Self(r) : r \in Ranks}
                 \cup {[name |-> g, ranks |-> Members[g]] : g \in GroupNames}
MPICalls == [op       : {"none", "MPI_Barrier"} \cup ParallelTypes,
             comm     : Comms \cup {NoCall.comm},
             returned : BOOLEAN]

Types ==
  /\ program \in Programs
  /\ job \in {"running", "aborted"}
  /\ frames \in [Ranks -> Seq(Frames)]
  /\ DOMAIN vars = Ranks
  /\ groupStack \in [Ranks -> Seq(GroupNames)]
  /\ mpi \in [Ranks -> MPICalls]
  /\ timeId \in [Ranks -> Nat]
  /\ coreTimeId \in [Ranks -> Nat]
  /\ clock \in [Ranks -> Nat]
  /\ timeList \in [Ranks -> Seq(Events)]
  /\ coreTimeStack \in [Ranks -> Seq(CoreEvents)]
  /\ coreTimeList \in [Ranks -> Seq(CoreEvents)]
  /\ log \in [Ranks -> Seq(CoreTimes)]

-------------------------------------------------------------------------------
(* The inductive invariant.                                                     *)

\* The calls in progress form a path of the tree, from a node up to the root.
PathInv ==
  \A r \in Ranks :
    /\ Len(frames[r]) >= 1
    /\ frames[r][Len(frames[r])].node = 0
    /\ \A i \in 1 .. Len(frames[r]) - 1 :
         /\ frames[r][i].node \in Nodes
         /\ frames[r][i + 1].node = program.kernel.parent[frames[r][i].node]

FrameInv ==
  \A r \in Ranks : \A i \in 1 .. Len(frames[r]) :
    /\ frames[r][i].last \in Nodes \cup {0}
    /\ frames[r][i].round < frames[r][i].count
    /\ frames[r][i].start <= clock[r]

VarInv ==
  \A r \in Ranks : \A v \in DOMAIN vars[r] :
    \/ /\ vars[r][v].type = "VAR_INT"
       /\ vars[r][v].int \in Nat
    \/ /\ vars[r][v].type = "VAR_FILE"
       /\ vars[r][v].comm \in Comms
       /\ r \in vars[r][v].comm.ranks

\* A rank in a collective call is one of those of the communicator, and about to
\* execute a statement.
CallInv ==
  \A r \in Ranks : mpi[r] # NoCall =>
    /\ mpi[r].op # "none"
    /\ r \in mpi[r].comm.ranks
    /\ \E c \in Pending(r) : \A d \in Pending(r) : c <= d

\* What surrounds a node: the groups entered, innermost first, and the number of core
\* time events begun.
Contexts == [groups : Seq(GroupNames), depth : Nat]
Context(n, outer) ==
  [groups |-> IF Stmt(n).type = "GROUP" THEN << Stmt(n).arg >> \o outer.groups ELSE outer.groups,
   depth  |-> IF Stmt(n).type = "CTIME" THEN outer.depth + 1 ELSE outer.depth]

\* A record of the contexts of some nodes, with those around each of them.
ContextsOf(ctx) ==
  /\ DOMAIN ctx \subseteq Nodes \cup {0}
  /\ 0 \in DOMAIN ctx
  /\ ctx[0] = [groups |-> << >>, depth |-> 0]
  /\ \A n \in DOMAIN ctx \ {0} :
       LET outer == program.kernel.parent[n] IN outer \in DOMAIN ctx /\ ctx[n] = Context(n, ctx[outer])
  /\ \A n \in DOMAIN ctx : ctx[n] \in Contexts

CommUnder(r, groups) == IF groups = << >> THEN World ELSE CommOf(r, Head(groups))

\* The group stack and the stack of core time events of a rank are those of the node it
\* is at.  It is a member of the groups around it, and the master of those around the
\* master blocks it is in.
OnPath(r) == {frames[r][i].node : i \in 1 .. Len(frames[r])}
Follows(r, ctx) ==
  /\ \A n \in OnPath(r) :
       /\ n \in DOMAIN ctx
       /\ ctx[n].groups # << >> => r \in Members[Head(ctx[n].groups)]
       /\ n # 0 /\ Stmt(n).type = "MASTER" => IsMaster(r, CommUnder(r, ctx[n].groups))
  /\ groupStack[r] = ctx[Top(r).node].groups
  /\ Len(coreTimeStack[r]) = ctx[Top(r).node].depth

ContextInv == \E ctx : ContextsOf(ctx) /\ \A r \in Ranks : Follows(r, ctx)

\* The ids and the start times of all core time events of a rank.
Begun(r) ==
  {<< coreTimeStack[r][i].event.id, coreTimeStack[r][i].start >> : i \in 1 .. Len(coreTimeStack[r])}
  \cup {<< coreTimeList[r][i].event.id, coreTimeList[r][i].start >> : i \in 1 .. Len(coreTimeList[r])}

BegunInv ==
  \A r \in Ranks : \A b \in Begun(r) :
    /\ b[1] < coreTimeId[r] /\ b[2] < clock[r]
    /\ \A d \in Begun(r) : b[1] < d[1] <=> b[2] < d[2]

IInv == Types /\ PathInv /\ FrameInv /\ VarInv /\ CallInv /\ ContextInv /\ BegunInv

-------------------------------------------------------------------------------
(* Sequences, kernels and communicators.                                        *)

\* Every non-empty set of naturals has a least element: what follows by induction on a
\* number is proved from it, by way of the least number that would refute it.
LEMMA Least ==
  ASSUME NEW S, S \subseteq Nat, S # {}
  PROVE  \E m \in S : \A k \in S : m <= k
<1>. DEFINE R == OpToRel(<, Nat)
<1>1. IsWellFoundedOn(R, Nat)
  BY NatLessThanWellFounded
<1>2. \A x, y \in Nat : y < x => << y, x >> \in R
  BY DEF OpToRel
<1>. HIDE DEF R
<1>3. PICK m \in S : \A k \in S : ~ (<< k, m >> \in R)
  BY <1>1, WFMin
<1>4. ASSUME NEW k \in S PROVE m <= k
  <2>1. k \in Nat /\ m \in Nat
    OBVIOUS
  <2>2. ~(k < m)
    BY <1>2, <1>3, <2>1
  <2>. QED BY <2>1, <2>2
<1>. QED BY <1>4

\* A new first element.
LEMMA PutFirst ==
  ASSUME NEW S, NEW s \in Seq(S), NEW e \in S
  PROVE  LET t == << e >> \o s IN
         /\ t \in Seq(S)
         /\ Len(t) = Len(s) + 1
         /\ t[1] = e /\ Head(t) = e
         /\ \A i \in 1 .. Len(s) : t[i + 1] = s[i]
         /\ \A i \in 1 .. Len(t) : i # 1 => i - 1 \in 1 .. Len(s) /\ t[i] = s[i - 1]
OBVIOUS

\* The first element, and the sequence without it.
LEMMA DropFirst ==
  ASSUME NEW S, NEW s \in Seq(S), Len(s) >= 1
  PROVE  /\ Head(s) = s[1] /\ s[1] \in S
         /\ Tail(s) \in Seq(S)
         /\ Len(Tail(s)) = Len(s) - 1
         /\ \A i \in 1 .. Len(s) - 1 : Tail(s)[i] = s[i + 1]
OBVIOUS

LEMMA KernelTypes ==
  ASSUME Types
  PROVE  /\ Nodes = DOMAIN program.kernel.stmt /\ Nodes \subseteq Nat /\ 0 \notin Nodes
         /\ \A n \in Nodes : program.kernel.parent[n] \in Nat /\ program.kernel.parent[n] < n
         /\ \A n \in Nodes : Stmt(n).times \in Int /\ Stmt(n).perRank \in BOOLEAN
         /\ \A n \in Nodes : Stmt(n).type \in StmtTypes
BY ProgramsAssumption DEF Types, Nodes, Stmt

LEMMA CommTypes ==
  /\ World \in Comms
  /\ \A r \in Ranks : r \in World.ranks
  /\ \A r \in Ranks : \A g \in GroupNames : CommOf(r, g) \in Comms /\ r \in CommOf(r, g).ranks
BY DEF Comms, World, Self, CommOf

LEMMA ActiveCommTypes ==
  ASSUME Types, NEW r \in Ranks
  PROVE  ActiveComm(r) \in Comms /\ r \in ActiveComm(r).ranks
<1>1. groupStack[r] \in Seq(GroupNames)
  BY DEF Types
<1>2. groupStack[r] # << >> => Head(groupStack[r]) \in GroupNames
  BY <1>1
<1>. QED BY <1>2, CommTypes DEF ActiveComm

LEMMA NamedCommTypes ==
  ASSUME Types, NEW r \in Ranks, NEW g \in {"", "world"} \cup GroupNames
  PROVE  NamedComm(r, g) \in Comms /\ r \in NamedComm(r, g).ranks
BY ActiveCommTypes, CommTypes DEF NamedComm

\* The call of ExecuteStatement on top.
LEMMA TopTypes ==
  ASSUME Types, PathInv, NEW r \in Ranks
  PROVE  /\ frames[r] \in Seq(Frames)
         /\ Len(frames[r]) \in Nat /\ Len(frames[r]) >= 1
         /\ Top(r) = frames[r][1] /\ Top(r) \in Frames
         /\ \A i \in 1 .. Len(frames[r]) : frames[r][i] \in Frames
<1>1. frames[r] \in Seq(Frames) /\ Len(frames[r]) >= 1
  BY DEF Types, PathInv
<1>. QED BY <1>1, DropFirst DEF Top

\* Only the call at the bottom is that of the root.
LEMMA BelowRoot ==
  ASSUME Types, PathInv, NEW r \in Ranks, Top(r).node # 0
  PROVE  /\ Len(frames[r]) >= 2
         /\ frames[r][1].node \in Nodes
         /\ frames[r][2].node = program.kernel.parent[frames[r][1].node]
<1>1. Len(frames[r]) \in Nat /\ Len(frames[r]) >= 1 /\ Top(r) = frames[r][1]
  BY TopTypes
<1>2. Len(frames[r]) # 1
  BY <1>1 DEF PathInv
<1>3. 1 \in 1 .. Len(frames[r]) - 1
  <2>1. \A n \in Nat : n >= 1 /\ n # 1 => 1 \in 1 .. n - 1
    OBVIOUS
  <2>. QED BY <1>1, <1>2, <2>1
<1>. QED BY <1>1, <1>2, <1>3 DEF PathInv

\* Where a statement is about to be executed.
LEMMA AtTypes ==
  ASSUME Types, PathInv, NEW r \in Ranks, NEW c \in Nodes, NEW type, At(r, c, type)
  PROVE  /\ Stmt(c).type = type
         /\ program.kernel.parent[c] = frames[r][1].node
         /\ mpi[r] = NoCall /\ job = "running"
         /\ c \in Pending(r) /\ \A d \in Pending(r) : c <= d
BY TopTypes DEF At, Pending, Free

\* The statement of a collective call.
LEMMA CurrentTypes ==
  ASSUME Types, CallInv, NEW r \in Ranks, mpi[r] # NoCall
  PROVE  Current(r) \in Nodes
<1>1. PICK c \in Pending(r) : \A d \in Pending(r) : c <= d
  BY DEF CallInv
<1>2. Current(r) \in Pending(r)
  BY <1>1 DEF Current
<1>. QED BY <1>2 DEF Pending

-------------------------------------------------------------------------------
(* Steps of the walk.                                                           *)

\* One step over a statement.
LEMMA SteppedTypes ==
  ASSUME Types, PathInv, NEW r \in Ranks, NEW c \in Nodes
  PROVE  LET s == Stepped(r, c) IN
         /\ s \in Seq(Frames) /\ Len(s) = Len(frames[r])
         /\ s[1] = [frames[r][1] EXCEPT !.last = c]
         /\ \A i \in 1 .. Len(s) : i # 1 => s[i] = frames[r][i]
<1>1. c \in Nat
  BY KernelTypes
<1>2. /\ frames[r] \in Seq(Frames) /\ Len(frames[r]) \in Nat /\ 1 \in 1 .. Len(frames[r])
      /\ frames[r][1] \in Frames
  BY TopTypes
<1>3. [frames[r][1] EXCEPT !.last = c] \in Frames
  BY <1>1, <1>2 DEF Frames
<1>. DEFINE e == [frames[r][1] EXCEPT !.last = c]
<1>4. Stepped(r, c) = [frames[r] EXCEPT ![1] = e]
  BY DEF Stepped
<1>5. /\ [frames[r] EXCEPT ![1] = e] \in Seq(Frames)
      /\ Len([frames[r] EXCEPT ![1] = e]) = Len(frames[r])
  BY <1>2, <1>3
<1>6. [frames[r] EXCEPT ![1] = e][1] = e
  BY <1>2
<1>. QED BY <1>2, <1>4, <1>5, <1>6

\* Rank r goes on to another child of the statement it is in, and no other rank moves.
Stays(r) ==
  /\ frames' \in [Ranks -> Seq(Frames)]
  /\ \A q \in Ranks \ {r} : frames'[q] = frames[q]
  /\ Len(frames'[r]) = Len(frames[r])
  /\ frames'[r][1].node = frames[r][1].node
  /\ \A i \in 1 .. Len(frames[r]) : i # 1 => frames'[r][i] = frames[r][i]

\* It enters node c.
Enters(r, c) ==
  /\ frames' \in [Ranks -> Seq(Frames)]
  /\ \A q \in Ranks \ {r} : frames'[q] = frames[q]
  /\ Len(frames'[r]) = Len(frames[r]) + 1
  /\ frames'[r][1].node = c /\ program.kernel.parent[c] = frames[r][1].node
  /\ frames'[r][2].node = frames[r][1].node
  /\ \A i \in 1 .. Len(frames'[r]) : i > 2 => frames'[r][i] = frames[r][i - 1]

\* It leaves the statement it is in.
Leaves(r) ==
  /\ frames' \in [Ranks -> Seq(Frames)]
  /\ \A q \in Ranks \ {r} : frames'[q] = frames[q]
  /\ Len(frames'[r]) = Len(frames[r]) - 1
  /\ \A i \in 1 .. Len(frames[r]) - 1 : frames'[r][i] = frames[r][i + 1]

LEMMA StepsOver ==
  ASSUME Types, PathInv, NEW r \in Ranks, NEW c \in Nodes, StepOver(r, c)
  PROVE  Stays(r) /\ frames'[r][1] = [frames[r][1] EXCEPT !.last = c]
<1>1. /\ Stepped(r, c) \in Seq(Frames) /\ Len(Stepped(r, c)) = Len(frames[r])
      /\ Stepped(r, c)[1] = [frames[r][1] EXCEPT !.last = c]
      /\ \A i \in 1 .. Len(frames[r]) : i # 1 => Stepped(r, c)[i] = frames[r][i]
  BY SteppedTypes
<1>2. frames \in [Ranks -> Seq(Frames)]
  BY DEF Types
<1>3. /\ frames' \in [Ranks -> Seq(Frames)]
      /\ \A q \in Ranks \ {r} : frames'[q] = frames[q]
      /\ frames'[r] = Stepped(r, c)
  BY <1>1, <1>2 DEF StepOver
<1>4. Stepped(r, c)[1].node = frames[r][1].node
  BY <1>1, TopTypes DEF Frames
<1>. QED BY <1>1, <1>3, <1>4 DEF Stays

LEMMA StepsInto ==
  ASSUME Types, PathInv, NEW r \in Ranks, NEW c \in Nodes, NEW frame \in Frames,
         StepInto(r, c, frame), frame.node = c, program.kernel.parent[c] = frames[r][1].node
  PROVE  /\ Enters(r, c)
         /\ frames'[r][1] = frame
         /\ frames'[r][2] = [frames[r][1] EXCEPT !.last = c]
<1>. DEFINE s == Stepped(r, c)
<1>1. /\ s \in Seq(Frames) /\ Len(s) = Len(frames[r])
      /\ s[1] = [frames[r][1] EXCEPT !.last = c]
      /\ \A i \in 1 .. Len(s) : i # 1 => s[i] = frames[r][i]
  BY SteppedTypes
<1>2. frames \in [Ranks -> Seq(Frames)] /\ Len(frames[r]) \in Nat /\ Len(frames[r]) >= 1
  BY TopTypes DEF Types
<1>. DEFINE t == << frame >> \o s
<1>3. /\ t \in Seq(Frames)
      /\ Len(t) = Len(s) + 1
      /\ t[1] = frame
      /\ \A i \in 1 .. Len(t) : i # 1 => i - 1 \in 1 .. Len(s) /\ t[i] = s[i - 1]
  <2>. HIDE DEF s
  <2>. QED BY <1>1, PutFirst
<1>4. /\ frames' \in [Ranks -> Seq(Frames)]
      /\ \A q \in Ranks \ {r} : frames'[q] = frames[q]
      /\ frames'[r] = t
  <2>1. frames' = [frames EXCEPT ![r] = t]
    BY DEF StepInto
  <2>. HIDE DEF t
  <2>. QED BY <1>2, <1>3, <2>1
<1>5. s[1].node = frames[r][1].node
  BY <1>1, TopTypes DEF Frames
<1>. HIDE DEF s, t
<1>6. t[2] = s[1]
  BY <1>1, <1>2, <1>3
<1>7. ASSUME NEW i \in 1 .. Len(t), i > 2 PROVE t[i] = frames[r][i - 1]
  <2>1. i - 1 \in 1 .. Len(s) /\ t[i] = s[i - 1]
    BY <1>3, <1>7
  <2>2. i - 1 # 1
    BY <1>2, <1>3, <1>7
  <2>. QED BY <1>1, <2>1, <2>2
<1>. QED BY <1>1, <1>3, <1>4, <1>5, <1>6, <1>7 DEF Enters

LEMMA StepsOut ==
  ASSUME Types, PathInv, NEW r \in Ranks, Leave(r)
  PROVE  Leaves(r)
<1>1. frames \in [Ranks -> Seq(Frames)] /\ Len(frames[r]) >= 1
  BY TopTypes DEF Types
<1>2. /\ Tail(frames[r]) \in Seq(Frames) /\ Len(Tail(frames[r])) = Len(frames[r]) - 1
      /\ \A i \in 1 .. Len(frames[r]) - 1 : Tail(frames[r])[i] = frames[r][i + 1]
  BY <1>1, DropFirst
<1>3. /\ frames' \in [Ranks -> Seq(Frames)]
      /\ \A q \in Ranks \ {r} : frames'[q] = frames[q]
      /\ frames'[r] = Tail(frames[r])
  BY <1>1, <1>2 DEF Leave
<1>. QED BY <1>2, <1>3 DEF Leaves

\* Another iteration of a loop.
LEMMA StepsBack ==
  ASSUME Types, PathInv, NEW r \in Ranks, NEW next \in Nat,
         frames' = [frames EXCEPT ![r][1].last = 0, ![r][1].round = next]
  PROVE  /\ Stays(r)
         /\ frames'[r][1].last = 0 /\ frames'[r][1].round = next
         /\ frames'[r][1].count = frames[r][1].count
         /\ frames'[r][1].start = frames[r][1].start
<1>. DEFINE f == frames[r][1]
            e == [f EXCEPT !.last = 0, !.round = next]
            s == [frames[r] EXCEPT ![1] = e]
<1>1. /\ frames \in [Ranks -> Seq(Frames)] /\ frames[r] \in Seq(Frames)
      /\ Len(frames[r]) \in Nat /\ 1 \in 1 .. Len(frames[r]) /\ f \in Frames
  BY TopTypes DEF Types
<1>2. /\ e \in Frames /\ e.node = f.node /\ e.last = 0 /\ e.round = next
      /\ e.count = f.count /\ e.start = f.start
  BY <1>1 DEF Frames
<1>. HIDE DEF e
<1>3. /\ s \in Seq(Frames) /\ Len(s) = Len(frames[r]) /\ s[1] = e
      /\ \A i \in 1 .. Len(frames[r]) : i # 1 => s[i] = frames[r][i]
  BY <1>1, <1>2
<1>4. frames' = [frames EXCEPT ![r] = s]
  BY <1>1 DEF e
<1>. HIDE DEF s
<1>5. /\ frames' \in [Ranks -> Seq(Frames)]
      /\ \A q \in Ranks \ {r} : frames'[q] = frames[q]
      /\ frames'[r] = s
  <2>1. frames \in [Ranks -> Seq(Frames)] /\ s \in Seq(Frames)
    BY <1>1, <1>3
  <2>. QED BY <1>4, <2>1
<1>. QED BY <1>2, <1>3, <1>5 DEF Stays

-------------------------------------------------------------------------------
(* Every step is one of the walk of one rank: it stays in the statement it is in, *)
(* enters one or leaves one, with the groups and core time events around it.      *)

Keeps(q) == groupStack'[q] = groupStack[q] /\ Len(coreTimeStack'[q]) = Len(coreTimeStack[q])
Sound(r, f) == f.last \in Nodes \cup {0} /\ f.round < f.count /\ f.start <= clock'[r]

WalkStays(r) ==
  /\ Stays(r)
  /\ Sound(r, frames'[r][1])
  /\ Keeps(r)

WalkEnters(r, c) ==
  /\ Enters(r, c)
  /\ Sound(r, frames'[r][1]) /\ Sound(r, frames'[r][2])
  /\ IF Stmt(c).type = "GROUP"
     THEN /\ Stmt(c).arg \in GroupNames /\ r \in Members[Stmt(c).arg]
          /\ groupStack'[r] = << Stmt(c).arg >> \o groupStack[r]
     ELSE groupStack'[r] = groupStack[r]
  /\ Len(coreTimeStack'[r]) =
       Len(coreTimeStack[r]) + (IF Stmt(c).type = "CTIME" THEN 1 ELSE 0)
  /\ Stmt(c).type = "MASTER" => IsMaster(r, ActiveComm(r))

WalkLeaves(r) ==
  /\ Leaves(r)
  /\ Top(r).node # 0
  /\ groupStack'[r] = IF Stmt(Top(r).node).type = "GROUP" THEN Tail(groupStack[r])
                                                          ELSE groupStack[r]
  /\ coreTimeStack'[r] = IF Stmt(Top(r).node).type = "CTIME" THEN Tail(coreTimeStack[r])
                                                             ELSE coreTimeStack[r]

Walk(r) ==
  /\ program' = program
  /\ \A q \in Ranks \ {r} : Keeps(q)
  /\ \A q \in Ranks : clock[q] <= clock'[q]
  /\ WalkStays(r) \/ (\E c \in Nodes : WalkEnters(r, c)) \/ WalkLeaves(r)

Safe == Types /\ PathInv /\ FrameInv

\* The call on top, before and after a step over a statement.
LEMMA SoundTop ==
  ASSUME Safe, NEW r \in Ranks, NEW c \in Nodes, clock[r] <= clock'[r], clock'[r] \in Nat
  PROVE  Sound(r, frames[r][1]) /\ Sound(r, [frames[r][1] EXCEPT !.last = c])
<1>1. /\ frames[r][1] \in Frames /\ 1 \in 1 .. Len(frames[r])
      /\ clock[r] \in Nat
  BY TopTypes DEF Safe, Types
<1>2. /\ frames[r][1].last \in Nodes \cup {0}
      /\ frames[r][1].round < frames[r][1].count
      /\ frames[r][1].start <= clock[r]
  BY <1>1 DEF Safe, FrameInv
<1>3. /\ [frames[r][1] EXCEPT !.last = c].last = c
      /\ [frames[r][1] EXCEPT !.last = c].round = frames[r][1].round
      /\ [frames[r][1] EXCEPT !.last = c].count = frames[r][1].count
      /\ [frames[r][1] EXCEPT !.last = c].start = frames[r][1].start
  BY <1>1 DEF Frames
<1>4. frames[r][1].start \in Nat
  BY <1>1 DEF Frames
<1>. QED BY <1>1, <1>2, <1>3, <1>4 DEF Sound

\* Time that does not go back.
LEMMA Clocks ==
  ASSUME Types, NEW r \in Ranks, Tick(r) \/ clock' = clock
  PROVE  /\ clock' \in [Ranks -> Nat]
         /\ \A q \in Ranks : clock[q] <= clock'[q]
<1>1. clock \in [Ranks -> Nat]
  BY DEF Types
<1>2. \A q \in Ranks : clock[q] \in Nat /\ clock[q] <= clock[q] /\ clock[q] <= clock[q] + 1
  BY <1>1
<1>3. CASE Tick(r)
  <2>1. clock' \in [Ranks -> Nat]
    BY <1>1, <1>2, <1>3 DEF Tick
  <2>2. \A q \in Ranks : clock'[q] = IF q = r THEN clock[r] + 1 ELSE clock[q]
    BY <1>1, <1>3 DEF Tick
  <2>. QED BY <1>2, <2>1, <2>2
<1>4. CASE clock' = clock
  BY <1>1, <1>2, <1>4
<1>. QED BY <1>3, <1>4

\* A step over a statement, and one into a block, that leave the stacks as they are.
LEMMA WalksOver ==
  ASSUME Safe, NEW r \in Ranks, NEW c \in Nodes, StepOver(r, c), program' = program,
         Tick(r) \/ clock' = clock, \A q \in Ranks : Keeps(q)
  PROVE  Walk(r)
<1>1. Stays(r) /\ frames'[r][1] = [frames[r][1] EXCEPT !.last = c]
  BY StepsOver DEF Safe
<1>2. /\ clock' \in [Ranks -> Nat]
      /\ \A q \in Ranks : clock[q] <= clock'[q]
  BY Clocks DEF Safe
<1>3. Sound(r, frames'[r][1])
  BY <1>1, <1>2, SoundTop
<1>. QED BY <1>1, <1>2, <1>3 DEF Walk, WalkStays

LEMMA WalksIdle ==
  ASSUME Safe, NEW r \in Ranks, frames' = frames, program' = program,
         clock' = clock, \A q \in Ranks : Keeps(q)
  PROVE  Walk(r)
<1>1. Stays(r)
  BY DEF Stays, Safe, Types
<1>2. /\ clock' \in [Ranks -> Nat]
      /\ \A q \in Ranks : clock[q] <= clock'[q]
  BY Clocks DEF Safe
<1>3. frames[r][1] \in Frames /\ 1 \in 1 .. Len(frames[r])
  BY TopTypes DEF Safe
<1>4. Sound(r, frames'[r][1])
  BY <1>2, <1>3 DEF Sound, Safe, FrameInv
<1>. QED BY <1>1, <1>2, <1>4 DEF Walk, WalkStays

LEMMA WalksInto ==
  ASSUME Safe, NEW r \in Ranks, NEW c \in Nodes, NEW type, At(r, c, type),
         NEW count \in Int, count > 0, NEW start \in Nat, start <= clock[r],
         StepInto(r, c, Frame(c, count, start)), program' = program,
         Tick(r) \/ clock' = clock
  PROVE  /\ Enters(r, c)
         /\ Sound(r, frames'[r][1]) /\ Sound(r, frames'[r][2])
         /\ \A q \in Ranks : clock[q] <= clock'[q]
<1>. DEFINE f == Frame(c, count, start)
<1>1. c \in Nat /\ program.kernel.parent[c] = frames[r][1].node
  BY KernelTypes, AtTypes DEF Safe
<1>2. /\ f \in Frames /\ f.node = c /\ f.last = 0 /\ f.round = 0
      /\ f.count = count /\ f.start = start
  BY <1>1 DEF Frame, Frames
<1>3. /\ Enters(r, c)
      /\ frames'[r][1] = f
      /\ frames'[r][2] = [frames[r][1] EXCEPT !.last = c]
  <2>. HIDE DEF f
  <2>. QED BY <1>1, <1>2, StepsInto DEF Safe, f
<1>4. /\ clock' \in [Ranks -> Nat]
      /\ \A q \in Ranks : clock[q] <= clock'[q]
  BY Clocks DEF Safe
<1>5. Sound(r, frames'[r][2])
  BY <1>3, <1>4, SoundTop
<1>6. clock[r] \in Nat /\ clock'[r] \in Nat
  BY <1>4 DEF Safe, Types
<1>7. Sound(r, f)
  BY <1>2, <1>4, <1>6 DEF Sound
<1>. QED BY <1>3, <1>4, <1>5, <1>7

LEMMA WalksOut ==
  ASSUME Safe, NEW r \in Ranks, NEW type, AtEnd(r, type), Leave(r), program' = program,
         Tick(r) \/ clock' = clock, \A q \in Ranks \ {r} : Keeps(q),
         groupStack'[r] = IF type = "GROUP" THEN Tail(groupStack[r]) ELSE groupStack[r],
         coreTimeStack'[r] = IF type = "CTIME" THEN Tail(coreTimeStack[r]) ELSE coreTimeStack[r]
  PROVE  Walk(r)
<1>1. Leaves(r)
  BY StepsOut DEF Safe
<1>2. \A q \in Ranks : clock[q] <= clock'[q]
  BY Clocks DEF Safe
<1>3. Top(r).node # 0 /\ Stmt(Top(r).node).type = type
  BY DEF AtEnd
<1>. QED BY <1>1, <1>2, <1>3 DEF Walk, WalkLeaves

-------------------------------------------------------------------------------

LEMMA WalkRepeat ==
  ASSUME Safe, NEW r \in Ranks, NEW c \in Nodes, Repeat(r, c)
  PROVE  Walk(r)
<1>1. /\ At(r, c, "REPEAT") /\ program' = program /\ clock' = clock
      /\ \A q \in Ranks : Keeps(q)
      /\ groupStack' = groupStack /\ coreTimeStack' = coreTimeStack
  BY DEF Repeat, timingVars, Keeps
<1>2. CASE Times(r, c) > 0
  <2>1. StepInto(r, c, Frame(c, Times(r, c), 0))
    BY <1>2 DEF Repeat
  <2>2. Times(r, c) \in Int
    BY KernelTypes DEF Safe, Times, TimesOf, Ranks
  <2>3. clock[r] \in Nat /\ 0 <= clock[r]
    BY DEF Safe, Types
  <2>4. /\ Enters(r, c)
        /\ Sound(r, frames'[r][1]) /\ Sound(r, frames'[r][2])
        /\ \A q \in Ranks : clock[q] <= clock'[q]
    BY <1>1, <1>2, <2>1, <2>2, <2>3, WalksInto
  <2>5. Stmt(c).type = "REPEAT"
    BY <1>1, AtTypes DEF Safe
  <2>6. Len(coreTimeStack[r]) \in Nat
    BY DEF Safe, Types
  <2>7. WalkEnters(r, c)
    BY <1>1, <2>4, <2>5, <2>6 DEF WalkEnters
  <2>. QED BY <1>1, <2>4, <2>7 DEF Walk
<1>3. CASE ~(Times(r, c) > 0)
  <2>1. StepOver(r, c)
    BY <1>3 DEF Repeat
  <2>. QED BY <1>1, <2>1, WalksOver
<1>. QED BY <1>2, <1>3

LEMMA WalkRepeatEnd ==
  ASSUME Safe, NEW r \in Ranks, RepeatEnd(r)
  PROVE  Walk(r)
<1>. DEFINE next == Top(r).round + 1
<1>1. /\ AtEnd(r, "REPEAT") /\ program' = program /\ clock' = clock
      /\ \A q \in Ranks : Keeps(q)
      /\ groupStack' = groupStack /\ coreTimeStack' = coreTimeStack
  BY DEF RepeatEnd, timingVars, Keeps
<1>2. Top(r) = frames[r][1] /\ frames[r][1] \in Frames /\ 1 \in 1 .. Len(frames[r])
  BY TopTypes DEF Safe
<1>3. CASE next < Top(r).count
  <2>1. next \in Nat
    BY <1>2 DEF Frames
  <2>2. frames' = [frames EXCEPT ![r][1].last = 0, ![r][1].round = next]
    BY <1>3 DEF RepeatEnd
  <2>3. /\ Stays(r)
        /\ frames'[r][1].last = 0 /\ frames'[r][1].round = next
        /\ frames'[r][1].count = frames[r][1].count
        /\ frames'[r][1].start = frames[r][1].start
    <3>. HIDE DEF next
    <3>. QED BY <2>1, <2>2, StepsBack DEF Safe
  <2>4. frames[r][1].start <= clock[r]
    BY <1>2 DEF Safe, FrameInv
  <2>5. Sound(r, frames'[r][1])
    BY <1>1, <1>2, <1>3, <2>3, <2>4 DEF Sound
  <2>6. \A q \in Ranks : clock[q] <= clock'[q]
    BY <1>1, Clocks DEF Safe
  <2>. QED BY <1>1, <2>3, <2>5, <2>6 DEF Walk, WalkStays
<1>4. CASE ~(next < Top(r).count)
  <2>1. Leave(r)
    BY <1>4 DEF RepeatEnd
  <2>. QED BY <1>1, <2>1, WalksOut
<1>. QED BY <1>3, <1>4

LEMMA WalkGroup ==
  ASSUME Safe, NEW r \in Ranks, NEW c \in Nodes, Group(r, c)
  PROVE  Walk(r)
<1>. DEFINE g == Stmt(c).arg
<1>1. /\ At(r, c, "GROUP") /\ g \in GroupNames /\ program' = program /\ clock' = clock
      /\ coreTimeStack' = coreTimeStack
  BY DEF Group, timingVars
<1>2. groupStack \in [Ranks -> Seq(GroupNames)] /\ Len(coreTimeStack[r]) \in Nat
  BY DEF Safe, Types
<1>3. CASE r \in Members[g]
  <2>1. /\ groupStack' = [groupStack EXCEPT ![r] = << g >> \o @]
        /\ StepInto(r, c, Frame(c, 1, 0))
    BY <1>3 DEF Group
  <2>2. clock[r] \in Nat /\ 0 <= clock[r]
    BY DEF Safe, Types
  <2>3. /\ Enters(r, c)
        /\ Sound(r, frames'[r][1]) /\ Sound(r, frames'[r][2])
        /\ \A q \in Ranks : clock[q] <= clock'[q]
    BY <1>1, <2>1, <2>2, WalksInto
  <2>4. Stmt(c).type = "GROUP"
    BY <1>1, AtTypes DEF Safe
  <2>5. /\ groupStack'[r] = << g >> \o groupStack[r]
        /\ \A q \in Ranks \ {r} : groupStack'[q] = groupStack[q]
    BY <1>2, <2>1
  <2>6. WalkEnters(r, c)
    BY <1>1, <1>2, <1>3, <2>3, <2>4, <2>5 DEF WalkEnters
  <2>. QED BY <1>1, <2>3, <2>5, <2>6 DEF Walk, Keeps
<1>4. CASE r \notin Members[g]
  <2>1. StepOver(r, c) /\ groupStack' = groupStack
    BY <1>4 DEF Group
  <2>. QED BY <1>1, <2>1, WalksOver DEF Keeps
<1>. QED BY <1>3, <1>4

LEMMA WalkGroupEnd ==
  ASSUME Safe, NEW r \in Ranks, GroupEnd(r)
  PROVE  Walk(r)
<1>1. /\ AtEnd(r, "GROUP") /\ Leave(r) /\ program' = program /\ clock' = clock
      /\ groupStack' = [groupStack EXCEPT ![r] = Tail(@)]
      /\ coreTimeStack' = coreTimeStack
  BY DEF GroupEnd, timingVars
<1>2. groupStack \in [Ranks -> Seq(GroupNames)]
  BY DEF Safe, Types
<1>3. /\ groupStack'[r] = Tail(groupStack[r])
      /\ \A q \in Ranks \ {r} : Keeps(q)
  BY <1>1, <1>2 DEF Keeps
<1>. QED BY <1>1, <1>3, WalksOut

LEMMA WalkMaster ==
  ASSUME Safe, NEW r \in Ranks, NEW c \in Nodes, Master(r, c)
  PROVE  Walk(r)
<1>1. /\ At(r, c, "MASTER") /\ program' = program /\ clock' = clock
      /\ \A q \in Ranks : Keeps(q)
      /\ groupStack' = groupStack /\ coreTimeStack' = coreTimeStack
  BY DEF Master, timingVars, Keeps
<1>2. CASE IsMaster(r, ActiveComm(r))
  <2>1. StepInto(r, c, Frame(c, 1, 0))
    BY <1>2 DEF Master
  <2>2. clock[r] \in Nat /\ 0 <= clock[r] /\ Len(coreTimeStack[r]) \in Nat
    BY DEF Safe, Types
  <2>3. /\ Enters(r, c)
        /\ Sound(r, frames'[r][1]) /\ Sound(r, frames'[r][2])
        /\ \A q \in Ranks : clock[q] <= clock'[q]
    BY <1>1, <2>1, <2>2, WalksInto, SMTT(30)
  <2>4. Stmt(c).type = "MASTER"
    BY <1>1, AtTypes DEF Safe
  <2>5. WalkEnters(r, c)
    BY <1>1, <1>2, <2>2, <2>3, <2>4 DEF WalkEnters
  <2>. QED BY <1>1, <2>3, <2>5 DEF Walk
<1>3. CASE ~IsMaster(r, ActiveComm(r))
  <2>1. StepOver(r, c)
    BY <1>3 DEF Master
  <2>. QED BY <1>1, <2>1, WalksOver
<1>. QED BY <1>2, <1>3

LEMMA WalkMasterEnd ==
  ASSUME Safe, NEW r \in Ranks, MasterEnd(r)
  PROVE  Walk(r)
<1>1. /\ AtEnd(r, "MASTER") /\ Leave(r) /\ program' = program /\ clock' = clock
      /\ \A q \in Ranks : Keeps(q)
      /\ groupStack' = groupStack /\ coreTimeStack' = coreTimeStack
  BY DEF MasterEnd, timingVars, Keeps
<1>. QED BY <1>1, WalksOut

LEMMA WalkTime ==
  ASSUME Safe, NEW r \in Ranks, NEW c \in Nodes, Time(r, c)
  PROVE  Walk(r)
<1>1. /\ At(r, c, "TIME") /\ program' = program /\ Tick(r)
      /\ StepInto(r, c, Frame(c, 1, clock[r]))
      /\ \A q \in Ranks : Keeps(q)
      /\ groupStack' = groupStack /\ coreTimeStack' = coreTimeStack
  BY DEF Time, Keeps
<1>2. clock[r] \in Nat /\ clock[r] <= clock[r] /\ Len(coreTimeStack[r]) \in Nat
  BY DEF Safe, Types
<1>3. /\ Enters(r, c)
      /\ Sound(r, frames'[r][1]) /\ Sound(r, frames'[r][2])
      /\ \A q \in Ranks : clock[q] <= clock'[q]
  BY <1>1, <1>2, WalksInto
<1>4. Stmt(c).type = "TIME"
  BY <1>1, AtTypes DEF Safe
<1>5. WalkEnters(r, c)
  BY <1>1, <1>2, <1>3, <1>4 DEF WalkEnters
<1>. QED BY <1>1, <1>3, <1>5 DEF Walk

LEMMA WalkTimeEnd ==
  ASSUME Safe, NEW r \in Ranks, TimeEnd(r)
  PROVE  Walk(r)
<1>1. /\ AtEnd(r, "TIME") /\ Leave(r) /\ program' = program /\ Tick(r)
      /\ \A q \in Ranks : Keeps(q)
      /\ groupStack' = groupStack /\ coreTimeStack' = coreTimeStack
  BY DEF TimeEnd, Keeps
<1>. QED BY <1>1, WalksOut

\* A core time event when it begins.
LEMMA EnteredTypes ==
  ASSUME Types, NEW r \in Ranks
  PROVE  /\ Entered(r, coreTimeId[r]) \in CoreEvents
         /\ Entered(r, coreTimeId[r]).event.id = coreTimeId[r]
         /\ Entered(r, coreTimeId[r]).start = clock[r]
<1>1. clock[r] \in Nat /\ coreTimeId[r] \in Nat /\ Len(log[r]) \in Nat
  BY DEF Types
<1>. QED BY <1>1 DEF Entered, NewEvent, NoTime, CoreEvents, CoreTimes

LEMMA BeginsEvent ==
  ASSUME Types, NEW r \in Ranks, NEW c, CTime(r, c)
  PROVE  /\ coreTimeStack' \in [Ranks -> Seq(CoreEvents)]
         /\ coreTimeStack'[r] = << Entered(r, coreTimeId[r]) >> \o coreTimeStack[r]
         /\ Len(coreTimeStack'[r]) = Len(coreTimeStack[r]) + 1
         /\ \A q \in Ranks \ {r} : coreTimeStack'[q] = coreTimeStack[q]
<1>1. coreTimeStack \in [Ranks -> Seq(CoreEvents)]
  BY DEF Types
<1>. DEFINE e == Entered(r, coreTimeId[r])
            t == << e >> \o coreTimeStack[r]
<1>2. e \in CoreEvents
  BY EnteredTypes
<1>3. coreTimeStack' = [coreTimeStack EXCEPT ![r] = t]
  BY DEF CTime
<1>4. t \in Seq(CoreEvents) /\ Len(t) = Len(coreTimeStack[r]) + 1
  <2>. HIDE DEF e
  <2>. QED BY <1>1, <1>2, PutFirst
<1>. HIDE DEF t
<1>5. /\ coreTimeStack' \in [Ranks -> Seq(CoreEvents)]
      /\ coreTimeStack'[r] = t
      /\ \A q \in Ranks \ {r} : coreTimeStack'[q] = coreTimeStack[q]
  BY <1>1, <1>3, <1>4
<1>. QED BY <1>4, <1>5 DEF t

LEMMA WalkCTime ==
  ASSUME Safe, NEW r \in Ranks, NEW c \in Nodes, CTime(r, c)
  PROVE  Walk(r)
<1>1. /\ At(r, c, "CTIME") /\ program' = program /\ Tick(r)
      /\ StepInto(r, c, Frame(c, 1, clock[r]))
      /\ groupStack' = groupStack
  BY DEF CTime
<1>2. clock[r] \in Nat /\ clock[r] <= clock[r]
  BY DEF Safe, Types
<1>3. /\ Enters(r, c)
      /\ Sound(r, frames'[r][1]) /\ Sound(r, frames'[r][2])
      /\ \A q \in Ranks : clock[q] <= clock'[q]
  BY <1>1, <1>2, WalksInto
<1>4. Stmt(c).type = "CTIME"
  BY <1>1, AtTypes DEF Safe
<1>5. /\ Len(coreTimeStack'[r]) = Len(coreTimeStack[r]) + 1
      /\ \A q \in Ranks \ {r} : Keeps(q)
  BY <1>1, BeginsEvent DEF Safe, Keeps
<1>6. WalkEnters(r, c)
  BY <1>1, <1>3, <1>4, <1>5 DEF WalkEnters
<1>. QED BY <1>1, <1>3, <1>5, <1>6 DEF Walk

LEMMA WalkCTimeEnd ==
  ASSUME Safe, NEW r \in Ranks, CTimeEnd(r)
  PROVE  Walk(r)
<1>1. /\ AtEnd(r, "CTIME") /\ Leave(r) /\ program' = program /\ Tick(r)
      /\ groupStack' = groupStack
      /\ coreTimeStack' = [coreTimeStack EXCEPT ![r] = Tail(@)]
  BY DEF CTimeEnd
<1>2. coreTimeStack \in [Ranks -> Seq(CoreEvents)]
  BY DEF Safe, Types
<1>3. /\ coreTimeStack'[r] = Tail(coreTimeStack[r])
      /\ \A q \in Ranks \ {r} : Keeps(q)
  BY <1>1, <1>2 DEF Keeps
<1>. QED BY <1>1, <1>3, WalksOut

\* A call that is accounted for in an event, and one dumped into all active ones.
LEMMA AccountedTypes ==
  ASSUME NEW entry \in CoreEvents, NEW coreTime \in CoreTimes
  PROVE  /\ Accounted(entry, coreTime) \in CoreEvents
         /\ Accounted(entry, coreTime).event.id = entry.event.id
         /\ Accounted(entry, coreTime).start = entry.start
<1>. DEFINE e == entry.event
<1>1. /\ e \in [id : Nat, avgCoreTime : CoreTimes, minCoreTime : CoreTimes,
                maxCoreTime : CoreTimes, numCalls : Nat, minCallTime : Nat, maxCallTime : Nat]
      /\ entry.start \in Nat /\ entry.before \in Nat /\ entry.until \in Nat
  BY DEF CoreEvents
<1>2. /\ e.id \in Nat /\ e.avgCoreTime \in CoreTimes /\ e.minCoreTime \in CoreTimes
      /\ e.maxCoreTime \in CoreTimes /\ e.numCalls \in Nat
      /\ e.minCallTime \in Nat /\ e.maxCallTime \in Nat
  BY <1>1
<1>3. SlowestOf(e, coreTime) \in CoreTimes /\ FastestOf(e, coreTime) \in CoreTimes
  BY <1>2 DEF SlowestOf, FastestOf
<1>4. [time |-> e.avgCoreTime.time + coreTime.time,
       data |-> e.avgCoreTime.data + coreTime.data] \in CoreTimes
  BY <1>2 DEF CoreTimes
<1>5. coreTime.time \in Nat
  BY DEF CoreTimes
<1>6. /\ Account(e, coreTime) \in [id : Nat, avgCoreTime : CoreTimes, minCoreTime : CoreTimes,
                maxCoreTime : CoreTimes, numCalls : Nat, minCallTime : Nat, maxCallTime : Nat]
      /\ Account(e, coreTime).id = e.id
  BY <1>2, <1>3, <1>4, <1>5 DEF Account
<1>7. Accounted(entry, coreTime) = [entry EXCEPT !.event = Account(e, coreTime)]
  BY DEF Accounted
<1>. HIDE DEF e
<1>. QED BY <1>1, <1>6, <1>7 DEF CoreEvents, e

LEMMA DumpTypes ==
  ASSUME Types, NEW r \in Ranks, NEW coreTime \in CoreTimes, DumpCoreTime(r, coreTime)
  PROVE  /\ coreTimeStack' \in [Ranks -> Seq(CoreEvents)]
         /\ \A q \in Ranks \ {r} : coreTimeStack'[q] = coreTimeStack[q]
         /\ Len(coreTimeStack'[r]) = Len(coreTimeStack[r])
         /\ \A i \in 1 .. Len(coreTimeStack[r]) :
              /\ coreTimeStack'[r][i].event.id = coreTimeStack[r][i].event.id
              /\ coreTimeStack'[r][i].start = coreTimeStack[r][i].start
<1>. DEFINE s == coreTimeStack[r]
            t == [i \in DOMAIN s |-> Accounted(s[i], coreTime)]
<1>1. coreTimeStack \in [Ranks -> Seq(CoreEvents)] /\ s \in Seq(CoreEvents)
  BY DEF Types
<1>2. coreTimeStack' = [coreTimeStack EXCEPT ![r] = t]
  BY DEF DumpCoreTime
<1>3. Len(s) \in Nat /\ DOMAIN s = 1 .. Len(s) /\ \A i \in 1 .. Len(s) : s[i] \in CoreEvents
  BY <1>1
<1>4. \A i \in 1 .. Len(s) : /\ Accounted(s[i], coreTime) \in CoreEvents
                             /\ Accounted(s[i], coreTime).event.id = s[i].event.id
                             /\ Accounted(s[i], coreTime).start = s[i].start
  BY <1>3, AccountedTypes
<1>. HIDE DEF s
<1>5. /\ t \in Seq(CoreEvents) /\ Len(t) = Len(s)
      /\ \A i \in 1 .. Len(s) : t[i] = Accounted(s[i], coreTime)
  BY <1>3, <1>4
<1>. HIDE DEF t
<1>6. /\ coreTimeStack' \in [Ranks -> Seq(CoreEvents)]
      /\ coreTimeStack'[r] = t
      /\ \A q \in Ranks \ {r} : coreTimeStack'[q] = coreTimeStack[q]
  BY <1>1, <1>2, <1>5
<1>. QED BY <1>4, <1>5, <1>6 DEF s

LEMMA OutcomeTypes ==
  ASSUME NEW type \in IOTypes, NEW call \in Outcomes(type)
  PROVE  call.coreTime \in CoreTimes
BY DEF IOTypes, Outcomes, Calls, CoreTimes

\* What a counted call does to the core time events and the log.
LEMMA CountTypes ==
  ASSUME Types, NEW r \in Ranks, NEW type \in IOTypes, Count(r, type)
  PROVE  /\ coreTimeStack' \in [Ranks -> Seq(CoreEvents)]
         /\ log' \in [Ranks -> Seq(CoreTimes)]
         /\ \A q \in Ranks : Len(coreTimeStack'[q]) = Len(coreTimeStack[q])
         /\ \A q \in Ranks : \A i \in 1 .. Len(coreTimeStack[q]) :
              /\ coreTimeStack'[q][i].event.id = coreTimeStack[q][i].event.id
              /\ coreTimeStack'[q][i].start = coreTimeStack[q][i].start
<1>1. coreTimeStack \in [Ranks -> Seq(CoreEvents)] /\ log \in [Ranks -> Seq(CoreTimes)]
  BY DEF Types
<1>2. PICK call \in Outcomes(type) :
        IF type \in TimedTypes
        THEN /\ DumpCoreTime(r, call.coreTime)
             /\ log' = [log EXCEPT ![r] = Append(@, call.coreTime)]
        ELSE coreTimeStack' = coreTimeStack /\ log' = log
  BY DEF Count
<1>3. call.coreTime \in CoreTimes
  BY OutcomeTypes
<1>4. CASE type \in TimedTypes
  <2>1. /\ DumpCoreTime(r, call.coreTime)
        /\ log' = [log EXCEPT ![r] = Append(@, call.coreTime)]
    BY <1>2, <1>4
  <2>2. log' \in [Ranks -> Seq(CoreTimes)]
    BY <1>1, <1>3, <2>1
  <2>3. /\ coreTimeStack' \in [Ranks -> Seq(CoreEvents)]
        /\ \A q \in Ranks \ {r} : coreTimeStack'[q] = coreTimeStack[q]
        /\ Len(coreTimeStack'[r]) = Len(coreTimeStack[r])
        /\ \A i \in 1 .. Len(coreTimeStack[r]) :
              /\ coreTimeStack'[r][i].event.id = coreTimeStack[r][i].event.id
              /\ coreTimeStack'[r][i].start = coreTimeStack[r][i].start
    BY <1>3, <2>1, DumpTypes
  <2>. QED BY <2>2, <2>3
<1>5. CASE type \notin TimedTypes
  BY <1>1, <1>2, <1>5
<1>. QED BY <1>4, <1>5

LEMMA LocalCounts ==
  ASSUME NEW r, NEW c, LocalIO(r, c)
  PROVE  \E type \in IOTypes : At(r, c, type) /\ Count(r, type)
BY DEF LocalIO, IOTypes

LEMMA ParallelCounts ==
  ASSUME NEW r \in Ranks, ParallelIOReturns(r)
  PROVE  mpi[r].op \in IOTypes /\ Count(r, mpi[r].op) /\ mpi[r] # NoCall
<1>1. mpi[r].op \in ParallelTypes /\ Count(r, mpi[r].op)
  BY DEF ParallelIOReturns
<1>2. mpi[r].op # "none"
  BY <1>1 DEF ParallelTypes, OpeningTypes, FileTypes
<1>. QED BY <1>1, <1>2 DEF ParallelTypes, OpeningTypes, FileTypes, IOTypes, NoCall

LEMMA WalkLocalIO ==
  ASSUME Safe, NEW r \in Ranks, NEW c \in Nodes, LocalIO(r, c)
  PROVE  Walk(r)
<1>1. StepOver(r, c) /\ Tick(r) /\ program' = program /\ groupStack' = groupStack
  BY DEF LocalIO
<1>2. \A q \in Ranks : Len(coreTimeStack'[q]) = Len(coreTimeStack[q])
  BY LocalCounts, CountTypes DEF Safe
<1>. QED BY <1>1, <1>2, WalksOver DEF Keeps

LEMMA WalkParallelIOReturns ==
  ASSUME Safe, CallInv, NEW r \in Ranks, ParallelIOReturns(r)
  PROVE  Walk(r)
<1>1. /\ StepOver(r, Current(r)) /\ Tick(r) /\ program' = program
      /\ groupStack' = groupStack
  BY DEF ParallelIOReturns
<1>2. \A q \in Ranks : Len(coreTimeStack'[q]) = Len(coreTimeStack[q])
  BY ParallelCounts, CountTypes DEF Safe
<1>3. Current(r) \in Nodes
  BY ParallelCounts, CurrentTypes DEF Safe
<1>. QED BY <1>1, <1>2, <1>3, WalksOver DEF Keeps

LEMMA WalkBarrierReturns ==
  ASSUME Safe, CallInv, NEW r \in Ranks, BarrierReturns(r)
  PROVE  Walk(r)
<1>1. /\ StepOver(r, Current(r)) /\ program' = program /\ clock' = clock
      /\ \A q \in Ranks : Keeps(q)
  BY DEF BarrierReturns, timingVars, Keeps
<1>2. Current(r) \in Nodes
  BY CurrentTypes DEF Safe, BarrierReturns, NoCall
<1>. QED BY <1>1, <1>2, WalksOver

\* Steps that move no rank.
Idle ==
  \/ \E r \in Ranks, c \in Nodes :
       RepeatNegative(r, c) \/ UndefinedGroup(r, c) \/ Barrier(r, c) \/ ParallelIO(r, c) \/ NoFile(r, c)
  \/ Complete
  \/ UNCHANGED allVars

LEMMA IdleSteps ==
  ASSUME Idle
  PROVE  /\ UNCHANGED << program, frames, vars, groupStack, timeId, coreTimeId, timeList,
                         coreTimeStack, coreTimeList, clock, succeed, fail, log >>
         /\ job' \in {job, "aborted"}
<1>1. ASSUME NEW r \in Ranks, NEW c \in Nodes, RepeatNegative(r, c) \/ UndefinedGroup(r, c) \/ NoFile(r, c)
      PROVE  Abort
  BY <1>1 DEF RepeatNegative, UndefinedGroup, NoFile
<1>2. ASSUME NEW r \in Ranks, NEW c \in Nodes, Barrier(r, c) \/ ParallelIO(r, c)
      PROVE  UNCHANGED << program, job, frames, vars, groupStack, timingVars, ioVars >>
  BY <1>2 DEF Barrier, ParallelIO
<1>3. Complete => UNCHANGED << program, job, frames, vars, groupStack, timingVars, ioVars >>
  BY DEF Complete, CollectiveCompletes
<1>4. \/ Abort
      \/ UNCHANGED << program, job, frames, vars, groupStack, timingVars, ioVars >>
      \/ UNCHANGED allVars
  BY <1>1, <1>2, <1>3 DEF Idle
<1>. QED BY <1>4 DEF Abort, allVars, timingVars, ioVars

LEMMA WalkIdle ==
  ASSUME Safe, NEW r \in Ranks, Idle
  PROVE  Walk(r)
BY IdleSteps, WalksIdle DEF Keeps

LEMMA WalkSkip ==
  ASSUME Safe, NEW r \in Ranks, NEW c \in Nodes, Local(r, c) \/ SkipIO(r, c)
  PROVE  Walk(r)
<1>1. /\ StepOver(r, c) /\ program' = program /\ clock' = clock
      /\ \A q \in Ranks : Keeps(q)
  BY DEF Local, SkipIO, timingVars, Keeps
<1>. QED BY <1>1, WalksOver

\* The steps by kind.
LEMMA Kinds ==
  ASSUME [Next]_allVars
  PROVE  \/ Idle
         \/ \E r \in Ranks :
              \/ \E c \in Nodes :
                   \/ Repeat(r, c) \/ Group(r, c) \/ Master(r, c) \/ Local(r, c) \/ Time(r, c)
                   \/ CTime(r, c) \/ LocalIO(r, c) \/ SkipIO(r, c)
              \/ RepeatEnd(r) \/ GroupEnd(r) \/ MasterEnd(r) \/ TimeEnd(r) \/ CTimeEnd(r)
              \/ BarrierReturns(r) \/ ParallelIOReturns(r)
BY Zenon DEF Next, Execute, Terminated, Idle

LEMMA EveryStepWalks ==
  ASSUME Safe, CallInv, [Next]_allVars
  PROVE  \E r \in Ranks : Walk(r)
<1>1. CASE Idle
  <2>1. 0 \in Ranks
    BY SizeAssumption DEF Ranks
  <2>. QED BY <1>1, <2>1, WalkIdle
<1>2. ASSUME NEW r \in Ranks, NEW c \in Nodes,
             \/ Repeat(r, c) \/ Group(r, c) \/ Master(r, c) \/ Local(r, c) \/ Time(r, c)
             \/ CTime(r, c) \/ LocalIO(r, c) \/ SkipIO(r, c)
      PROVE  Walk(r)
  BY <1>2, WalkRepeat, WalkGroup, WalkMaster, WalkSkip, WalkTime, WalkCTime, WalkLocalIO
<1>3. ASSUME NEW r \in Ranks,
             \/ RepeatEnd(r) \/ GroupEnd(r) \/ MasterEnd(r) \/ TimeEnd(r) \/ CTimeEnd(r)
             \/ BarrierReturns(r) \/ ParallelIOReturns(r)
      PROVE  Walk(r)
  BY <1>3, WalkRepeatEnd, WalkGroupEnd, WalkMasterEnd, WalkTimeEnd, WalkCTimeEnd,
     WalkBarrierReturns, WalkParallelIOReturns
<1>. QED BY <1>1, <1>2, <1>3, Kinds

-------------------------------------------------------------------------------
(* What every walk preserves.                                                   *)

LEMMA PathStep ==
  ASSUME Types, PathInv, NEW r \in Ranks, Walk(r)
  PROVE  PathInv'
<1>1. /\ Nodes' = Nodes /\ program' = program
      /\ \A c \in Nodes : program.kernel.parent[c] = program.kernel.parent[c]
  BY DEF Walk, Nodes
<1>2. /\ Len(frames[r]) \in Nat /\ Len(frames[r]) >= 1
      /\ frames[r][Len(frames[r])].node = 0
      /\ \A i \in 1 .. Len(frames[r]) - 1 :
           /\ frames[r][i].node \in Nodes
           /\ frames[r][i + 1].node = program.kernel.parent[frames[r][i].node]
  BY TopTypes DEF PathInv
<1>. DEFINE Path == /\ Len(frames'[r]) >= 1
                    /\ frames'[r][Len(frames'[r])].node = 0
                    /\ \A i \in 1 .. Len(frames'[r]) - 1 :
                         /\ frames'[r][i].node \in Nodes
                         /\ frames'[r][i + 1].node = program.kernel.parent[frames'[r][i].node]
<1>3. Path
  <2>1. CASE WalkStays(r)
    <3>1. /\ Len(frames'[r]) = Len(frames[r])
          /\ frames'[r][1].node = frames[r][1].node
          /\ \A i \in 1 .. Len(frames[r]) : i # 1 => frames'[r][i] = frames[r][i]
      BY <2>1 DEF WalkStays, Stays
    <3>2. \A i \in 1 .. Len(frames[r]) : frames'[r][i].node = frames[r][i].node
      BY <3>1
    <3>3. ASSUME NEW i \in 1 .. Len(frames'[r]) - 1
          PROVE  /\ frames'[r][i].node \in Nodes
                 /\ frames'[r][i + 1].node = program.kernel.parent[frames'[r][i].node]
      <4>1. i \in 1 .. Len(frames[r]) - 1 /\ i \in 1 .. Len(frames[r]) /\ i + 1 \in 1 .. Len(frames[r])
        BY <1>2, <3>1
      <4>. QED BY <1>2, <3>2, <4>1
    <3>4. Len(frames[r]) \in 1 .. Len(frames[r])
      BY <1>2
    <3>5. frames'[r][Len(frames'[r])].node = 0
      BY <1>2, <3>1, <3>2, <3>4
    <3>. QED BY <1>2, <3>1, <3>3, <3>5
  <2>2. ASSUME NEW c \in Nodes, WalkEnters(r, c)
        PROVE  Path
    <3>1. /\ Len(frames'[r]) = Len(frames[r]) + 1
          /\ frames'[r][1].node = c /\ program.kernel.parent[c] = frames[r][1].node
          /\ frames'[r][2].node = frames[r][1].node
          /\ \A i \in 1 .. Len(frames'[r]) : i > 2 => frames'[r][i] = frames[r][i - 1]
      BY <2>2 DEF WalkEnters, Enters
    <3>2. \A i \in 1 .. Len(frames'[r]) : i # 1 => frames'[r][i].node = frames[r][i - 1].node
      <4>1. ASSUME NEW i \in 1 .. Len(frames'[r]), i # 1
            PROVE  frames'[r][i].node = frames[r][i - 1].node
        <5>1. i = 2 \/ i > 2
          BY <1>2, <3>1, <4>1
        <5>2. i = 2 => i - 1 = 1
          OBVIOUS
        <5>. QED BY <3>1, <5>1, <5>2
      <4>. QED BY <4>1
    <3>3. ASSUME NEW i \in 1 .. Len(frames'[r]) - 1
          PROVE  /\ frames'[r][i].node \in Nodes
                 /\ frames'[r][i + 1].node = program.kernel.parent[frames'[r][i].node]
      <4>1. /\ i \in 1 .. Len(frames'[r]) /\ i + 1 \in 1 .. Len(frames'[r])
            /\ i + 1 # 1 /\ (i + 1) - 1 = i
        BY <1>2, <3>1, <3>3, SMTT(30)
      <4>2. frames'[r][i + 1].node = frames[r][i].node
        BY <3>2, <4>1
      <4>3. CASE i = 1
        BY <3>1, <4>2, <4>3
      <4>4. CASE i # 1
        <5>1. i - 1 \in 1 .. Len(frames[r]) - 1 /\ (i - 1) + 1 = i
          BY <1>2, <3>1, <3>3, <4>4
        <5>. QED BY <1>2, <3>2, <4>1, <4>2, <4>4, <5>1
      <4>. QED BY <4>3, <4>4
    <3>4. frames'[r][Len(frames'[r])].node = frames[r][Len(frames[r])].node
      BY <1>2, <3>1, <3>2
    <3>. QED BY <1>2, <3>1, <3>3, <3>4
  <2>3. CASE WalkLeaves(r)
    <3>1. /\ Len(frames'[r]) = Len(frames[r]) - 1
          /\ \A i \in 1 .. Len(frames[r]) - 1 : frames'[r][i] = frames[r][i + 1]
      BY <2>3 DEF WalkLeaves, Leaves
    <3>2. Len(frames[r]) >= 2
      BY <2>3, BelowRoot DEF WalkLeaves
    <3>3. ASSUME NEW i \in 1 .. Len(frames'[r]) - 1
          PROVE  /\ frames'[r][i].node \in Nodes
                 /\ frames'[r][i + 1].node = program.kernel.parent[frames'[r][i].node]
      <4>1. i \in 1 .. Len(frames[r]) - 1 /\ i + 1 \in 1 .. Len(frames[r]) - 1
        BY <1>2, <3>1
      <4>2. frames'[r][i] = frames[r][i + 1] /\ frames'[r][i + 1] = frames[r][(i + 1) + 1]
        BY <3>1, <4>1
      <4>. QED BY <1>2, <4>1, <4>2
    <3>4. frames'[r][Len(frames'[r])] = frames[r][Len(frames[r])]
      BY <1>2, <3>1, <3>2
    <3>. QED BY <1>2, <3>1, <3>2, <3>3, <3>4
  <2>. QED BY <2>1, <2>2, <2>3 DEF Walk
<1>4. \A q \in Ranks \ {r} : frames'[q] = frames[q]
  BY DEF Walk, WalkStays, WalkEnters, WalkLeaves, Stays, Enters, Leaves
<1>. QED BY <1>1, <1>3, <1>4, SMTT(30) DEF PathInv

LEMMA FrameStep ==
  ASSUME Safe, clock' \in [Ranks -> Nat], NEW r \in Ranks, Walk(r)
  PROVE  FrameInv'
<1>1. /\ Nodes' = Nodes
      /\ \A q \in Ranks \ {r} : frames'[q] = frames[q]
      /\ frames' \in [Ranks -> Seq(Frames)]
  BY DEF Walk, Nodes, WalkStays, WalkEnters, WalkLeaves, Stays, Enters, Leaves
<1>2. ASSUME NEW q \in Ranks, NEW i \in 1 .. Len(frames[q])
      PROVE  /\ frames[q][i].last \in Nodes \cup {0}
             /\ frames[q][i].round < frames[q][i].count
             /\ frames[q][i].start <= clock'[q]
  <2>1. frames[q][i] \in Frames
    BY TopTypes DEF Safe
  <2>2. frames[q][i].start \in Nat /\ clock[q] \in Nat /\ clock'[q] \in Nat /\ clock[q] <= clock'[q]
    BY <2>1 DEF Safe, Types, Walk, Frames
  <2>3. frames[q][i].start <= clock[q]
    BY DEF Safe, FrameInv
  <2>4. frames[q][i].start <= clock'[q]
    BY <2>2, <2>3
  <2>. QED BY <2>4 DEF Safe, FrameInv
<1>3. Len(frames[r]) \in Nat /\ Len(frames[r]) >= 1
  BY TopTypes DEF Safe
<1>4. ASSUME NEW i \in 1 .. Len(frames'[r])
      PROVE  Sound(r, frames'[r][i])
  <2>1. CASE WalkStays(r)
    <3>1. CASE i = 1
      BY <2>1, <3>1 DEF WalkStays
    <3>2. CASE i # 1
      BY <1>2, <2>1, <3>2 DEF WalkStays, Stays, Sound
    <3>. QED BY <3>1, <3>2
  <2>2. ASSUME NEW c \in Nodes, WalkEnters(r, c)
        PROVE  Sound(r, frames'[r][i])
    <3>1. CASE i = 1 \/ i = 2
      BY <2>2, <3>1 DEF WalkEnters
    <3>2. CASE i > 2
      <4>1. /\ Len(frames'[r]) = Len(frames[r]) + 1
            /\ frames'[r][i] = frames[r][i - 1]
        BY <2>2, <3>2 DEF WalkEnters, Enters
      <4>2. i - 1 \in 1 .. Len(frames[r])
        BY <1>3, <3>2, <4>1
      <4>. QED BY <1>2, <4>1, <4>2 DEF Sound
    <3>3. i = 1 \/ i = 2 \/ i > 2
      BY <1>1
    <3>. QED BY <3>1, <3>2, <3>3
  <2>3. CASE WalkLeaves(r)
    <3>1. /\ Len(frames'[r]) = Len(frames[r]) - 1
          /\ frames'[r][i] = frames[r][i + 1]
      BY <2>3 DEF WalkLeaves, Leaves
    <3>2. i + 1 \in 1 .. Len(frames[r])
      BY <1>3, <3>1
    <3>. QED BY <1>2, <3>1, <3>2 DEF Sound
  <2>. QED BY <2>1, <2>2, <2>3 DEF Walk
<1>. QED BY <1>1, <1>2, <1>4 DEF FrameInv, Sound

LEMMA ContextTypes ==
  ASSUME NEW n, NEW outer \in Contexts,
         Stmt(n).type = "GROUP" => Stmt(n).arg \in GroupNames
  PROVE  Context(n, outer) \in Contexts
<1>1. outer.groups \in Seq(GroupNames) /\ outer.depth \in Nat
  BY DEF Contexts
<1>2. Stmt(n).type = "GROUP" => << Stmt(n).arg >> \o outer.groups \in Seq(GroupNames)
  BY <1>1, PutFirst
<1>. QED BY <1>1, <1>2 DEF Context, Contexts

\* Recording one more node.
LEMMA OneMoreContext ==
  ASSUME Types, NEW ctx, ContextsOf(ctx), NEW c \in Nodes, program.kernel.parent[c] \in DOMAIN ctx,
         Stmt(c).type = "GROUP" => Stmt(c).arg \in GroupNames
  PROVE  \E more :
           /\ ContextsOf(more)
           /\ \A n \in DOMAIN ctx : n \in DOMAIN more /\ more[n] = ctx[n]
           /\ c \in DOMAIN more /\ more[c] = Context(c, ctx[program.kernel.parent[c]])
<1>. DEFINE outer == program.kernel.parent[c]
            new == Context(c, ctx[outer])
            more == [n \in DOMAIN ctx \cup {c} |-> IF n = c THEN new ELSE ctx[n]]
<1>1. /\ DOMAIN ctx \subseteq Nodes \cup {0} /\ 0 \in DOMAIN ctx
      /\ ctx[0] = [groups |-> << >>, depth |-> 0]
      /\ \A n \in DOMAIN ctx \ {0} :
           /\ program.kernel.parent[n] \in DOMAIN ctx
           /\ ctx[n] = Context(n, ctx[program.kernel.parent[n]])
      /\ \A n \in DOMAIN ctx : ctx[n] \in Contexts
  BY DEF ContextsOf
<1>2. c # 0
  BY KernelTypes
<1>3. c \in DOMAIN ctx => ctx[c] = new
  BY <1>1, <1>2
<1>4. new \in Contexts
  BY <1>1, ContextTypes
<1>. HIDE DEF new
<1>5. /\ DOMAIN more = DOMAIN ctx \cup {c}
      /\ more[c] = new
      /\ \A n \in DOMAIN ctx : more[n] = ctx[n]
  BY <1>3
<1>. HIDE DEF more
<1>6. ASSUME NEW n \in DOMAIN more \ {0}
      PROVE  /\ program.kernel.parent[n] \in DOMAIN more
             /\ more[n] = Context(n, more[program.kernel.parent[n]])
  <2>1. CASE n = c
    BY <1>5, <2>1 DEF new
  <2>2. CASE n # c
    <3>1. n \in DOMAIN ctx \ {0}
      BY <1>5, <1>6, <2>2
    <3>. QED BY <1>1, <1>5, <3>1
  <2>. QED BY <2>1, <2>2
<1>7. ContextsOf(more)
  BY <1>1, <1>4, <1>5, <1>6 DEF ContextsOf
<1>. QED BY <1>5, <1>7 DEF new

LEMMA ContextsStay ==
  ASSUME NEW ctx, ContextsOf(ctx), program' = program
  PROVE  ContextsOf(ctx)'
<1>1. Nodes' = Nodes /\ \A n : Stmt(n)' = Stmt(n)
  BY DEF Nodes, Stmt
<1>. QED BY <1>1 DEF ContextsOf, Context

LEMMA OthersFollow ==
  ASSUME NEW ctx, NEW more, NEW r \in Ranks, Follows(r, ctx), program' = program,
         Types, PathInv, frames'[r] = frames[r], Keeps(r),
         \A n \in DOMAIN ctx : n \in DOMAIN more /\ more[n] = ctx[n]
  PROVE  Follows(r, more)'
<1>1. Top(r)' = Top(r) /\ OnPath(r)' = OnPath(r) /\ \A n : Stmt(n)' = Stmt(n)
  BY DEF Top, OnPath, Stmt
<1>2. Top(r).node \in OnPath(r)
  <2>1. 1 \in 1 .. Len(frames[r]) /\ Top(r) = frames[r][1]
    BY TopTypes
  <2>. QED BY <2>1 DEF OnPath
<1>. QED BY <1>1, <1>2 DEF Follows, Keeps

LEMMA ContextStep ==
  ASSUME Types, PathInv, PathInv', ContextInv, NEW r \in Ranks, Walk(r)
  PROVE  ContextInv'
<1>1. PICK ctx : ContextsOf(ctx) /\ \A q \in Ranks : Follows(q, ctx)
  BY DEF ContextInv
<1>2. /\ program' = program /\ Nodes' = Nodes
      /\ \A n : Stmt(n)' = Stmt(n)
      /\ \A q \in Ranks \ {r} : frames'[q] = frames[q] /\ Keeps(q)
      /\ frames' \in [Ranks -> Seq(Frames)]
  BY DEF Walk, Nodes, Stmt, WalkStays, WalkEnters, WalkLeaves, Stays, Enters, Leaves
<1>3. /\ Len(frames[r]) \in Nat /\ 1 \in 1 .. Len(frames[r])
      /\ Top(r) = frames[r][1] /\ Top(r).node \in OnPath(r)
  BY TopTypes DEF OnPath
<1>4. /\ Len(frames'[r]) \in Nat /\ Len(frames'[r]) >= 1
      /\ Top(r)' = frames'[r][1]
  <2>1. frames'[r] \in Seq(Frames) /\ Len(frames'[r]) >= 1
    BY <1>2 DEF PathInv
  <2>. QED BY <2>1, DropFirst DEF Top
<1>5. /\ ctx[Top(r).node] \in Contexts
      /\ groupStack[r] = ctx[Top(r).node].groups
      /\ Len(coreTimeStack[r]) = ctx[Top(r).node].depth
  BY <1>1, <1>3 DEF Follows, ContextsOf
<1>6. ASSUME NEW more, ContextsOf(more), Follows(r, more)',
             \A n \in DOMAIN ctx : n \in DOMAIN more /\ more[n] = ctx[n]
      PROVE  ContextInv'
  <2>1. ASSUME NEW q \in Ranks \ {r}
        PROVE  Follows(q, more)'
    BY <1>1, <1>2, <1>6, OthersFollow
  <2>2. ContextsOf(more)'
    BY <1>2, <1>6, ContextsStay
  <2>. QED BY <1>6, <2>1, <2>2 DEF ContextInv
<1>7. CASE WalkStays(r)
  <2>1. \A i \in 1 .. Len(frames[r]) : frames'[r][i].node = frames[r][i].node
    BY <1>7 DEF WalkStays, Stays
  <2>2. /\ OnPath(r)' = OnPath(r)
        /\ Top(r)'.node = Top(r).node
    BY <1>3, <1>4, <1>7, <2>1 DEF OnPath, WalkStays, Stays
  <2>3. Follows(r, ctx)'
    BY <1>1, <1>2, <1>7, <2>2 DEF Follows, WalkStays, Keeps
  <2>. QED BY <1>1, <1>6, <2>3
<1>8. ASSUME NEW c \in Nodes, WalkEnters(r, c)
      PROVE  ContextInv'
  <2>0. PICK outer : outer = Top(r).node
    OBVIOUS
  <2>1. /\ program.kernel.parent[c] = outer
        /\ Len(frames'[r]) = Len(frames[r]) + 1
        /\ frames'[r][1].node = c
        /\ frames'[r][2].node = outer
        /\ \A i \in 1 .. Len(frames'[r]) : i > 2 => frames'[r][i] = frames[r][i - 1]
    BY <1>3, <1>8, <2>0 DEF WalkEnters, Enters
  <2>2. OnPath(r)' \subseteq OnPath(r) \cup {c}
    <3>1. ASSUME NEW i \in 1 .. Len(frames'[r])
          PROVE  frames'[r][i].node \in OnPath(r) \cup {c}
      <4>1. CASE i = 1 \/ i = 2
        BY <1>3, <2>0, <2>1, <4>1
      <4>2. CASE i > 2
        <5>1. i - 1 \in 1 .. Len(frames[r])
          BY <1>3, <2>1, <4>2
        <5>. QED BY <2>1, <4>2, <5>1 DEF OnPath
      <4>3. i = 1 \/ i = 2 \/ i > 2
        OBVIOUS
      <4>. QED BY <4>1, <4>2, <4>3
    <3>. QED BY <3>1 DEF OnPath
  <2>3. outer \in DOMAIN ctx
    BY <1>1, <1>3, <2>0 DEF Follows
  <2>4. Stmt(c).type = "GROUP" => Stmt(c).arg \in GroupNames /\ r \in Members[Stmt(c).arg]
    BY <1>8 DEF WalkEnters
  <2>5. PICK more : /\ ContextsOf(more)
                    /\ \A n \in DOMAIN ctx : n \in DOMAIN more /\ more[n] = ctx[n]
                    /\ c \in DOMAIN more /\ more[c] = Context(c, ctx[outer])
    BY <1>1, <2>1, <2>3, <2>4, OneMoreContext
  <2>6. /\ groupStack'[r] = more[c].groups
        /\ Len(coreTimeStack'[r]) = more[c].depth
    <3>1. /\ IF Stmt(c).type = "GROUP" THEN groupStack'[r] = << Stmt(c).arg >> \o groupStack[r]
                                       ELSE groupStack'[r] = groupStack[r]
          /\ Len(coreTimeStack'[r]) =
               Len(coreTimeStack[r]) + (IF Stmt(c).type = "CTIME" THEN 1 ELSE 0)
      BY <1>8 DEF WalkEnters
    <3>2. ctx[outer].depth \in Nat
      BY <1>5, <2>0 DEF Contexts
    <3>3. /\ more[c].groups = IF Stmt(c).type = "GROUP" THEN << Stmt(c).arg >> \o ctx[outer].groups
                                                        ELSE ctx[outer].groups
          /\ more[c].depth = IF Stmt(c).type = "CTIME" THEN ctx[outer].depth + 1 ELSE ctx[outer].depth
      BY <2>5 DEF Context
    <3>4. groupStack[r] = ctx[outer].groups /\ Len(coreTimeStack[r]) = ctx[outer].depth
      BY <1>5, <2>0
    <3>5. groupStack'[r] = more[c].groups
      BY <3>1, <3>3, <3>4
    <3>6. Len(coreTimeStack'[r]) = more[c].depth
      BY <3>1, <3>2, <3>3, <3>4
    <3>. QED BY <3>5, <3>6
  <2>7. /\ more[c].groups # << >> => r \in Members[Head(more[c].groups)]
        /\ Stmt(c).type = "MASTER" => IsMaster(r, CommUnder(r, more[c].groups))
    <3>1. CASE Stmt(c).type = "GROUP"
      <4>1. more[c].groups = << Stmt(c).arg >> \o ctx[outer].groups
        BY <2>5, <3>1 DEF Context
      <4>2. ctx[outer].groups \in Seq(GroupNames)
        BY <1>5, <2>0 DEF Contexts
      <4>3. Head(more[c].groups) = Stmt(c).arg
        BY <2>4, <3>1, <4>1, <4>2, PutFirst
      <4>. QED BY <2>4, <3>1, <4>3
    <3>2. CASE Stmt(c).type # "GROUP"
      <4>1. more[c].groups = ctx[outer].groups
        BY <2>5, <3>2 DEF Context
      <4>2. ctx[outer].groups # << >> => r \in Members[Head(ctx[outer].groups)]
        BY <1>1, <1>3, <2>0 DEF Follows
      <4>3. ActiveComm(r) = CommUnder(r, more[c].groups)
        BY <1>5, <2>0, <4>1 DEF ActiveComm, CommUnder
      <4>4. Stmt(c).type = "MASTER" => IsMaster(r, ActiveComm(r))
        BY <1>8 DEF WalkEnters
      <4>. QED BY <4>1, <4>2, <4>3, <4>4
    <3>. QED BY <3>1, <3>2
  <2>8. ASSUME NEW n \in OnPath(r)'
        PROVE  /\ n \in DOMAIN more
               /\ more[n].groups # << >> => r \in Members[Head(more[n].groups)]
               /\ n # 0 /\ Stmt(n).type = "MASTER" => IsMaster(r, CommUnder(r, more[n].groups))
    <3>1. CASE n = c
      BY <2>5, <2>7, <3>1
    <3>2. CASE n # c
      <4>1. n \in OnPath(r)
        BY <2>2, <2>8, <3>2
      <4>2. /\ n \in DOMAIN ctx
            /\ ctx[n].groups # << >> => r \in Members[Head(ctx[n].groups)]
            /\ n # 0 /\ Stmt(n).type = "MASTER" => IsMaster(r, CommUnder(r, ctx[n].groups))
        BY <1>1, <4>1 DEF Follows
      <4>. QED BY <2>5, <4>2
    <3>. QED BY <3>1, <3>2
  <2>9. Top(r)'.node = c
    BY <1>4, <2>1
  <2>10. Follows(r, more)'
    BY <1>2, <2>6, <2>8, <2>9 DEF Follows
  <2>. QED BY <1>6, <2>5, <2>10
<1>9. CASE WalkLeaves(r)
  <2>0. PICK n, outer : n = Top(r).node /\ outer = program.kernel.parent[n]
    OBVIOUS
  <2>1. /\ n \in Nodes /\ n # 0 /\ Len(frames[r]) >= 2
        /\ frames[r][2].node = outer
    BY <1>3, <1>9, <2>0, BelowRoot DEF WalkLeaves
  <2>2. /\ Len(frames'[r]) = Len(frames[r]) - 1
        /\ \A i \in 1 .. Len(frames[r]) - 1 : frames'[r][i] = frames[r][i + 1]
    BY <1>9 DEF WalkLeaves, Leaves
  <2>3. OnPath(r)' \subseteq OnPath(r)
    <3>1. ASSUME NEW i \in 1 .. Len(frames'[r])
          PROVE  frames'[r][i].node \in OnPath(r)
      <4>1. i \in 1 .. Len(frames[r]) - 1 /\ i + 1 \in 1 .. Len(frames[r])
        BY <1>3, <2>2
      <4>. QED BY <2>2, <4>1 DEF OnPath
    <3>. QED BY <3>1 DEF OnPath
  <2>4. Top(r)'.node = outer
    <3>1. 1 \in 1 .. Len(frames[r]) - 1
      BY <1>3, <2>1
    <3>. QED BY <1>4, <2>1, <2>2, <3>1
  <2>5. /\ n \in DOMAIN ctx
        /\ ctx[n] = Context(n, ctx[outer]) /\ ctx[outer] \in Contexts
    BY <1>1, <1>3, <2>0, <2>1 DEF Follows, ContextsOf
  <2>. DEFINE g == ctx[outer].groups
              d == ctx[outer].depth
  <2>6. g \in Seq(GroupNames) /\ d \in Nat
    BY <2>5 DEF Contexts
  <2>7. /\ ctx[n].groups = IF Stmt(n).type = "GROUP" THEN << Stmt(n).arg >> \o g ELSE g
        /\ ctx[n].depth = IF Stmt(n).type = "CTIME" THEN d + 1 ELSE d
    BY <2>5 DEF Context
  <2>8. groupStack[r] = ctx[n].groups /\ Len(coreTimeStack[r]) = ctx[n].depth
    BY <1>5, <2>0
  <2>9. /\ groupStack'[r] = IF Stmt(n).type = "GROUP" THEN Tail(groupStack[r]) ELSE groupStack[r]
        /\ coreTimeStack'[r] =
             IF Stmt(n).type = "CTIME" THEN Tail(coreTimeStack[r]) ELSE coreTimeStack[r]
    BY <1>9, <2>0 DEF WalkLeaves
  <2>10. groupStack'[r] = g
    <3>1. CASE Stmt(n).type = "GROUP"
      <4>1. groupStack[r] = << Stmt(n).arg >> \o g /\ groupStack'[r] = Tail(groupStack[r])
        BY <2>7, <2>8, <2>9, <3>1
      <4>2. Tail(<< Stmt(n).arg >> \o g) = g
        <5>. HIDE DEF g
        <5>. QED BY <2>6
      <4>. QED BY <4>1, <4>2
    <3>2. CASE Stmt(n).type # "GROUP"
      BY <2>7, <2>8, <2>9, <3>2
    <3>. QED BY <3>1, <3>2
  <2>11. Len(coreTimeStack'[r]) = d
    <3>1. CASE Stmt(n).type = "CTIME"
      <4>1. Len(coreTimeStack[r]) = d + 1 /\ coreTimeStack'[r] = Tail(coreTimeStack[r])
        BY <2>7, <2>8, <2>9, <3>1
      <4>2. coreTimeStack[r] \in Seq(CoreEvents)
        BY DEF Types
      <4>3. Len(Tail(coreTimeStack[r])) = Len(coreTimeStack[r]) - 1
        BY <2>6, <4>1, <4>2, DropFirst
      <4>. QED BY <2>6, <4>1, <4>3
    <3>2. CASE Stmt(n).type # "CTIME"
      BY <2>7, <2>8, <2>9, <3>2
    <3>. QED BY <3>1, <3>2
  <2>12. Follows(r, ctx)'
    BY <1>1, <1>2, <2>3, <2>4, <2>10, <2>11 DEF Follows
  <2>. QED BY <1>1, <1>6, <2>12
<1>. QED BY <1>7, <1>8, <1>9 DEF Walk

\* At the end of a group block there is a group to take from the stack, and at the end of
\* a core time block an event.
LEMMA SomethingToPop ==
  ASSUME Types, PathInv, ContextInv, NEW r \in Ranks
  PROVE  /\ AtEnd(r, "GROUP") => Len(groupStack[r]) >= 1
         /\ AtEnd(r, "CTIME") => Len(coreTimeStack[r]) >= 1
<1>1. PICK ctx : ContextsOf(ctx) /\ Follows(r, ctx)
  BY DEF ContextInv
<1>2. SUFFICES ASSUME AtEnd(r, "GROUP") \/ AtEnd(r, "CTIME")
               PROVE  /\ AtEnd(r, "GROUP") => Len(groupStack[r]) >= 1
                      /\ AtEnd(r, "CTIME") => Len(coreTimeStack[r]) >= 1
  OBVIOUS
<1>3. PICK n, outer : n = Top(r).node /\ outer = program.kernel.parent[n]
  OBVIOUS
<1>4. n # 0 /\ n \in OnPath(r)
  <2>1. Top(r) = frames[r][1] /\ 1 \in 1 .. Len(frames[r])
    BY TopTypes
  <2>. QED BY <1>2, <1>3, <2>1 DEF AtEnd, OnPath
<1>5. ctx[n] = Context(n, ctx[outer]) /\ ctx[outer] \in Contexts
  BY <1>1, <1>3, <1>4 DEF Follows, ContextsOf
<1>6. ctx[outer].groups \in Seq(GroupNames) /\ ctx[outer].depth \in Nat
  BY <1>5 DEF Contexts
<1>7. /\ ctx[n].groups = IF Stmt(n).type = "GROUP" THEN << Stmt(n).arg >> \o ctx[outer].groups
                                                  ELSE ctx[outer].groups
      /\ ctx[n].depth = IF Stmt(n).type = "CTIME" THEN ctx[outer].depth + 1 ELSE ctx[outer].depth
  BY <1>5 DEF Context
<1>8. groupStack[r] = ctx[n].groups /\ Len(coreTimeStack[r]) = ctx[n].depth
  BY <1>1, <1>3 DEF Follows
<1>9. CASE AtEnd(r, "GROUP")
  <2>1. Stmt(n).type = "GROUP"
    BY <1>3, <1>9 DEF AtEnd
  <2>2. groupStack[r] = << Stmt(n).arg >> \o ctx[outer].groups
    BY <1>7, <1>8, <2>1
  <2>3. Len(groupStack[r]) >= 1
    BY <1>6, <2>2
  <2>. QED BY <2>1, <2>3, <1>3 DEF AtEnd
<1>10. CASE AtEnd(r, "CTIME")
  <2>1. Stmt(n).type = "CTIME"
    BY <1>3, <1>10 DEF AtEnd
  <2>2. Len(coreTimeStack[r]) >= 1
    BY <1>6, <1>7, <1>8, <2>1
  <2>. QED BY <2>1, <2>2, <1>3 DEF AtEnd
<1>. QED BY <1>2, <1>9, <1>10

-------------------------------------------------------------------------------
(* Types.                                                                       *)

\* What is set when a core time event ends.
LEMMA EndsEvent ==
  ASSUME Types, PathInv, ContextInv, NEW r \in Ranks, CTimeEnd(r)
  PROVE  LET e == [Head(coreTimeStack[r]) EXCEPT !.until = Len(log[r])] IN
         /\ e \in CoreEvents
         /\ e.event.id = coreTimeStack[r][1].event.id /\ e.start = coreTimeStack[r][1].start
         /\ coreTimeStack' \in [Ranks -> Seq(CoreEvents)]
         /\ coreTimeList' \in [Ranks -> Seq(CoreEvents)]
         /\ \A q \in Ranks \ {r} : /\ coreTimeStack'[q] = coreTimeStack[q]
                                    /\ coreTimeList'[q] = coreTimeList[q]
         /\ Len(coreTimeStack[r]) >= 1
         /\ Len(coreTimeStack'[r]) = Len(coreTimeStack[r]) - 1
         /\ \A i \in 1 .. Len(coreTimeStack[r]) - 1 : coreTimeStack'[r][i] = coreTimeStack[r][i + 1]
         /\ Len(coreTimeList'[r]) = Len(coreTimeList[r]) + 1
         /\ coreTimeList'[r][1] = e
         /\ \A i \in 1 .. Len(coreTimeList'[r]) : i # 1 =>
              i - 1 \in 1 .. Len(coreTimeList[r]) /\ coreTimeList'[r][i] = coreTimeList[r][i - 1]
<1>. DEFINE h == Head(coreTimeStack[r])
            e == [h EXCEPT !.until = Len(log[r])]
            l == << e >> \o coreTimeList[r]
<1>1. /\ coreTimeStack \in [Ranks -> Seq(CoreEvents)] /\ coreTimeList \in [Ranks -> Seq(CoreEvents)]
      /\ Len(log[r]) \in Nat
  BY DEF Types
<1>2. Len(coreTimeStack[r]) >= 1
  BY SomethingToPop DEF CTimeEnd
<1>3. h = coreTimeStack[r][1] /\ h \in CoreEvents
  BY <1>1, <1>2, DropFirst
<1>4. e \in CoreEvents /\ e.event = h.event /\ e.start = h.start
  <2>. HIDE DEF h
  <2>. QED BY <1>1, <1>3 DEF CoreEvents
<1>5. /\ coreTimeList' = [coreTimeList EXCEPT ![r] = l]
      /\ coreTimeStack' = [coreTimeStack EXCEPT ![r] = Tail(coreTimeStack[r])]
  BY DEF CTimeEnd
<1>. HIDE DEF e
<1>6. /\ l \in Seq(CoreEvents) /\ Len(l) = Len(coreTimeList[r]) + 1 /\ l[1] = e
      /\ \A i \in 1 .. Len(l) : i # 1 => i - 1 \in 1 .. Len(coreTimeList[r]) /\ l[i] = coreTimeList[r][i - 1]
  BY <1>1, <1>4, PutFirst
<1>. HIDE DEF l
<1>7. /\ coreTimeList' \in [Ranks -> Seq(CoreEvents)] /\ coreTimeList'[r] = l
      /\ \A q \in Ranks \ {r} : coreTimeList'[q] = coreTimeList[q]
  BY <1>1, <1>5, <1>6
<1>8. /\ Tail(coreTimeStack[r]) \in Seq(CoreEvents)
      /\ Len(Tail(coreTimeStack[r])) = Len(coreTimeStack[r]) - 1
      /\ \A i \in 1 .. Len(coreTimeStack[r]) - 1 : Tail(coreTimeStack[r])[i] = coreTimeStack[r][i + 1]
  BY <1>1, <1>2, DropFirst
<1>9. /\ coreTimeStack' \in [Ranks -> Seq(CoreEvents)] /\ coreTimeStack'[r] = Tail(coreTimeStack[r])
      /\ \A q \in Ranks \ {r} : coreTimeStack'[q] = coreTimeStack[q]
  BY <1>1, <1>5, <1>8
<1>10. e.event.id = coreTimeStack[r][1].event.id /\ e.start = coreTimeStack[r][1].start
  BY <1>3, <1>4
<1>. QED BY <1>2, <1>4, <1>6, <1>7, <1>8, <1>9, <1>10 DEF e

\* Calls of MPI.
LEMMA MPITypes ==
  ASSUME Types, NEW r \in Ranks,
         NEW op \in {"MPI_Barrier"} \cup ParallelTypes, NEW comm \in Comms,
         mpi' = [mpi EXCEPT ![r] = [op |-> op, comm |-> comm, returned |-> FALSE]]
  PROVE  /\ mpi' \in [Ranks -> MPICalls]
         /\ mpi'[r] = [op |-> op, comm |-> comm, returned |-> FALSE]
         /\ \A q \in Ranks \ {r} : mpi'[q] = mpi[q]
<1>. DEFINE call == [op |-> op, comm |-> comm, returned |-> FALSE]
<1>1. call \in MPICalls
  BY DEF MPICalls
<1>2. mpi \in [Ranks -> MPICalls]
  BY DEF Types
<1>. HIDE DEF call
<1>3. mpi' = [mpi EXCEPT ![r] = call]
  BY DEF call
<1>4. /\ mpi' \in [Ranks -> MPICalls] /\ mpi'[r] = call
      /\ \A q \in Ranks \ {r} : mpi'[q] = mpi[q]
  BY <1>1, <1>2, <1>3
<1>. QED BY <1>4 DEF call

LEMMA BarrierCalls ==
  ASSUME Types, PathInv, NEW r \in Ranks, NEW c \in Nodes, Barrier(r, c)
  PROVE  \E op \in {"MPI_Barrier"} \cup ParallelTypes, comm \in Comms :
           /\ mpi' = [mpi EXCEPT ![r] = [op |-> op, comm |-> comm, returned |-> FALSE]]
           /\ r \in comm.ranks
<1>1. /\ Stmt(c).arg \in {"", "world"} \cup GroupNames
      /\ mpi' = [mpi EXCEPT ![r] = [op       |-> "MPI_Barrier",
                                    comm     |-> NamedComm(r, Stmt(c).arg),
                                    returned |-> FALSE]]
  BY DEF Barrier
<1>2. PICK g : g = Stmt(c).arg
  OBVIOUS
<1>3. NamedComm(r, g) \in Comms /\ r \in NamedComm(r, g).ranks
  BY <1>1, <1>2, NamedCommTypes
<1>. QED BY <1>1, <1>2, <1>3

LEMMA IOCalls ==
  ASSUME Types, PathInv, VarInv, NEW r \in Ranks, NEW c \in Nodes, ParallelIO(r, c)
  PROVE  \E op \in {"MPI_Barrier"} \cup ParallelTypes, comm \in Comms :
           /\ mpi' = [mpi EXCEPT ![r] = [op |-> op, comm |-> comm, returned |-> FALSE]]
           /\ r \in comm.ranks
<1>1. /\ Stmt(c).type \in ParallelTypes
      /\ Stmt(c).type \in FileTypes => IsFile(r, Stmt(c).arg)
      /\ mpi' = [mpi EXCEPT ![r] = [op |-> Stmt(c).type, comm |-> IOComm(r, c), returned |-> FALSE]]
  BY DEF ParallelIO, At
<1>2. IOComm(r, c) \in Comms /\ r \in IOComm(r, c).ranks
  <2>1. CASE Stmt(c).type \in OpeningTypes
    BY <2>1, ActiveCommTypes DEF IOComm
  <2>2. CASE Stmt(c).type \in FileTypes
    <3>1. Stmt(c).type \notin OpeningTypes
      BY <2>2 DEF FileTypes, OpeningTypes
    <3>2. Stmt(c).arg \in DOMAIN vars[r] /\ vars[r][Stmt(c).arg].type = "VAR_FILE"
      BY <1>1, <2>2 DEF IsFile
    <3>3. vars[r][Stmt(c).arg].comm \in Comms /\ r \in vars[r][Stmt(c).arg].comm.ranks
      BY <3>2 DEF VarInv
    <3>. QED BY <3>1, <3>3 DEF IOComm
  <2>. QED BY <1>1, <2>1, <2>2 DEF ParallelTypes
<1>. QED BY <1>1, <1>2

\* When MPI completes a collective call, all its ranks are in it.
LEMMA CompleteCalls ==
  ASSUME Types, CallInv, Complete
  PROVE  /\ mpi' \in [Ranks -> MPICalls]
         /\ \A q \in Ranks : mpi'[q] # NoCall =>
              mpi[q] # NoCall /\ mpi'[q].op = mpi[q].op /\ mpi'[q].comm = mpi[q].comm
<1>1. PICK r \in Ranks : mpi[r].op # "none" /\ CollectiveCompletes(mpi[r].comm)
  BY DEF Complete
<1>2. PICK comm : comm = mpi[r].comm
  OBVIOUS
<1>3. /\ Met(comm)
      /\ mpi' = [q \in Ranks |-> IF q \in comm.ranks THEN [mpi[q] EXCEPT !.returned = TRUE]
                                                     ELSE mpi[q]]
  BY <1>1, <1>2 DEF CollectiveCompletes
<1>4. r \in comm.ranks
  <2>1. mpi[r] # NoCall
    BY <1>1 DEF NoCall
  <2>. QED BY <1>2, <2>1 DEF CallInv
<1>5. \A q \in comm.ranks : mpi[q].op # "none"
  BY <1>1, <1>3, <1>4 DEF Met
<1>6. ASSUME NEW q \in Ranks
      PROVE  /\ mpi'[q] \in MPICalls
             /\ mpi'[q] # NoCall =>
                  mpi[q] # NoCall /\ mpi'[q].op = mpi[q].op /\ mpi'[q].comm = mpi[q].comm
  <2>1. mpi[q] \in MPICalls
    BY DEF Types
  <2>2. CASE q \in comm.ranks
    <3>1. mpi'[q] = [mpi[q] EXCEPT !.returned = TRUE]
      BY <1>3, <2>2
    <3>2. /\ [mpi[q] EXCEPT !.returned = TRUE] \in MPICalls
          /\ [mpi[q] EXCEPT !.returned = TRUE].op = mpi[q].op
          /\ [mpi[q] EXCEPT !.returned = TRUE].comm = mpi[q].comm
      BY <2>1 DEF MPICalls
    <3>3. mpi[q] # NoCall
      BY <1>5, <2>2 DEF NoCall
    <3>. QED BY <3>1, <3>2, <3>3
  <2>3. CASE q \notin comm.ranks
    BY <1>3, <2>1, <2>3
  <2>. QED BY <2>2, <2>3
<1>7. mpi' \in [Ranks -> MPICalls]
  BY <1>3, <1>6
<1>. QED BY <1>6, <1>7

\* Variables.
GoodValue(r, value) ==
  \/ value.type = "VAR_INT" /\ value.int \in Nat
  \/ value.type = "VAR_FILE" /\ value.comm \in Comms /\ r \in value.comm.ranks

LEMMA SetVarTypes ==
  ASSUME DOMAIN vars = Ranks, VarInv, NEW r \in Ranks, NEW v, NEW value, GoodValue(r, value),
         SetVar(r, v, value)
  PROVE  DOMAIN vars' = Ranks /\ VarInv'
<1>1. /\ DOMAIN vars' = Ranks
      /\ \A q \in Ranks \ {r} : vars'[q] = vars[q]
      /\ vars'[r] = [w \in DOMAIN vars[r] \cup {v} |-> IF w = v THEN value ELSE vars[r][w]]
  BY DEF SetVar
<1>2. ASSUME NEW w \in DOMAIN vars'[r]
      PROVE  GoodValue(r, vars'[r][w])
  <2>1. CASE w = v
    BY <1>1, <2>1
  <2>2. CASE w # v
    <3>1. w \in DOMAIN vars[r] /\ vars'[r][w] = vars[r][w]
      BY <1>1, <1>2, <2>2
    <3>. QED BY <3>1 DEF VarInv, GoodValue
  <2>. QED BY <2>1, <2>2
<1>. QED BY <1>1, <1>2 DEF VarInv, GoodValue

LEMMA DestroyVarTypes ==
  ASSUME DOMAIN vars = Ranks, VarInv, NEW r \in Ranks, NEW v, DestroyVar(r, v)
  PROVE  DOMAIN vars' = Ranks /\ VarInv'
<1>1. /\ DOMAIN vars' = Ranks
      /\ \A q \in Ranks \ {r} : vars'[q] = vars[q]
      /\ vars'[r] = [w \in DOMAIN vars[r] \ {v} |-> vars[r][w]]
  BY DEF DestroyVar
<1>. QED BY <1>1 DEF VarInv

LEMMA SameVars ==
  ASSUME DOMAIN vars = Ranks, VarInv, vars' = vars
  PROVE  DOMAIN vars' = Ranks /\ VarInv'
BY DEF VarInv

LEMMA IdleVars ==
  ASSUME Idle
  PROVE  vars' = vars
BY IdleSteps

LEMMA VarStep ==
  ASSUME Safe, VarInv, CallInv, [Next]_allVars
  PROVE  DOMAIN vars' = Ranks /\ VarInv'
<1>1. DOMAIN vars = Ranks
  BY DEF Safe, Types
<1>2. CASE Idle
  BY <1>1, <1>2, IdleVars, SameVars
<1>3. ASSUME NEW r \in Ranks, NEW c \in Nodes, Repeat(r, c)
      PROVE  DOMAIN vars' = Ranks /\ VarInv'
  <2>1. PICK v : v = Stmt(c).arg
    OBVIOUS
  <2>2. SetVar(r, v, IntVar(0)) \/ DestroyVar(r, v)
    BY <1>3, <2>1 DEF Repeat
  <2>3. GoodValue(r, IntVar(0))
    BY DEF GoodValue, IntVar
  <2>. QED BY <1>1, <2>2, <2>3, SetVarTypes, DestroyVarTypes
<1>4. ASSUME NEW r \in Ranks, RepeatEnd(r)
      PROVE  DOMAIN vars' = Ranks /\ VarInv'
  <2>1. PICK v, next : v = Stmt(Top(r).node).arg /\ next = Top(r).round + 1
    OBVIOUS
  <2>2. SetVar(r, v, IntVar(next)) \/ DestroyVar(r, v)
    BY <1>4, <2>1 DEF RepeatEnd
  <2>3. next \in Nat
    BY <2>1, TopTypes DEF Safe, Frames
  <2>4. GoodValue(r, IntVar(next))
    BY <2>3 DEF GoodValue, IntVar
  <2>. QED BY <1>1, <2>2, <2>4, SetVarTypes, DestroyVarTypes
<1>5. ASSUME NEW r \in Ranks, ParallelIOReturns(r)
      PROVE  DOMAIN vars' = Ranks /\ VarInv'
  <2>1. PICK v, comm : v = Stmt(Current(r)).arg /\ comm = mpi[r].comm
    OBVIOUS
  <2>2. SetVar(r, v, FileVar(comm)) \/ DestroyVar(r, v) \/ vars' = vars
    BY <1>5, <2>1 DEF ParallelIOReturns
  <2>3. r \in comm.ranks
    BY <1>5, <2>1, ParallelCounts DEF CallInv
  <2>4. comm \in Comms
    <3>1. comm \in Comms \cup {NoCall.comm}
      BY <2>1 DEF Safe, Types, MPICalls
    <3>. QED BY <2>3, <3>1 DEF NoCall
  <2>5. GoodValue(r, FileVar(comm))
    BY <2>3, <2>4 DEF GoodValue, FileVar
  <2>. QED BY <1>1, <2>2, <2>5, SetVarTypes, DestroyVarTypes, SameVars
<1>6. ASSUME NEW r \in Ranks, NEW c \in Nodes,
             \/ Group(r, c) \/ Master(r, c) \/ Local(r, c) \/ Time(r, c)
             \/ CTime(r, c) \/ LocalIO(r, c) \/ SkipIO(r, c)
      PROVE  vars' = vars
  BY <1>6 DEF Group, Master, Local, Time, CTime, LocalIO, SkipIO
<1>7. ASSUME NEW r \in Ranks,
             GroupEnd(r) \/ MasterEnd(r) \/ TimeEnd(r) \/ CTimeEnd(r) \/ BarrierReturns(r)
      PROVE  vars' = vars
  BY <1>7 DEF GroupEnd, MasterEnd, TimeEnd, CTimeEnd, BarrierReturns
<1>. QED BY <1>1, <1>2, <1>3, <1>4, <1>5, <1>6, <1>7, SameVars, Kinds

\* The variables that hold what happened, and the calls of MPI.
OtherTypes ==
  /\ job \in {"running", "aborted"}
  /\ groupStack \in [Ranks -> Seq(GroupNames)]
  /\ mpi \in [Ranks -> MPICalls]
  /\ timeId \in [Ranks -> Nat]
  /\ coreTimeId \in [Ranks -> Nat]
  /\ clock \in [Ranks -> Nat]
  /\ timeList \in [Ranks -> Seq(Events)]
  /\ coreTimeStack \in [Ranks -> Seq(CoreEvents)]
  /\ coreTimeList \in [Ranks -> Seq(CoreEvents)]
  /\ log \in [Ranks -> Seq(CoreTimes)]

LEMMA OtherTypesStep ==
  ASSUME Safe, VarInv, CallInv, ContextInv, [Next]_allVars
  PROVE  OtherTypes'
<1>0. OtherTypes
  BY DEF Safe, Types, OtherTypes
<1>. USE DEF OtherTypes
<1>1. CASE Idle
  <2>1. mpi' \in [Ranks -> MPICalls]
    <3>1. ASSUME NEW r \in Ranks, NEW c \in Nodes,
                 RepeatNegative(r, c) \/ UndefinedGroup(r, c) \/ NoFile(r, c)
          PROVE  mpi' = mpi
      BY <3>1 DEF RepeatNegative, UndefinedGroup, NoFile, Abort
    <3>2. ASSUME NEW r \in Ranks, NEW c \in Nodes, Barrier(r, c) \/ ParallelIO(r, c)
          PROVE  mpi' \in [Ranks -> MPICalls]
      BY <3>2, BarrierCalls, IOCalls, MPITypes DEF Safe
    <3>3. Complete => mpi' \in [Ranks -> MPICalls]
      BY CompleteCalls DEF Safe
    <3>4. UNCHANGED allVars => mpi' = mpi
      BY DEF allVars
    <3>. QED BY <1>0, <1>1, <3>1, <3>2, <3>3, <3>4 DEF Idle
  <2>. QED BY <1>0, <1>1, <2>1, IdleSteps
<1>2. ASSUME NEW r \in Ranks, NEW c \in Nodes, Repeat(r, c) \/ Master(r, c) \/ Local(r, c) \/ SkipIO(r, c)
      PROVE  OtherTypes'
  BY <1>0, <1>2 DEF Repeat, Master, Local, SkipIO, timingVars, ioVars
<1>3. ASSUME NEW r \in Ranks, RepeatEnd(r) \/ MasterEnd(r)
      PROVE  OtherTypes'
  BY <1>0, <1>3 DEF RepeatEnd, MasterEnd, timingVars, ioVars
<1>4. ASSUME NEW r \in Ranks, NEW c \in Nodes, Group(r, c)
      PROVE  OtherTypes'
  <2>1. PICK g : g = Stmt(c).arg
    OBVIOUS
  <2>2. /\ g \in GroupNames
        /\ groupStack' = [groupStack EXCEPT ![r] = << g >> \o @] \/ groupStack' = groupStack
    BY <1>4, <2>1 DEF Group
  <2>3. << g >> \o groupStack[r] \in Seq(GroupNames)
    BY <1>0, <2>2, PutFirst
  <2>4. groupStack' \in [Ranks -> Seq(GroupNames)]
    BY <1>0, <2>2, <2>3
  <2>. QED BY <1>0, <1>4, <2>4 DEF Group, timingVars, ioVars
<1>5. ASSUME NEW r \in Ranks, GroupEnd(r)
      PROVE  OtherTypes'
  <2>1. Len(groupStack[r]) >= 1
    BY <1>5, SomethingToPop DEF Safe, GroupEnd
  <2>2. Tail(groupStack[r]) \in Seq(GroupNames)
    BY <1>0, <2>1, DropFirst
  <2>3. groupStack' \in [Ranks -> Seq(GroupNames)]
    BY <1>0, <1>5, <2>2 DEF GroupEnd
  <2>. QED BY <1>0, <1>5, <2>3 DEF GroupEnd, timingVars, ioVars
<1>6. ASSUME NEW r \in Ranks, NEW c \in Nodes, Time(r, c)
      PROVE  OtherTypes'
  <2>1. clock' \in [Ranks -> Nat]
    BY <1>6, Clocks DEF Safe, Time
  <2>. QED BY <1>0, <1>6, <2>1 DEF Time, ioVars
<1>7. ASSUME NEW r \in Ranks, TimeEnd(r)
      PROVE  OtherTypes'
  <2>1. clock' \in [Ranks -> Nat]
    BY <1>7, Clocks DEF Safe, TimeEnd
  <2>2. PICK e : e = [id |-> timeId[r], start |-> Top(r).start, value |-> clock[r] - Top(r).start]
    OBVIOUS
  <2>3. e \in Events
    <3>1. Top(r) = frames[r][1] /\ Top(r) \in Frames /\ 1 \in 1 .. Len(frames[r])
      BY TopTypes DEF Safe
    <3>2. frames[r][1].start <= clock[r]
      BY <3>1 DEF Safe, FrameInv
    <3>3. Top(r).start \in Nat /\ clock[r] \in Nat /\ timeId[r] \in Nat /\ Top(r).start <= clock[r]
      BY <1>0, <3>1, <3>2 DEF Frames
    <3>4. clock[r] - Top(r).start \in Nat
      BY <3>3
    <3>. QED BY <2>2, <3>3, <3>4 DEF Events
  <2>4. << e >> \o timeList[r] \in Seq(Events)
    BY <1>0, <2>3, PutFirst
  <2>5. timeList' = [timeList EXCEPT ![r] = << e >> \o timeList[r]]
    BY <1>7, <2>2 DEF TimeEnd
  <2>6. timeList' \in [Ranks -> Seq(Events)]
    BY <1>0, <2>4, <2>5
  <2>7. timeId' \in [Ranks -> Nat]
    BY <1>0, <1>7 DEF TimeEnd
  <2>. QED BY <1>0, <1>7, <2>1, <2>6, <2>7 DEF TimeEnd, ioVars
<1>8. ASSUME NEW r \in Ranks, NEW c \in Nodes, CTime(r, c)
      PROVE  OtherTypes'
  <2>1. clock' \in [Ranks -> Nat]
    BY <1>8, Clocks DEF Safe, CTime
  <2>2. coreTimeStack' \in [Ranks -> Seq(CoreEvents)]
    BY <1>8, BeginsEvent DEF Safe
  <2>3. coreTimeId' \in [Ranks -> Nat]
    BY <1>0, <1>8 DEF CTime
  <2>. QED BY <1>0, <1>8, <2>1, <2>2, <2>3 DEF CTime, ioVars
<1>9. ASSUME NEW r \in Ranks, CTimeEnd(r)
      PROVE  OtherTypes'
  <2>1. clock' \in [Ranks -> Nat]
    BY <1>9, Clocks DEF Safe, CTimeEnd
  <2>2. coreTimeStack' \in [Ranks -> Seq(CoreEvents)] /\ coreTimeList' \in [Ranks -> Seq(CoreEvents)]
    BY <1>9, EndsEvent DEF Safe
  <2>. QED BY <1>0, <1>9, <2>1, <2>2 DEF CTimeEnd, ioVars
<1>10. ASSUME NEW r \in Ranks, NEW c \in Nodes, LocalIO(r, c)
       PROVE  OtherTypes'
  <2>1. clock' \in [Ranks -> Nat]
    BY <1>10, Clocks DEF Safe, LocalIO
  <2>2. coreTimeStack' \in [Ranks -> Seq(CoreEvents)] /\ log' \in [Ranks -> Seq(CoreTimes)]
    BY <1>10, LocalCounts, CountTypes DEF Safe
  <2>. QED BY <1>0, <1>10, <2>1, <2>2 DEF LocalIO
<1>11. ASSUME NEW r \in Ranks, BarrierReturns(r) \/ ParallelIOReturns(r)
       PROVE  mpi' \in [Ranks -> MPICalls]
  <2>1. NoCall \in MPICalls
    BY DEF NoCall, MPICalls
  <2>2. mpi' = [mpi EXCEPT ![r] = NoCall]
    BY <1>11 DEF BarrierReturns, ParallelIOReturns
  <2>. QED BY <1>0, <2>1, <2>2
<1>12. ASSUME NEW r \in Ranks, BarrierReturns(r)
       PROVE  OtherTypes'
  BY <1>0, <1>11, <1>12 DEF BarrierReturns, timingVars, ioVars
<1>13. ASSUME NEW r \in Ranks, ParallelIOReturns(r)
       PROVE  OtherTypes'
  <2>1. clock' \in [Ranks -> Nat]
    BY <1>13, Clocks DEF Safe, ParallelIOReturns
  <2>2. coreTimeStack' \in [Ranks -> Seq(CoreEvents)] /\ log' \in [Ranks -> Seq(CoreTimes)]
    BY <1>13, ParallelCounts, CountTypes DEF Safe
  <2>. QED BY <1>0, <1>11, <1>13, <2>1, <2>2 DEF ParallelIOReturns
<1>. QED
  <2>. HIDE DEF OtherTypes
  <2>. QED BY <1>1, <1>2, <1>3, <1>4, <1>5, <1>6, <1>7, <1>8, <1>9, <1>10, <1>12, <1>13, Kinds

-------------------------------------------------------------------------------
(* Collective calls.                                                            *)

LEMMA SamePending ==
  ASSUME NEW q, program' = program, frames'[q] = frames[q]
  PROVE  Pending(q)' = Pending(q)
BY DEF Pending, Nodes, Top

LEMMA CallInIdle ==
  ASSUME Types, PathInv, VarInv, CallInv, Idle
  PROVE  CallInv'
<1>1. frames' = frames /\ program' = program
  BY IdleSteps
<1>2. \A q \in Ranks : Pending(q)' = Pending(q)
  BY <1>1, SamePending
<1>3. ASSUME NEW r \in Ranks, NEW c \in Nodes, Barrier(r, c) \/ ParallelIO(r, c)
      PROVE  CallInv'
  <2>1. PICK op \in {"MPI_Barrier"} \cup ParallelTypes, comm \in Comms :
          /\ mpi' = [mpi EXCEPT ![r] = [op |-> op, comm |-> comm, returned |-> FALSE]]
          /\ r \in comm.ranks
    BY <1>3, BarrierCalls, IOCalls
  <2>2. /\ mpi'[r] = [op |-> op, comm |-> comm, returned |-> FALSE]
        /\ \A q \in Ranks \ {r} : mpi'[q] = mpi[q]
    BY <2>1, MPITypes
  <2>3. op # "none"
    BY DEF ParallelTypes, OpeningTypes, FileTypes
  <2>4. \E d \in Pending(r) : \A e \in Pending(r) : d <= e
    BY <1>3 DEF Barrier, ParallelIO, At
  <2>. QED BY <1>2, <2>1, <2>2, <2>3, <2>4 DEF CallInv
<1>4. CASE Complete
  <2>1. \A q \in Ranks : mpi'[q] # NoCall =>
              mpi[q] # NoCall /\ mpi'[q].op = mpi[q].op /\ mpi'[q].comm = mpi[q].comm
    BY <1>4, CompleteCalls
  <2>. QED BY <1>2, <2>1 DEF CallInv
<1>5. ASSUME mpi' = mpi
      PROVE  CallInv'
  BY <1>2, <1>5 DEF CallInv
<1>6. ASSUME NEW r \in Ranks, NEW c \in Nodes,
             RepeatNegative(r, c) \/ UndefinedGroup(r, c) \/ NoFile(r, c)
      PROVE  mpi' = mpi
  BY <1>6 DEF RepeatNegative, UndefinedGroup, NoFile, Abort
<1>7. UNCHANGED allVars => mpi' = mpi
  BY DEF allVars
<1>. QED BY <1>3, <1>4, <1>5, <1>6, <1>7 DEF Idle

\* A rank that moves is in no call, or returns from one.
LEMMA MovesOutsideCalls ==
  ASSUME Types, NEW r \in Ranks,
         \/ \E c \in Nodes :
              \/ Repeat(r, c) \/ Group(r, c) \/ Master(r, c) \/ Local(r, c) \/ Time(r, c)
              \/ CTime(r, c) \/ LocalIO(r, c) \/ SkipIO(r, c)
         \/ RepeatEnd(r) \/ GroupEnd(r) \/ MasterEnd(r) \/ TimeEnd(r) \/ CTimeEnd(r)
         \/ BarrierReturns(r) \/ ParallelIOReturns(r)
  PROVE  /\ mpi'[r] = NoCall
         /\ \A q \in Ranks \ {r} : mpi'[q] = mpi[q] /\ frames'[q] = frames[q]
<1>1. frames \in [Ranks -> Seq(Frames)] /\ mpi \in [Ranks -> MPICalls]
  BY DEF Types
<1>2. ASSUME NEW c, \/ StepOver(r, c) \/ Leave(r) \/ (\E f : StepInto(r, c, f))
                   \/ \E n : frames' = [frames EXCEPT ![r][1].last = 0, ![r][1].round = n]
      PROVE  \A q \in Ranks \ {r} : frames'[q] = frames[q]
  BY <1>1, <1>2 DEF StepOver, Leave, StepInto
<1>3. ASSUME NEW c \in Nodes, \/ Repeat(r, c) \/ Group(r, c) \/ Master(r, c) \/ Local(r, c)
                              \/ Time(r, c) \/ CTime(r, c) \/ LocalIO(r, c) \/ SkipIO(r, c)
      PROVE  mpi[r] = NoCall /\ mpi' = mpi /\ (StepOver(r, c) \/ \E f : StepInto(r, c, f))
  BY <1>3 DEF Repeat, Group, Master, Local, Time, CTime, LocalIO, SkipIO, At, Free
<1>4. ASSUME RepeatEnd(r) \/ GroupEnd(r) \/ MasterEnd(r) \/ TimeEnd(r) \/ CTimeEnd(r)
      PROVE  /\ mpi[r] = NoCall /\ mpi' = mpi
             /\ \/ Leave(r)
                \/ \E n : frames' = [frames EXCEPT ![r][1].last = 0, ![r][1].round = n]
  BY <1>4 DEF RepeatEnd, GroupEnd, MasterEnd, TimeEnd, CTimeEnd, AtEnd, Free
<1>5. ASSUME BarrierReturns(r) \/ ParallelIOReturns(r)
      PROVE  mpi' = [mpi EXCEPT ![r] = NoCall] /\ StepOver(r, Current(r))
  BY <1>5 DEF BarrierReturns, ParallelIOReturns
<1>6. CASE BarrierReturns(r) \/ ParallelIOReturns(r)
  BY <1>1, <1>5, <1>6 DEF StepOver
<1>. QED BY <1>2, <1>3, <1>4, <1>6

LEMMA CallStep ==
  ASSUME Safe, VarInv, CallInv, [Next]_allVars
  PROVE  CallInv'
<1>1. CASE Idle
  BY <1>1, CallInIdle DEF Safe
<1>2. CASE ~Idle
  <2>1. PICK r \in Ranks :
         \/ \E c \in Nodes :
              \/ Repeat(r, c) \/ Group(r, c) \/ Master(r, c) \/ Local(r, c) \/ Time(r, c)
              \/ CTime(r, c) \/ LocalIO(r, c) \/ SkipIO(r, c)
         \/ RepeatEnd(r) \/ GroupEnd(r) \/ MasterEnd(r) \/ TimeEnd(r) \/ CTimeEnd(r)
         \/ BarrierReturns(r) \/ ParallelIOReturns(r)
    BY <1>2, Kinds
  <2>2. /\ mpi'[r] = NoCall
        /\ \A q \in Ranks \ {r} : mpi'[q] = mpi[q] /\ frames'[q] = frames[q]
    BY <2>1, MovesOutsideCalls DEF Safe
  <2>3. program' = program
    BY EveryStepWalks DEF Walk
  <2>4. \A q \in Ranks \ {r} : Pending(q)' = Pending(q)
    BY <2>2, <2>3, SamePending
  <2>. QED BY <2>2, <2>4 DEF CallInv
<1>. QED BY <1>1, <1>2

-------------------------------------------------------------------------------
(* Core time events.                                                            *)

LEMMA BegunTypes ==
  ASSUME Types, NEW r \in Ranks, NEW b \in Begun(r)
  PROVE  b[1] \in Nat /\ b[2] \in Nat
<1>1. coreTimeStack[r] \in Seq(CoreEvents) /\ coreTimeList[r] \in Seq(CoreEvents)
  BY DEF Types
<1>2. \A e \in CoreEvents : e.event.id \in Nat /\ e.start \in Nat
  <2>1. ASSUME NEW e \in CoreEvents PROVE e.event.id \in Nat /\ e.start \in Nat
    <3>1. e.start \in Nat /\ e.event \in [id : Nat, avgCoreTime : CoreTimes, minCoreTime : CoreTimes,
                maxCoreTime : CoreTimes, numCalls : Nat, minCallTime : Nat, maxCallTime : Nat]
      BY DEF CoreEvents
    <3>. QED BY <3>1
  <2>. QED BY <2>1
<1>. QED BY <1>1, <1>2 DEF Begun

\* No new event.
LEMMA NothingBegun ==
  ASSUME Types, BegunInv, NEW r \in Ranks, Begun(r)' \subseteq Begun(r),
         coreTimeId'[r] = coreTimeId[r], clock'[r] \in Nat, clock[r] <= clock'[r]
  PROVE  \A b \in Begun(r)' :
           /\ b[1] < coreTimeId'[r] /\ b[2] < clock'[r]
           /\ \A d \in Begun(r)' : b[1] < d[1] <=> b[2] < d[2]
<1>1. clock[r] \in Nat
  BY DEF Types
<1>2. ASSUME NEW b \in Begun(r)
      PROVE  /\ b[1] < coreTimeId'[r] /\ b[2] < clock'[r]
             /\ \A d \in Begun(r) : b[1] < d[1] <=> b[2] < d[2]
  <2>1. b[2] \in Nat
    BY BegunTypes
  <2>2. /\ b[1] < coreTimeId[r] /\ b[2] < clock[r]
        /\ \A d \in Begun(r) : b[1] < d[1] <=> b[2] < d[2]
    BY DEF BegunInv
  <2>. QED BY <1>1, <2>1, <2>2
<1>. QED BY <1>2

\* A new event has a greater id than all others, and a later start.
LEMMA OneBegun ==
  ASSUME Types, BegunInv, NEW r \in Ranks,
         Begun(r)' \subseteq Begun(r) \cup {<< coreTimeId[r], clock[r] >>},
         coreTimeId'[r] = coreTimeId[r] + 1, clock'[r] = clock[r] + 1
  PROVE  \A b \in Begun(r)' :
           /\ b[1] < coreTimeId'[r] /\ b[2] < clock'[r]
           /\ \A d \in Begun(r)' : b[1] < d[1] <=> b[2] < d[2]
<1>. DEFINE new == << coreTimeId[r], clock[r] >>
            All == Begun(r) \cup {new}
<1>1. clock[r] \in Nat /\ coreTimeId[r] \in Nat
  BY DEF Types
<1>2. \A b \in Begun(r) : /\ b[1] \in Nat /\ b[2] \in Nat
                          /\ b[1] < coreTimeId[r] /\ b[2] < clock[r]
                          /\ \A d \in Begun(r) : b[1] < d[1] <=> b[2] < d[2]
  BY BegunTypes DEF BegunInv
<1>3. new[1] = coreTimeId[r] /\ new[2] = clock[r]
  OBVIOUS
<1>. HIDE DEF new
<1>4. ASSUME NEW b \in All
      PROVE  b[1] < coreTimeId'[r] /\ b[2] < clock'[r]
  BY <1>1, <1>2, <1>3
<1>5. ASSUME NEW b \in All, NEW d \in All
      PROVE  b[1] < d[1] <=> b[2] < d[2]
  <2>1. CASE b \in Begun(r) /\ d \in Begun(r)
    BY <1>2, <2>1
  <2>2. CASE b \in Begun(r) /\ d = new
    BY <1>2, <1>3, <2>2
  <2>3. CASE b = new /\ d \in Begun(r)
    BY <1>1, <1>2, <1>3, <2>3
  <2>4. CASE b = new /\ d = new
    BY <1>1, <1>3, <2>4
  <2>. QED BY <2>1, <2>2, <2>3, <2>4
<1>6. Begun(r)' \subseteq All
  BY DEF new
<1>. QED BY <1>4, <1>5, <1>6

LEMMA BegunStep ==
  ASSUME Safe, CallInv, ContextInv, BegunInv, clock' \in [Ranks -> Nat], [Next]_allVars
  PROVE  BegunInv'
<1>1. \A q \in Ranks : clock[q] <= clock'[q]
  BY EveryStepWalks DEF Walk
<1>2. /\ coreTimeStack \in [Ranks -> Seq(CoreEvents)] /\ coreTimeList \in [Ranks -> Seq(CoreEvents)]
      /\ coreTimeId \in [Ranks -> Nat] /\ clock \in [Ranks -> Nat]
  BY DEF Safe, Types
<1>3. ASSUME \A q \in Ranks : Begun(q)' \subseteq Begun(q) /\ coreTimeId'[q] = coreTimeId[q]
      PROVE  BegunInv'
  BY <1>1, <1>3, NothingBegun DEF BegunInv, Safe
<1>4. ASSUME UNCHANGED << coreTimeStack, coreTimeList, coreTimeId >>
      PROVE  BegunInv'
  <2>1. \A q \in Ranks : Begun(q)' = Begun(q)
    BY <1>4 DEF Begun
  <2>. QED BY <1>3, <1>4, <2>1
<1>5. ASSUME NEW r \in Ranks, NEW type \in IOTypes, Count(r, type),
             coreTimeList' = coreTimeList, coreTimeId' = coreTimeId
      PROVE  BegunInv'
  <2>1. /\ \A q \in Ranks : Len(coreTimeStack'[q]) = Len(coreTimeStack[q])
        /\ \A q \in Ranks : \A i \in 1 .. Len(coreTimeStack[q]) :
              /\ coreTimeStack'[q][i].event.id = coreTimeStack[q][i].event.id
              /\ coreTimeStack'[q][i].start = coreTimeStack[q][i].start
    BY <1>5, CountTypes DEF Safe
  <2>2. ASSUME NEW q \in Ranks
        PROVE  Begun(q)' \subseteq Begun(q)
    BY <1>5, <2>1 DEF Begun
  <2>. QED BY <1>3, <1>5, <2>2
<1>6. ASSUME NEW r \in Ranks, NEW c \in Nodes, CTime(r, c)
      PROVE  BegunInv'
  <2>. DEFINE e == Entered(r, coreTimeId[r])
  <2>1. e \in CoreEvents /\ e.event.id = coreTimeId[r] /\ e.start = clock[r]
    BY EnteredTypes DEF Safe
  <2>2. /\ coreTimeStack'[r] = << e >> \o coreTimeStack[r]
        /\ \A q \in Ranks \ {r} : coreTimeStack'[q] = coreTimeStack[q]
    BY <1>6, BeginsEvent DEF Safe
  <2>3. /\ coreTimeList' = coreTimeList
        /\ coreTimeId'[r] = coreTimeId[r] + 1 /\ clock'[r] = clock[r] + 1
        /\ \A q \in Ranks \ {r} : coreTimeId'[q] = coreTimeId[q]
    BY <1>2, <1>6 DEF CTime, Tick
  <2>. HIDE DEF e
  <2>4. /\ Len(coreTimeStack'[r]) = Len(coreTimeStack[r]) + 1
        /\ coreTimeStack'[r][1] = e
        /\ \A i \in 1 .. Len(coreTimeStack'[r]) : i # 1 =>
             i - 1 \in 1 .. Len(coreTimeStack[r]) /\ coreTimeStack'[r][i] = coreTimeStack[r][i - 1]
    BY <1>2, <2>1, <2>2, PutFirst
  <2>5. ASSUME NEW i \in 1 .. Len(coreTimeStack'[r])
        PROVE  << coreTimeStack'[r][i].event.id, coreTimeStack'[r][i].start >>
                 \in Begun(r) \cup {<< coreTimeId[r], clock[r] >>}
    <3>1. CASE i = 1
      BY <2>1, <2>4, <3>1
    <3>2. CASE i # 1
      BY <2>4, <3>2 DEF Begun
    <3>. QED BY <3>1, <3>2
  <2>6. Begun(r)' \subseteq Begun(r) \cup {<< coreTimeId[r], clock[r] >>}
    BY <2>3, <2>5 DEF Begun
  <2>7. \A q \in Ranks \ {r} : Begun(q)' \subseteq Begun(q)
    BY <2>2, <2>3 DEF Begun
  <2>8. \A b \in Begun(r)' :
           /\ b[1] < coreTimeId'[r] /\ b[2] < clock'[r]
           /\ \A d \in Begun(r)' : b[1] < d[1] <=> b[2] < d[2]
    BY <2>3, <2>6, OneBegun DEF Safe
  <2>9. ASSUME NEW q \in Ranks \ {r}
        PROVE  \A b \in Begun(q)' :
                 /\ b[1] < coreTimeId'[q] /\ b[2] < clock'[q]
                 /\ \A d \in Begun(q)' : b[1] < d[1] <=> b[2] < d[2]
    BY <1>1, <2>3, <2>7, NothingBegun DEF Safe
  <2>. QED BY <2>8, <2>9 DEF BegunInv
<1>7. ASSUME NEW r \in Ranks, CTimeEnd(r)
      PROVE  BegunInv'
  <2>. DEFINE e == [Head(coreTimeStack[r]) EXCEPT !.until = Len(log[r])]
  <2>1. /\ e.event.id = coreTimeStack[r][1].event.id /\ e.start = coreTimeStack[r][1].start
        /\ \A q \in Ranks \ {r} : /\ coreTimeStack'[q] = coreTimeStack[q]
                                   /\ coreTimeList'[q] = coreTimeList[q]
        /\ Len(coreTimeStack[r]) >= 1
        /\ Len(coreTimeStack'[r]) = Len(coreTimeStack[r]) - 1
        /\ \A i \in 1 .. Len(coreTimeStack[r]) - 1 : coreTimeStack'[r][i] = coreTimeStack[r][i + 1]
        /\ coreTimeList'[r][1] = e
        /\ \A i \in 1 .. Len(coreTimeList'[r]) : i # 1 =>
             i - 1 \in 1 .. Len(coreTimeList[r]) /\ coreTimeList'[r][i] = coreTimeList[r][i - 1]
    BY <1>7, EndsEvent DEF Safe
  <2>. HIDE DEF e
  <2>2. Len(coreTimeStack[r]) \in Nat
    BY <1>2
  <2>3. ASSUME NEW i \in 1 .. Len(coreTimeStack'[r])
        PROVE  << coreTimeStack'[r][i].event.id, coreTimeStack'[r][i].start >> \in Begun(r)
    <3>1. i \in 1 .. Len(coreTimeStack[r]) - 1 /\ i + 1 \in 1 .. Len(coreTimeStack[r])
      BY <2>1, <2>2
    <3>. QED BY <2>1, <3>1 DEF Begun
  <2>4. ASSUME NEW i \in 1 .. Len(coreTimeList'[r])
        PROVE  << coreTimeList'[r][i].event.id, coreTimeList'[r][i].start >> \in Begun(r)
    <3>1. CASE i = 1
      <4>1. 1 \in 1 .. Len(coreTimeStack[r])
        BY <2>1, <2>2
      <4>. QED BY <2>1, <3>1, <4>1 DEF Begun
    <3>2. CASE i # 1
      BY <2>1, <3>2 DEF Begun
    <3>. QED BY <3>1, <3>2
  <2>5. Begun(r)' \subseteq Begun(r)
    BY <2>3, <2>4 DEF Begun
  <2>6. \A q \in Ranks \ {r} : Begun(q)' \subseteq Begun(q)
    BY <2>1 DEF Begun
  <2>7. coreTimeId' = coreTimeId
    BY <1>7 DEF CTimeEnd
  <2>. QED BY <1>3, <2>5, <2>6, <2>7
<1>8. CASE Idle
  BY <1>4, <1>8, IdleSteps
<1>9. ASSUME NEW r \in Ranks, NEW c \in Nodes,
             Repeat(r, c) \/ Group(r, c) \/ Master(r, c) \/ Local(r, c) \/ Time(r, c) \/ SkipIO(r, c)
      PROVE  BegunInv'
  BY <1>4, <1>9 DEF Repeat, Group, Master, Local, Time, SkipIO, timingVars
<1>10. ASSUME NEW r \in Ranks,
              RepeatEnd(r) \/ GroupEnd(r) \/ MasterEnd(r) \/ TimeEnd(r) \/ BarrierReturns(r)
       PROVE  BegunInv'
  BY <1>4, <1>10 DEF RepeatEnd, GroupEnd, MasterEnd, TimeEnd, BarrierReturns, timingVars
<1>11. ASSUME NEW r \in Ranks, NEW c \in Nodes, LocalIO(r, c)
       PROVE  BegunInv'
  <2>1. coreTimeList' = coreTimeList /\ coreTimeId' = coreTimeId
    BY <1>11 DEF LocalIO
  <2>. QED BY <1>5, <1>11, <2>1, LocalCounts
<1>12. ASSUME NEW r \in Ranks, ParallelIOReturns(r)
       PROVE  BegunInv'
  <2>1. coreTimeList' = coreTimeList /\ coreTimeId' = coreTimeId
    BY <1>12 DEF ParallelIOReturns
  <2>. QED BY <1>5, <1>12, <2>1, ParallelCounts
<1>. QED BY <1>6, <1>7, <1>8, <1>9, <1>10, <1>11, <1>12, Kinds

-------------------------------------------------------------------------------
(* The invariant holds throughout, and what follows from it.                    *)

LEMMA InvInit == Init => IInv
<1>. SUFFICES ASSUME Init PROVE IInv
  OBVIOUS
<1>1. program \in Programs /\ \A r \in Ranks : << >> \in Seq(Frames)
  BY DEF Init
<1>2. Frame(0, 1, 0) \in Frames /\ Frame(0, 1, 0).node = 0 /\ Frame(0, 1, 0).last = 0
      /\ Frame(0, 1, 0).round = 0 /\ Frame(0, 1, 0).count = 1 /\ Frame(0, 1, 0).start = 0
  BY DEF Frame, Frames
<1>3. PICK f \in Frames : f = Frame(0, 1, 0)
  BY <1>2
<1>4. /\ frames = [r \in Ranks |-> << f >>]
      /\ f.node = 0 /\ f.last = 0 /\ f.round = 0 /\ f.count = 1 /\ f.start = 0
  BY <1>2, <1>3 DEF Init
<1>5. Types
  <2>1. frames \in [Ranks -> Seq(Frames)]
    BY <1>4
  <2>2. NoCall \in MPICalls
    BY DEF NoCall, MPICalls
  <2>3. mpi \in [Ranks -> MPICalls] /\ DOMAIN vars = Ranks /\ job = "running" /\ program \in Programs
    BY <2>2 DEF Init
  <2>4. /\ groupStack \in [Ranks -> Seq(GroupNames)]
        /\ timeId \in [Ranks -> Nat]
        /\ coreTimeId \in [Ranks -> Nat]
        /\ clock \in [Ranks -> Nat]
        /\ timeList \in [Ranks -> Seq(Events)]
    BY DEF Init
  <2>5. /\ coreTimeStack \in [Ranks -> Seq(CoreEvents)]
        /\ coreTimeList \in [Ranks -> Seq(CoreEvents)]
        /\ log \in [Ranks -> Seq(CoreTimes)]
    BY DEF Init
  <2>. QED BY <2>1, <2>3, <2>4, <2>5 DEF Types
<1>6. \A r \in Ranks : Len(frames[r]) = 1 /\ frames[r][1] = f
  BY <1>4
<1>7. PathInv
  BY <1>4, <1>6 DEF PathInv
<1>8. FrameInv
  <2>1. \A r \in Ranks : clock[r] = 0
    BY DEF Init
  <2>. QED BY <1>4, <1>6, <2>1 DEF FrameInv
<1>9. VarInv
  BY DEF Init, VarInv
<1>10. CallInv
  BY DEF Init, CallInv
<1>11. ContextInv
  <2>1. PICK ctx : ctx = [n \in {0} |-> [groups |-> << >>, depth |-> 0]]
    OBVIOUS
  <2>2. /\ DOMAIN ctx = {0}
        /\ ctx[0] = [groups |-> << >>, depth |-> 0]
        /\ ctx[0].groups = << >> /\ ctx[0].depth = 0
        /\ ctx[0] \in Contexts
    BY <2>1 DEF Contexts
  <2>3. ContextsOf(ctx)
    BY <2>2 DEF ContextsOf
  <2>4. ASSUME NEW r \in Ranks
        PROVE  Follows(r, ctx)
    <3>1. OnPath(r) = {0}
      BY <1>4, <1>6 DEF OnPath
    <3>2. Top(r).node = 0
      BY <1>4 DEF Top
    <3>3. groupStack[r] = << >> /\ Len(coreTimeStack[r]) = 0
      BY DEF Init
    <3>. QED BY <2>2, <3>1, <3>2, <3>3 DEF Follows
  <2>. QED BY <2>3, <2>4 DEF ContextInv
<1>12. BegunInv
  <2>1. \A r \in Ranks : coreTimeStack[r] = << >> /\ coreTimeList[r] = << >>
    BY DEF Init
  <2>2. \A r \in Ranks : Begun(r) = {}
    BY <2>1 DEF Begun
  <2>. QED BY <2>2 DEF BegunInv
<1>. QED BY <1>5, <1>7, <1>8, <1>9, <1>10, <1>11, <1>12 DEF IInv

LEMMA InvStep == IInv /\ [Next]_allVars => IInv'
<1>. SUFFICES ASSUME IInv, [Next]_allVars PROVE IInv'
  OBVIOUS
<1>1. Safe /\ Types /\ PathInv /\ FrameInv /\ VarInv /\ CallInv /\ ContextInv /\ BegunInv
  BY DEF IInv, Safe
<1>2. PICK r \in Ranks : Walk(r)
  BY <1>1, EveryStepWalks
<1>3. OtherTypes'
  BY <1>1, OtherTypesStep
<1>4. DOMAIN vars' = Ranks /\ VarInv'
  BY <1>1, VarStep
<1>5. program' \in Programs /\ frames' \in [Ranks -> Seq(Frames)]
  BY <1>1, <1>2 DEF Types, Walk, WalkStays, WalkEnters, WalkLeaves, Stays, Enters, Leaves
<1>6. Types'
  BY <1>3, <1>4, <1>5 DEF Types, OtherTypes
<1>7. clock' \in [Ranks -> Nat]
  BY <1>3 DEF OtherTypes
<1>8. PathInv'
  BY <1>1, <1>2, PathStep
<1>9. FrameInv'
  BY <1>1, <1>2, <1>7, FrameStep
<1>10. CallInv'
  BY <1>1, CallStep
<1>11. ContextInv'
  BY <1>1, <1>2, <1>8, ContextStep
<1>12. BegunInv'
  BY <1>1, <1>7, BegunStep
<1>. QED BY <1>4, <1>6, <1>8, <1>9, <1>10, <1>11, <1>12 DEF IInv

\* The state of every rank is well formed: the calls of ExecuteStatement in progress end
\* at the root, no loop runs past its count, a file is one of the rank's communicators,
\* and times and ids never go below zero (ExecuteStatement, interpreter.c:80-910).
THEOREM TypeCorrect == Spec => []TypeOK
<1>1. IInv => TypeOK
  <2>. SUFFICES ASSUME IInv PROVE TypeOK
    OBVIOUS
  <2>. USE DEF IInv
  <2>1. job \in {"running", "aborted"}
    BY DEF Types
  <2>2. ASSUME NEW r \in Ranks
        PROVE  /\ frames[r] # << >> /\ frames[r][Len(frames[r])].node = 0
               /\ \A i \in 1 .. Len(frames[r]) :
                    /\ frames[r][i].node \in Nodes \cup {0}
                    /\ frames[r][i].last \in Nodes \cup {0}
                    /\ frames[r][i].round < frames[r][i].count
    <3>1. Len(frames[r]) \in Nat /\ Len(frames[r]) >= 1
      BY TopTypes
    <3>2. frames[r][Len(frames[r])].node = 0
      BY DEF PathInv
    <3>3. ASSUME NEW i \in 1 .. Len(frames[r])
          PROVE  frames[r][i].node \in Nodes \cup {0}
      <4>1. i = Len(frames[r]) \/ i \in 1 .. Len(frames[r]) - 1
        BY <3>1
      <4>. QED BY <3>2, <4>1 DEF PathInv
    <3>. QED BY <3>1, <3>2, <3>3 DEF FrameInv
  <2>3. ASSUME NEW r \in Ranks
        PROVE  \A v \in DOMAIN vars[r] :
                 \/ /\ vars[r][v].type = "VAR_INT"
                    /\ vars[r][v].int \in Nat
                 \/ /\ vars[r][v].type = "VAR_FILE"
                    /\ r \in vars[r][v].comm.ranks
    BY DEF VarInv
  <2>4. ASSUME NEW r \in Ranks
        PROVE  /\ \A i \in 1 .. Len(groupStack[r]) : groupStack[r][i] \in GroupNames
               /\ {timeId[r], coreTimeId[r], clock[r]} \subseteq Nat
               /\ \A i \in 1 .. Len(timeList[r]) : timeList[r][i] \in Events
    BY DEF Types
  <2>5. ASSUME NEW r \in Ranks
        PROVE  mpi[r].op \in {"none", "MPI_Barrier"} \cup ParallelTypes
    BY DEF Types, MPICalls
  <2>. QED BY <2>1, <2>2, <2>3, <2>4, <2>5 DEF TypeOK
<1>. QED BY <1>1, InvInit, InvStep, PTL DEF Spec

\* No two ranks are ever inside the same master block (interpreter.c:217): both are the
\* master of the groups around that block, and there is one.
THEOREM OneMaster == Spec => []MasterAlone
<1>1. IInv => MasterAlone
  <2>. SUFFICES ASSUME IInv,
                       NEW r \in Ranks, NEW q \in Ranks,
                       NEW i \in DOMAIN frames[r], NEW j \in DOMAIN frames[q],
                       frames[r][i].node = frames[q][j].node, frames[r][i].node # 0,
                       Stmt(frames[r][i].node).type = "MASTER"
                PROVE  r = q
    BY DEF MasterAlone
  <2>1. PICK ctx : \A s \in Ranks : Follows(s, ctx)
    BY DEF IInv, ContextInv
  <2>2. PICK n : n = frames[r][i].node
    OBVIOUS
  <2>3. n \in OnPath(r) /\ n \in OnPath(q)
    <3>1. DOMAIN frames[r] = 1 .. Len(frames[r]) /\ DOMAIN frames[q] = 1 .. Len(frames[q])
      BY DEF IInv, Types
    <3>. QED BY <2>2, <3>1 DEF OnPath
  <2>4. PICK groups : groups = ctx[n].groups
    OBVIOUS
  <2>5. /\ groups # << >> => r \in Members[Head(groups)] /\ q \in Members[Head(groups)]
        /\ IsMaster(r, CommUnder(r, groups)) /\ IsMaster(q, CommUnder(q, groups))
    BY <2>1, <2>2, <2>3, <2>4 DEF Follows
  <2>6. CommUnder(r, groups) = CommUnder(q, groups) /\ r \in CommUnder(q, groups).ranks
        /\ q \in CommUnder(r, groups).ranks
    BY <2>5 DEF CommUnder, CommOf, World
  <2>7. r <= q /\ q <= r
    BY <2>5, <2>6 DEF IsMaster
  <2>8. r \in Int /\ q \in Int
    BY DEF Ranks
  <2>. QED BY <2>7, <2>8
<1>. QED BY <1>1, InvInit, InvStep, PTL DEF Spec

\* Core time events are numbered in the order they began (timing.h:55), whatever order
\* they ended and were collected in.
THEOREM CoreIdsOrdered == Spec => []CoreIdsFollowStart
<1>1. IInv => CoreIdsFollowStart
  <2>. SUFFICES ASSUME IInv, NEW r \in Ranks,
                       NEW i \in DOMAIN coreTimeList[r], NEW j \in DOMAIN coreTimeList[r]
                PROVE  coreTimeList[r][i].event.id < coreTimeList[r][j].event.id
                         <=> coreTimeList[r][i].start < coreTimeList[r][j].start
    BY DEF CoreIdsFollowStart
  <2>1. DOMAIN coreTimeList[r] = 1 .. Len(coreTimeList[r])
    BY DEF IInv, Types
  <2>2. PICK b, d : /\ b = << coreTimeList[r][i].event.id, coreTimeList[r][i].start >>
                    /\ d = << coreTimeList[r][j].event.id, coreTimeList[r][j].start >>
    OBVIOUS
  <2>3. b \in Begun(r) /\ d \in Begun(r)
    BY <2>1, <2>2 DEF Begun
  <2>4. b[1] < d[1] <=> b[2] < d[2]
    BY <2>3 DEF IInv, BegunInv
  <2>. QED BY <2>2, <2>4
<1>. QED BY <1>1, InvInit, InvStep, PTL DEF Spec

-------------------------------------------------------------------------------
(***************************************************************************)
(* Proofs about core time events, for every sequence of calls: what        *)
(* dump_coretime makes of an event describes one call more than before, so *)
(* that every event describes the calls between its begin and its end.     *)
(***************************************************************************)

-------------------------------------------------------------------------------
(* Totals.                                                                      *)

\* The partial sums of a field are a function that obeys the recursion.
IsSum(sum, calls, field) ==
  sum = [n \in 0 .. Len(calls) |-> IF n = 0 THEN 0 ELSE sum[n - 1] + calls[n][field]]

LEMMA SumUnique ==
  ASSUME NEW calls \in Seq(CoreTimes), NEW field, NEW f, NEW g,
         IsSum(f, calls, field), IsSum(g, calls, field)
  PROVE  f = g
<1>. DEFINE N == Len(calls)
            D == {n \in 0 .. N : f[n] # g[n]}
<1>1. N \in Nat
  OBVIOUS
<1>2. /\ \A n \in 0 .. N : f[n] = IF n = 0 THEN 0 ELSE f[n - 1] + calls[n][field]
      /\ \A n \in 0 .. N : g[n] = IF n = 0 THEN 0 ELSE g[n - 1] + calls[n][field]
      /\ f = [n \in 0 .. N |-> f[n]] /\ g = [n \in 0 .. N |-> g[n]]
  BY DEF IsSum
<1>3. D = {}
  <2>1. SUFFICES ASSUME D # {} PROVE FALSE
    OBVIOUS
  <2>2. PICK m \in D : \A k \in D : m <= k
    <3>1. D \subseteq Nat
      BY <1>1
    <3>. HIDE DEF D
    <3>. QED BY <2>1, <3>1, Least
  <2>3. m # 0 /\ m - 1 \in 0 .. N
    BY <1>1, <1>2
  <2>4. m - 1 \notin D
    BY <1>1, <2>2, <2>3
  <2>. QED BY <1>2, <2>3, <2>4
<1>. QED BY <1>2, <1>3

\* One call more continues the sums.
LEMMA SumMore ==
  ASSUME NEW calls \in Seq(CoreTimes), NEW c \in CoreTimes, NEW field, NEW f, IsSum(f, calls, field)
  PROVE  \E g : /\ IsSum(g, Append(calls, c), field)
                /\ g[Len(calls) + 1] = f[Len(calls)] + c[field]
<1>. DEFINE N == Len(calls)
            more == Append(calls, c)
            g == [n \in 0 .. N + 1 |-> IF n = 0 THEN 0 ELSE f[n - 1] + more[n][field]]
<1>1. /\ N \in Nat /\ Len(more) = N + 1 /\ more[N + 1] = c
      /\ \A n \in 1 .. N : more[n] = calls[n]
  OBVIOUS
<1>2. \A n \in 0 .. N : f[n] = IF n = 0 THEN 0 ELSE f[n - 1] + calls[n][field]
  BY DEF IsSum
<1>. HIDE DEF N, more
<1>3. ASSUME NEW n \in 0 .. N PROVE g[n] = f[n]
  BY <1>1, <1>2
<1>4. ASSUME NEW n \in 0 .. N + 1 PROVE g[n] = IF n = 0 THEN 0 ELSE g[n - 1] + more[n][field]
  <2>1. n # 0 => n - 1 \in 0 .. N
    BY <1>1
  <2>2. g[n] = IF n = 0 THEN 0 ELSE f[n - 1] + more[n][field]
    OBVIOUS
  <2>. QED BY <1>3, <2>1, <2>2
<1>5. g = [n \in 0 .. N + 1 |-> g[n]]
  OBVIOUS
<1>6. g[N + 1] = f[N] + c[field]
  BY <1>1
<1>. HIDE DEF g
<1>7. g = [n \in 0 .. N + 1 |-> IF n = 0 THEN 0 ELSE g[n - 1] + more[n][field]]
  BY <1>4, <1>5
<1>8. IsSum(g, more, field)
  BY <1>1, <1>7 DEF IsSum
<1>. QED BY <1>6, <1>8 DEF more, N

LEMMA TotalIsSum ==
  ASSUME NEW calls \in Seq(CoreTimes), NEW field, NEW f, IsSum(f, calls, field)
  PROVE  Total(calls, field) = f[Len(calls)]
<1>. DEFINE sum == CHOOSE g : IsSum(g, calls, field)
<1>1. IsSum(sum, calls, field)
  OBVIOUS
<1>2. Total(calls, field) = sum[Len(calls)]
  BY DEF Total, IsSum
<1>. HIDE DEF sum
<1>3. sum = f
  BY <1>1, SumUnique
<1>. QED BY <1>2, <1>3

\* Every sequence of calls has sums.
LEMMA SumExists ==
  ASSUME NEW calls \in Seq(CoreTimes), NEW field
  PROVE  \E f : IsSum(f, calls, field)
<1>. DEFINE D == {n \in 0 .. Len(calls) : ~\E f : IsSum(f, SubSeq(calls, 1, n), field)}
<1>1. Len(calls) \in Nat
  OBVIOUS
<1>2. D = {}
  <2>1. SUFFICES ASSUME D # {} PROVE FALSE
    OBVIOUS
  <2>2. PICK m \in D : \A k \in D : m <= k
    <3>1. D \subseteq Nat
      BY <1>1
    <3>. HIDE DEF D
    <3>. QED BY <2>1, <3>1, Least
  <2>3. m # 0
    <3>1. SubSeq(calls, 1, 0) = << >>
      OBVIOUS
    <3>2. [n \in 0 .. 0 |-> 0] = [n \in 0 .. 0 |->
             IF n = 0 THEN 0 ELSE [k \in 0 .. 0 |-> 0][n - 1] + << >>[n][field]]
      OBVIOUS
    <3>3. IsSum([n \in 0 .. 0 |-> 0], << >>, field)
      BY <3>2 DEF IsSum
    <3>. QED BY <3>1, <3>3
  <2>4. m - 1 \in 0 .. Len(calls) /\ m - 1 \notin D
    BY <1>1, <2>2, <2>3
  <2>5. PICK f : IsSum(f, SubSeq(calls, 1, m - 1), field)
    BY <2>4
  <2>6. /\ SubSeq(calls, 1, m - 1) \in Seq(CoreTimes) /\ calls[m] \in CoreTimes
        /\ SubSeq(calls, 1, m) = Append(SubSeq(calls, 1, m - 1), calls[m])
    BY <1>1, <2>3
  <2>7. \E g : IsSum(g, SubSeq(calls, 1, m), field)
    BY <2>5, <2>6, SumMore
  <2>. QED BY <2>7
<1>3. SubSeq(calls, 1, Len(calls)) = calls
  OBVIOUS
<1>4. \E f : IsSum(f, SubSeq(calls, 1, Len(calls)), field)
  BY <1>1, <1>2
<1>. QED BY <1>3, <1>4

LEMMA TotalOfNone == ASSUME NEW field PROVE Total(<< >>, field) = 0
<1>1. << >> \in Seq(CoreTimes) /\ Len(<< >>) = 0
  OBVIOUS
<1>2. PICK f : IsSum(f, << >>, field)
  BY <1>1, SumExists
<1>3. f[0] = 0
  BY <1>1, <1>2 DEF IsSum
<1>. QED BY <1>1, <1>2, <1>3, TotalIsSum

LEMMA TotalOfMore ==
  ASSUME NEW calls \in Seq(CoreTimes), NEW c \in CoreTimes, NEW field
  PROVE  Total(Append(calls, c), field) = Total(calls, field) + c[field]
<1>1. /\ Append(calls, c) \in Seq(CoreTimes)
      /\ Len(Append(calls, c)) = Len(calls) + 1
  OBVIOUS
<1>2. PICK f : IsSum(f, calls, field)
  BY SumExists
<1>3. PICK g : /\ IsSum(g, Append(calls, c), field)
               /\ g[Len(calls) + 1] = f[Len(calls)] + c[field]
  BY <1>2, SumMore
<1>. QED BY <1>1, <1>2, <1>3, TotalIsSum

-------------------------------------------------------------------------------
(* One call more.                                                               *)

\* Throughputs are ordered, though they are compared without division.
LEMMA SlowerTransitive ==
  ASSUME NEW a \in CoreTimes, NEW b \in CoreTimes, NEW c \in CoreTimes,
         a.time > 0, b.time > 0, c.time > 0, ~Slower(a, b), ~Slower(b, c)
  PROVE  ~Slower(a, c)
<1>. DEFINE A == a.data  B == b.data  C == c.data  x == a.time  y == b.time  z == c.time
<1>1. A \in Int /\ B \in Int /\ C \in Int /\ x \in Nat /\ y \in Nat /\ z \in Nat
  BY DEF CoreTimes
<1>2. /\ x > 0 /\ y > 0 /\ z > 0
      /\ A * y >= B * x /\ B * z >= C * y
  BY <1>1 DEF Slower
<1>. SUFFICES A * z >= C * x
  BY <1>1 DEF Slower
<1>. HIDE DEF A, B, C, x, y, z
<1>3. \A m, n, k \in Int : k >= 0 /\ m >= n => m * k >= n * k
  BY SMT
<1>4. \A m, n, k \in Int : k > 0 /\ m * k >= n * k => m >= n
  BY SMT
<1>5. A * y \in Int /\ B * x \in Int /\ B * z \in Int /\ C * y \in Int
  BY <1>1
<1>6. (A * y) * z >= (B * x) * z /\ (B * z) * x >= (C * y) * x
  BY <1>1, <1>2, <1>3, <1>5
<1>7. /\ (A * y) * z = (A * z) * y /\ (B * x) * z = (B * z) * x /\ (C * y) * x = (C * x) * y
      /\ A * z \in Int /\ C * x \in Int
  BY <1>1
<1>8. (A * z) * y >= (C * x) * y
  <2>1. (A * z) * y \in Int /\ (B * z) * x \in Int /\ (C * x) * y \in Int
    BY <1>1
  <2>. QED BY <1>6, <1>7, <2>1
<1>. QED BY <1>1, <1>2, <1>4, <1>7, <1>8

LEMMA SlowerIrreflexive ==
  ASSUME NEW a \in CoreTimes PROVE ~Slower(a, a)
BY DEF Slower, CoreTimes

LEMMA SlowerAsymmetric ==
  ASSUME NEW a \in CoreTimes, NEW b \in CoreTimes, Slower(a, b) PROVE ~Slower(b, a)
BY DEF Slower, CoreTimes

AllOf(calls) == {calls[i] : i \in DOMAIN calls}
Moving(S) == {c \in S : Productive(c)}

\* The slowest and the fastest of the calls that moved something, and the shortest and the
\* longest of those that took time.
Extremes(min, max, S) ==
  IF S = {} THEN min = NoTime /\ max = NoTime
  ELSE /\ {min, max} \subseteq S
       /\ \A c \in S : ~Slower(c, min) /\ ~Slower(max, c)
Lengths(min, max, S) ==
  IF S = {} THEN min = 0 /\ max = 0
  ELSE {min, max} \subseteq S /\ \A t \in S : min <= t /\ t <= max

LEMMA DescribesParts ==
  ASSUME NEW e, NEW calls
  PROVE  Describes(e, calls) <=>
           /\ e.numCalls = Len(calls)
           /\ e.avgCoreTime = [time |-> Total(calls, "time"), data |-> Total(calls, "data")]
           /\ Extremes(e.minCoreTime, e.maxCoreTime, Moving(AllOf(calls)))
           /\ Lengths(e.minCallTime, e.maxCallTime, {c.time : c \in AllOf(calls)} \ {0})
BY DEF Describes, Extremes, Lengths, Moving, AllOf

LEMMA AllOfMore ==
  ASSUME NEW calls \in Seq(CoreTimes), NEW c \in CoreTimes
  PROVE  AllOf(Append(calls, c)) = AllOf(calls) \cup {c} /\ AllOf(calls) \subseteq CoreTimes
<1>. DEFINE N == Len(calls)
            more == Append(calls, c)
<1>1. /\ N \in Nat /\ DOMAIN calls = 1 .. N /\ DOMAIN more = 1 .. N + 1
      /\ more[N + 1] = c /\ \A i \in 1 .. N : more[i] = calls[i] /\ calls[i] \in CoreTimes
  OBVIOUS
<1>2. 1 .. N + 1 = (1 .. N) \cup {N + 1}
  BY <1>1
<1>. HIDE DEF N, more
<1>3. AllOf(more) = AllOf(calls) \cup {c}
  BY <1>1, <1>2 DEF AllOf
<1>4. AllOf(calls) \subseteq CoreTimes
  BY <1>1 DEF AllOf
<1>. QED BY <1>3, <1>4 DEF more

LEMMA ExtremesMore ==
  ASSUME NEW e, NEW c \in CoreTimes, NEW S, S \subseteq CoreTimes, \A d \in S : Productive(d),
         Extremes(e.minCoreTime, e.maxCoreTime, S)
  PROVE  Extremes(SlowestOf(e, c), FastestOf(e, c), S \cup Moving({c}))
<1>1. CASE ~Productive(c)
  BY <1>1 DEF SlowestOf, FastestOf, Moving
<1>2. CASE Productive(c) /\ S = {}
  <2>1. e.minCoreTime.time = 0 /\ e.maxCoreTime.time = 0
    BY <1>2 DEF Extremes, NoTime
  <2>2. SlowestOf(e, c) = c /\ FastestOf(e, c) = c /\ S \cup Moving({c}) = {c}
    BY <1>2, <2>1 DEF SlowestOf, FastestOf, Moving
  <2>. QED BY <2>2, SlowerIrreflexive DEF Extremes
<1>3. CASE Productive(c) /\ S # {}
  <2>. DEFINE min == e.minCoreTime  max == e.maxCoreTime
              lo == SlowestOf(e, c)  hi == FastestOf(e, c)
  <2>1. /\ min \in S /\ max \in S /\ min \in CoreTimes /\ max \in CoreTimes
        /\ \A d \in S : ~Slower(d, min) /\ ~Slower(max, d)
    BY <1>3 DEF Extremes
  <2>2. c.time > 0 /\ \A d \in S : d \in CoreTimes /\ d.time \in Nat /\ d.time > 0
    BY <1>3 DEF Productive, CoreTimes
  <2>3. /\ lo = IF Slower(c, min) THEN c ELSE min
        /\ hi = IF Slower(max, c) THEN c ELSE max
        /\ Moving({c}) = {c}
    BY <1>3, <2>1, <2>2 DEF SlowestOf, FastestOf, Moving
  <2>. HIDE DEF min, max, lo, hi
  <2>4. ASSUME NEW d \in S PROVE ~Slower(d, lo) /\ ~Slower(hi, d)
    <3>1. ~Slower(d, lo)
      <4>1. CASE Slower(c, min)
        <5>1. ~Slower(min, c)
          BY <2>1, <4>1, SlowerAsymmetric
        <5>. QED BY <2>1, <2>2, <2>3, <4>1, <5>1, SlowerTransitive
      <4>2. CASE ~Slower(c, min)
        BY <2>1, <2>3, <4>2
      <4>. QED BY <4>1, <4>2
    <3>2. ~Slower(hi, d)
      <4>1. CASE Slower(max, c)
        <5>1. ~Slower(c, max)
          BY <2>1, <4>1, SlowerAsymmetric
        <5>. QED BY <2>1, <2>2, <2>3, <4>1, <5>1, SlowerTransitive
      <4>2. CASE ~Slower(max, c)
        BY <2>1, <2>3, <4>2
      <4>. QED BY <4>1, <4>2
    <3>. QED BY <3>1, <3>2
  <2>5. ~Slower(c, lo) /\ ~Slower(hi, c)
    BY <2>3, SlowerIrreflexive
  <2>6. lo \in S \cup {c} /\ hi \in S \cup {c}
    BY <2>1, <2>3
  <2>7. Extremes(lo, hi, S \cup Moving({c}))
    BY <2>3, <2>4, <2>5, <2>6 DEF Extremes
  <2>. QED BY <2>7 DEF lo, hi
<1>. QED BY <1>1, <1>2, <1>3

LEMMA LengthsMore ==
  ASSUME NEW min \in Nat, NEW max \in Nat, NEW t \in Nat, NEW S, S \subseteq Nat, 0 \notin S,
         Lengths(min, max, S)
  PROVE  Lengths(IF t > 0 /\ (min = 0 \/ t < min) THEN t ELSE min,
                 IF t > max THEN t ELSE max, S \cup ({t} \ {0}))
<1>1. CASE t = 0
  BY <1>1 DEF Lengths
<1>2. CASE t # 0 /\ S = {}
  BY <1>2 DEF Lengths
<1>3. CASE t # 0 /\ S # {}
  <2>1. min \in S /\ max \in S /\ min # 0 /\ \A s \in S : s \in Nat /\ min <= s /\ s <= max
    BY <1>3 DEF Lengths
  <2>2. S \cup ({t} \ {0}) = S \cup {t} /\ t > 0
    BY <1>3
  <2>. QED BY <2>1, <2>2 DEF Lengths
<1>. QED BY <1>1, <1>2, <1>3

CoreEventValues ==
  [id : Nat, avgCoreTime : CoreTimes, minCoreTime : CoreTimes, maxCoreTime : CoreTimes,
   numCalls : Nat, minCallTime : Nat, maxCallTime : Nat]

\* A new event describes no calls.
LEMMA DescribesNone == ASSUME NEW id PROVE Describes(NewEvent(id), << >>)
<1>. DEFINE e == NewEvent(id)
<1>1. /\ e.numCalls = 0 /\ e.avgCoreTime = NoTime /\ e.minCoreTime = NoTime
      /\ e.maxCoreTime = NoTime /\ e.minCallTime = 0 /\ e.maxCallTime = 0
  BY DEF NewEvent
<1>2. AllOf(<< >>) = {} /\ Len(<< >>) = 0
  BY DEF AllOf
<1>3. Total(<< >>, "time") = 0 /\ Total(<< >>, "data") = 0
  BY TotalOfNone
<1>4. Moving({}) = {} /\ {c.time : c \in {}} \ {0} = {}
  BY DEF Moving
<1>. HIDE DEF e
<1>5. Describes(e, << >>)
  BY <1>1, <1>2, <1>3, <1>4, DescribesParts DEF Extremes, Lengths, NoTime
<1>. QED BY <1>5 DEF e

\* dump_coretime keeps what an event says true: if it described the calls so far, it
\* describes them and this one.
LEMMA DescribesMore ==
  ASSUME NEW e \in CoreEventValues, NEW calls \in Seq(CoreTimes), NEW c \in CoreTimes, Describes(e, calls)
  PROVE  Describes(Account(e, c), Append(calls, c))
<1>. DEFINE f == Account(e, c)
            more == Append(calls, c)
<1>1. /\ f.avgCoreTime = [time |-> e.avgCoreTime.time + c.time, data |-> e.avgCoreTime.data + c.data]
      /\ f.minCoreTime = SlowestOf(e, c) /\ f.maxCoreTime = FastestOf(e, c)
      /\ f.numCalls = e.numCalls + 1
      /\ f.minCallTime = IF c.time > 0 /\ (e.minCallTime = 0 \/ c.time < e.minCallTime)
                         THEN c.time ELSE e.minCallTime
      /\ f.maxCallTime = IF c.time > e.maxCallTime THEN c.time ELSE e.maxCallTime
  BY DEF Account
<1>2. /\ e.numCalls = Len(calls)
      /\ e.avgCoreTime = [time |-> Total(calls, "time"), data |-> Total(calls, "data")]
      /\ Extremes(e.minCoreTime, e.maxCoreTime, Moving(AllOf(calls)))
      /\ Lengths(e.minCallTime, e.maxCallTime, {d.time : d \in AllOf(calls)} \ {0})
  BY DescribesParts
<1>3. AllOf(more) = AllOf(calls) \cup {c} /\ AllOf(calls) \subseteq CoreTimes
  BY AllOfMore
<1>4. f.numCalls = Len(more)
  BY <1>1, <1>2
<1>5. f.avgCoreTime = [time |-> Total(more, "time"), data |-> Total(more, "data")]
  <2>1. /\ Total(more, "time") = Total(calls, "time") + c.time
        /\ Total(more, "data") = Total(calls, "data") + c.data
    BY TotalOfMore
  <2>2. e.avgCoreTime.time = Total(calls, "time") /\ e.avgCoreTime.data = Total(calls, "data")
    BY <1>2
  <2>. QED BY <1>1, <2>1, <2>2
<1>. HIDE DEF f, more
<1>6. Extremes(f.minCoreTime, f.maxCoreTime, Moving(AllOf(more)))
  <2>1. Moving(AllOf(more)) = Moving(AllOf(calls)) \cup Moving({c})
    BY <1>3 DEF Moving
  <2>2. Moving(AllOf(calls)) \subseteq CoreTimes /\ \A d \in Moving(AllOf(calls)) : Productive(d)
    BY <1>3 DEF Moving
  <2>. DEFINE S == Moving(AllOf(calls))
  <2>. HIDE DEF S
  <2>3. Extremes(SlowestOf(e, c), FastestOf(e, c), S \cup Moving({c}))
    <3>1. Extremes(e.minCoreTime, e.maxCoreTime, S)
      BY <1>2 DEF S
    <3>2. S \subseteq CoreTimes /\ \A d \in S : Productive(d)
      BY <2>2 DEF S
    <3>. QED BY <3>1, <3>2, ExtremesMore
  <2>. QED BY <1>1, <2>1, <2>3 DEF S
<1>7. Lengths(f.minCallTime, f.maxCallTime, {d.time : d \in AllOf(more)} \ {0})
  <2>. DEFINE S == {d.time : d \in AllOf(calls)} \ {0}
  <2>1. {d.time : d \in AllOf(more)} \ {0} = S \cup ({c.time} \ {0})
    BY <1>3
  <2>2. S \subseteq Nat /\ 0 \notin S
    BY <1>3 DEF CoreTimes
  <2>3. c.time \in Nat /\ e.minCallTime \in Nat /\ e.maxCallTime \in Nat
    BY DEF CoreTimes, CoreEventValues
  <2>4. Lengths(e.minCallTime, e.maxCallTime, S)
    BY <1>2
  <2>. HIDE DEF S
  <2>5. Lengths(IF c.time > 0 /\ (e.minCallTime = 0 \/ c.time < e.minCallTime)
                THEN c.time ELSE e.minCallTime,
                IF c.time > e.maxCallTime THEN c.time ELSE e.maxCallTime, S \cup ({c.time} \ {0}))
    <3>. DEFINE t == c.time  min == e.minCallTime  max == e.maxCallTime
    <3>. HIDE DEF t, min, max
    <3>1. t \in Nat /\ min \in Nat /\ max \in Nat /\ Lengths(min, max, S)
      BY <2>3, <2>4 DEF t, min, max
    <3>2. Lengths(IF t > 0 /\ (min = 0 \/ t < min) THEN t ELSE min,
                  IF t > max THEN t ELSE max, S \cup ({t} \ {0}))
      BY <2>2, <3>1, LengthsMore
    <3>. QED BY <3>2 DEF t, min, max
  <2>. QED BY <1>1, <2>1, <2>5
<1>8. Describes(f, more)
  BY <1>4, <1>5, <1>6, <1>7, DescribesParts
<1>. QED BY <1>8 DEF f, more

-------------------------------------------------------------------------------
(* Every event describes its part of the log.                                   *)

\* An active event describes the calls since it began, a completed one those until it ended.
Measures(r, e, until) ==
  /\ e.before <= until /\ until <= Len(log[r])
  /\ Describes(e.event, SubSeq(log[r], e.before + 1, until))
MeasureInv ==
  \A r \in Ranks :
    /\ \A i \in 1 .. Len(coreTimeStack[r]) : Measures(r, coreTimeStack[r][i], Len(log[r]))
    /\ \A i \in 1 .. Len(coreTimeList[r]) : Measures(r, coreTimeList[r][i], coreTimeList[r][i].until)

LEMMA EventFields ==
  ASSUME NEW e \in CoreEvents
  PROVE  e.event \in CoreEventValues /\ e.before \in Nat /\ e.until \in Nat
BY DEF CoreEvents, CoreEventValues

LEMMA PartOfMore ==
  ASSUME NEW calls \in Seq(CoreTimes), NEW c \in CoreTimes, NEW n \in Nat, n <= Len(calls)
  PROVE  /\ SubSeq(calls, n + 1, Len(calls)) \in Seq(CoreTimes)
         /\ SubSeq(Append(calls, c), n + 1, Len(calls) + 1) =
              Append(SubSeq(calls, n + 1, Len(calls)), c)
<1>. DEFINE part == SubSeq(calls, n + 1, Len(calls))
            more == SubSeq(Append(calls, c), n + 1, Len(calls) + 1)
<1>1. part \in Seq(CoreTimes) /\ more \in Seq(CoreTimes)
  OBVIOUS
<1>2. Len(part) = Len(calls) - n /\ Len(more) = Len(calls) + 1 - n
  OBVIOUS
<1>3. ASSUME NEW i \in 1 .. Len(calls) + 1 - n PROVE more[i] = Append(part, c)[i]
  OBVIOUS
<1>4. Append(part, c) \in Seq(CoreTimes) /\ Len(Append(part, c)) = Len(part) + 1
  <2>. HIDE DEF part
  <2>. QED BY <1>1
<1>. HIDE DEF part, more
<1>5. more = Append(part, c)
  <2>1. \A s, t \in Seq(CoreTimes) : Len(s) = Len(t) /\ (\A i \in 1 .. Len(s) : s[i] = t[i]) => s = t
    OBVIOUS
  <2>2. Len(more) = Len(Append(part, c)) /\ Len(more) = Len(calls) + 1 - n
    BY <1>2, <1>4
  <2>. QED BY <1>1, <1>3, <1>4, <2>1, <2>2
<1>. QED BY <1>1, <1>5 DEF part, more

LEMMA PartOfSame ==
  ASSUME NEW calls \in Seq(CoreTimes), NEW c \in CoreTimes, NEW n \in Nat, NEW m \in Nat,
         m <= Len(calls)
  PROVE  SubSeq(Append(calls, c), n + 1, m) = SubSeq(calls, n + 1, m)
<1>1. ASSUME NEW i \in 1 .. m - n PROVE Append(calls, c)[i + n] = calls[i + n]
  OBVIOUS
<1>2. Len(calls) \in Nat
  OBVIOUS
<1>. QED BY <1>1, <1>2

\* A call in the log of rank r, and in all its active events.
LEMMA MeasureCount ==
  ASSUME Types, MeasureInv, NEW r \in Ranks, NEW type \in IOTypes, Count(r, type),
         coreTimeList' = coreTimeList
  PROVE  MeasureInv'
<1>1. /\ coreTimeStack \in [Ranks -> Seq(CoreEvents)] /\ log \in [Ranks -> Seq(CoreTimes)]
      /\ coreTimeList \in [Ranks -> Seq(CoreEvents)]
  BY DEF Types
<1>2. PICK call \in Outcomes(type) :
        IF type \in TimedTypes
        THEN /\ DumpCoreTime(r, call.coreTime)
             /\ log' = [log EXCEPT ![r] = Append(@, call.coreTime)]
        ELSE coreTimeStack' = coreTimeStack /\ log' = log
  BY DEF Count
<1>3. CASE type \notin TimedTypes
  BY <1>2, <1>3 DEF MeasureInv, Measures
<1>4. CASE type \in TimedTypes
  <2>. DEFINE c == call.coreTime
              s == coreTimeStack[r]
              t == [i \in DOMAIN s |-> Accounted(s[i], c)]
              n == Len(log[r])
  <2>1. c \in CoreTimes
    BY OutcomeTypes
  <2>2. /\ coreTimeStack' = [coreTimeStack EXCEPT ![r] = t]
        /\ log' = [log EXCEPT ![r] = Append(log[r], c)]
    BY <1>2, <1>4 DEF DumpCoreTime
  <2>. HIDE DEF c
  <2>3. /\ \A q \in Ranks \ {r} : coreTimeStack'[q] = coreTimeStack[q] /\ log'[q] = log[q]
        /\ coreTimeStack'[r] = t /\ log'[r] = Append(log[r], c)
    BY <1>1, <2>2
  <2>4. n \in Nat /\ Len(log'[r]) = n + 1 /\ log[r] \in Seq(CoreTimes)
    BY <1>1, <2>3
  <2>5. s \in Seq(CoreEvents) /\ Len(s) \in Nat /\ DOMAIN s = 1 .. Len(s)
    BY <1>1
  <2>6. Len(t) = Len(s) /\ \A i \in 1 .. Len(s) : t[i] = Accounted(s[i], c)
    <3>. HIDE DEF s
    <3>. QED BY <2>5
  <2>. HIDE DEF n, s, t
  <2>7. ASSUME NEW i \in 1 .. Len(coreTimeStack'[r])
        PROVE  Measures(r, coreTimeStack[r][i], Len(log[r]))'
    <3>. DEFINE e == s[i]
                f == t[i]
    <3>1. i \in 1 .. Len(s) /\ e \in CoreEvents
      BY <2>3, <2>5, <2>6, <2>7
    <3>2. e.event \in CoreEventValues /\ e.before \in Nat
      BY <3>1, EventFields
    <3>3. f.event = Account(e.event, c) /\ f.before = e.before
      <4>1. f = [e EXCEPT !.event = Account(e.event, c)]
        BY <2>6, <3>1 DEF Accounted
      <4>. HIDE DEF e, f
      <4>. QED BY <3>1, <4>1 DEF CoreEvents
    <3>4. e.before <= n /\ Describes(e.event, SubSeq(log[r], e.before + 1, n))
      BY <3>1 DEF MeasureInv, Measures, s, n
    <3>. HIDE DEF e, f
    <3>. DEFINE part == SubSeq(log[r], e.before + 1, n)
    <3>5. part \in Seq(CoreTimes) /\ SubSeq(log'[r], e.before + 1, n + 1) = Append(part, c)
      <4>1. /\ SubSeq(log[r], e.before + 1, Len(log[r])) \in Seq(CoreTimes)
            /\ SubSeq(Append(log[r], c), e.before + 1, Len(log[r]) + 1) =
                 Append(SubSeq(log[r], e.before + 1, Len(log[r])), c)
        BY <2>1, <2>4, <3>2, <3>4, PartOfMore DEF n
      <4>. QED BY <2>3, <4>1 DEF n
    <3>. HIDE DEF part
    <3>6. Describes(Account(e.event, c), Append(part, c))
      BY <2>1, <3>2, <3>4, <3>5, DescribesMore DEF part
    <3>7. Describes(f.event, SubSeq(log'[r], f.before + 1, Len(log'[r])))
      BY <2>4, <3>3, <3>5, <3>6
    <3>8. f.before <= Len(log'[r]) /\ Len(log'[r]) <= Len(log'[r])
      BY <2>4, <3>2, <3>3, <3>4
    <3>9. coreTimeStack'[r][i] = f
      BY <2>3 DEF f
    <3>. QED BY <3>7, <3>8, <3>9 DEF Measures
  <2>8. ASSUME NEW i \in 1 .. Len(coreTimeList[r])
        PROVE  Measures(r, coreTimeList[r][i], coreTimeList[r][i].until)'
    <3>. DEFINE e == coreTimeList[r][i]
    <3>1. e \in CoreEvents /\ e.before \in Nat /\ e.until \in Nat
      BY <1>1, EventFields
    <3>2. /\ e.before <= e.until /\ e.until <= n
          /\ Describes(e.event, SubSeq(log[r], e.before + 1, e.until))
      BY DEF MeasureInv, Measures, n
    <3>. HIDE DEF e
    <3>3. SubSeq(log'[r], e.before + 1, e.until) = SubSeq(log[r], e.before + 1, e.until)
      <4>1. SubSeq(Append(log[r], c), e.before + 1, e.until) = SubSeq(log[r], e.before + 1, e.until)
        BY <2>1, <2>4, <3>1, <3>2, PartOfSame DEF n
      <4>. QED BY <2>3, <4>1
    <3>4. e.until <= Len(log'[r])
      BY <2>4, <3>1, <3>2
    <3>5. coreTimeList'[r][i] = e
      BY DEF e
    <3>. QED BY <3>2, <3>3, <3>4, <3>5 DEF Measures
  <2>9. ASSUME NEW q \in Ranks \ {r}
        PROVE  /\ \A i \in 1 .. Len(coreTimeStack'[q]) : Measures(q, coreTimeStack[q][i], Len(log[q]))'
               /\ \A i \in 1 .. Len(coreTimeList'[q]) :
                    Measures(q, coreTimeList[q][i], coreTimeList[q][i].until)'
    BY <2>3 DEF MeasureInv, Measures
  <2>. QED BY <2>7, <2>8, <2>9 DEF MeasureInv
<1>. QED BY <1>3, <1>4

\* A new event begins with the next call.
LEMMA MeasureBegin ==
  ASSUME Types, MeasureInv, NEW r \in Ranks, NEW c \in Nodes, CTime(r, c)
  PROVE  MeasureInv'
<1>1. /\ coreTimeStack \in [Ranks -> Seq(CoreEvents)] /\ log \in [Ranks -> Seq(CoreTimes)]
  BY DEF Types
<1>2. log' = log /\ coreTimeList' = coreTimeList
  BY DEF CTime, ioVars
<1>. DEFINE e == Entered(r, coreTimeId[r])
<1>3. /\ coreTimeStack'[r] = << e >> \o coreTimeStack[r]
      /\ \A q \in Ranks \ {r} : coreTimeStack'[q] = coreTimeStack[q]
  BY BeginsEvent
<1>4. e \in CoreEvents
  BY EnteredTypes
<1>5. e.event = NewEvent(coreTimeId[r]) /\ e.before = Len(log[r])
  BY DEF Entered
<1>. HIDE DEF e
<1>6. /\ coreTimeStack'[r][1] = e
      /\ \A i \in 1 .. Len(coreTimeStack'[r]) : i # 1 =>
           i - 1 \in 1 .. Len(coreTimeStack[r]) /\ coreTimeStack'[r][i] = coreTimeStack[r][i - 1]
  BY <1>1, <1>3, <1>4, PutFirst
<1>7. Measures(r, e, Len(log[r]))
  <2>1. Len(log[r]) \in Nat /\ SubSeq(log[r], Len(log[r]) + 1, Len(log[r])) = << >>
    BY <1>1
  <2>2. Describes(e.event, << >>)
    BY <1>5, DescribesNone
  <2>3. SubSeq(log[r], e.before + 1, Len(log[r])) = << >> /\ e.before <= Len(log[r])
    BY <1>5, <2>1
  <2>4. Describes(e.event, SubSeq(log[r], e.before + 1, Len(log[r])))
    BY <2>2, <2>3
  <2>5. Len(log[r]) <= Len(log[r])
    BY <2>1
  <2>. QED BY <2>3, <2>4, <2>5, Zenon DEF Measures
<1>8. ASSUME NEW i \in 1 .. Len(coreTimeStack'[r])
      PROVE  Measures(r, coreTimeStack[r][i], Len(log[r]))'
  <2>1. Measures(r, coreTimeStack'[r][i], Len(log[r]))
    BY <1>6, <1>7 DEF MeasureInv
  <2>. QED BY <1>2, <2>1 DEF Measures
<1>. QED BY <1>2, <1>3, <1>8 DEF MeasureInv, Measures

\* An event is completed as it is.
LEMMA MeasureEnd ==
  ASSUME Types, PathInv, ContextInv, MeasureInv, NEW r \in Ranks, CTimeEnd(r)
  PROVE  MeasureInv'
<1>. DEFINE h == coreTimeStack[r][1]
            e == [Head(coreTimeStack[r]) EXCEPT !.until = Len(log[r])]
<1>1. /\ coreTimeStack \in [Ranks -> Seq(CoreEvents)] /\ log \in [Ranks -> Seq(CoreTimes)]
      /\ coreTimeList \in [Ranks -> Seq(CoreEvents)] /\ Len(log[r]) \in Nat
      /\ Len(coreTimeStack[r]) \in Nat
  BY DEF Types
<1>2. log' = log
  BY DEF CTimeEnd, ioVars
<1>3. /\ \A q \in Ranks \ {r} : /\ coreTimeStack'[q] = coreTimeStack[q]
                                 /\ coreTimeList'[q] = coreTimeList[q]
      /\ Len(coreTimeStack[r]) >= 1
      /\ Len(coreTimeStack'[r]) = Len(coreTimeStack[r]) - 1
      /\ \A i \in 1 .. Len(coreTimeStack[r]) - 1 : coreTimeStack'[r][i] = coreTimeStack[r][i + 1]
      /\ coreTimeList'[r][1] = e
      /\ \A i \in 1 .. Len(coreTimeList'[r]) : i # 1 =>
           i - 1 \in 1 .. Len(coreTimeList[r]) /\ coreTimeList'[r][i] = coreTimeList[r][i - 1]
  BY EndsEvent
<1>4. 1 \in 1 .. Len(coreTimeStack[r]) /\ h \in CoreEvents /\ Head(coreTimeStack[r]) = h
  BY <1>1, <1>3, DropFirst
<1>5. e.event = h.event /\ e.before = h.before /\ e.until = Len(log[r])
  <2>. HIDE DEF h
  <2>. QED BY <1>1, <1>4 DEF CoreEvents
<1>6. Measures(r, h, Len(log[r]))
  BY <1>4 DEF MeasureInv
<1>. HIDE DEF e, h
<1>7. Measures(r, e, e.until)
  BY <1>5, <1>6 DEF Measures
<1>8. ASSUME NEW i \in 1 .. Len(coreTimeStack'[r])
      PROVE  Measures(r, coreTimeStack[r][i], Len(log[r]))'
  <2>1. i \in 1 .. Len(coreTimeStack[r]) - 1 /\ i + 1 \in 1 .. Len(coreTimeStack[r])
    BY <1>1, <1>3
  <2>2. Measures(r, coreTimeStack'[r][i], Len(log[r]))
    BY <1>3, <2>1 DEF MeasureInv
  <2>. QED BY <1>2, <2>2 DEF Measures
<1>9. ASSUME NEW i \in 1 .. Len(coreTimeList'[r])
      PROVE  Measures(r, coreTimeList[r][i], coreTimeList[r][i].until)'
  <2>1. Measures(r, coreTimeList'[r][i], coreTimeList'[r][i].until)
    BY <1>3, <1>7 DEF MeasureInv
  <2>. QED BY <1>2, <2>1 DEF Measures
<1>. QED BY <1>2, <1>3, <1>8, <1>9 DEF MeasureInv, Measures

LEMMA MeasureStep ==
  ASSUME IInv, MeasureInv, [Next]_allVars
  PROVE  MeasureInv'
<1>1. Types /\ PathInv /\ ContextInv
  BY DEF IInv
<1>2. ASSUME UNCHANGED << coreTimeStack, coreTimeList, log >>
      PROVE  MeasureInv'
  BY <1>2 DEF MeasureInv, Measures
<1>3. CASE Idle
  BY <1>2, <1>3, IdleSteps
<1>4. ASSUME NEW r \in Ranks, NEW c \in Nodes,
             Repeat(r, c) \/ Group(r, c) \/ Master(r, c) \/ Local(r, c) \/ Time(r, c) \/ SkipIO(r, c)
      PROVE  MeasureInv'
  BY <1>2, <1>4 DEF Repeat, Group, Master, Local, Time, SkipIO, timingVars, ioVars
<1>5. ASSUME NEW r \in Ranks,
             RepeatEnd(r) \/ GroupEnd(r) \/ MasterEnd(r) \/ TimeEnd(r) \/ BarrierReturns(r)
      PROVE  MeasureInv'
  BY <1>2, <1>5 DEF RepeatEnd, GroupEnd, MasterEnd, TimeEnd, BarrierReturns, timingVars, ioVars
<1>6. ASSUME NEW r \in Ranks, NEW c \in Nodes, LocalIO(r, c)
      PROVE  MeasureInv'
  BY <1>1, <1>6, LocalCounts, MeasureCount DEF LocalIO
<1>7. ASSUME NEW r \in Ranks, ParallelIOReturns(r)
      PROVE  MeasureInv'
  BY <1>1, <1>7, ParallelCounts, MeasureCount DEF ParallelIOReturns
<1>8. ASSUME NEW r \in Ranks, NEW c \in Nodes, CTime(r, c)
      PROVE  MeasureInv'
  BY <1>1, <1>8, MeasureBegin
<1>9. ASSUME NEW r \in Ranks, CTimeEnd(r)
      PROVE  MeasureInv'
  BY <1>1, <1>9, MeasureEnd
<1>. QED BY <1>3, <1>4, <1>5, <1>6, <1>7, <1>8, <1>9, Kinds

\* What a core time event reports is what dump_coretime (timing.c:131) was given between
\* its begin and its end, and nothing else: number, total, extremes.
THEOREM EventsDescribe == Spec => []EventsMeasure
<1>1. Init => MeasureInv
  <2>. SUFFICES ASSUME Init PROVE MeasureInv
    OBVIOUS
  <2>1. \A r \in Ranks : Len(coreTimeStack[r]) = 0 /\ Len(coreTimeList[r]) = 0
    BY DEF Init
  <2>. QED BY <2>1 DEF MeasureInv
<1>2. IInv /\ MeasureInv => EventsMeasure
  <2>. SUFFICES ASSUME IInv, MeasureInv, NEW r \in Ranks, NEW i \in DOMAIN coreTimeList[r]
                PROVE  LET e == coreTimeList[r][i] IN
                       Describes(e.event, SubSeq(log[r], e.before + 1, e.until))
    BY DEF EventsMeasure
  <2>1. i \in 1 .. Len(coreTimeList[r])
    BY DEF IInv, Types
  <2>. QED BY <2>1 DEF MeasureInv, Measures
<1>3. IInv /\ MeasureInv /\ [Next]_allVars => MeasureInv'
  BY MeasureStep
<1>. QED BY <1>1, <1>2, <1>3, InvInit, InvStep, PTL DEF Spec

===============================================================================
