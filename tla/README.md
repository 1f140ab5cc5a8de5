# Parabench in TLA+

Parabench is a parallel, programmable I/O benchmark.  `mpirun` starts one process per rank;
every rank parses the same kernel, written in PBL, and interprets it on its own; the ranks meet
in MPI collectives.  At the end rank 0, the master, gathers what was measured and reports it.
This directory has TLA+ modules of the parts where ranks interact, TLC configurations that
check them on small instances, and TLAPS proofs for every size where we have them.  Sources are
named relative to `src/src/`.

## The system

| Part | Source | State it keeps | Operations | Meets others in |
|---|---|---|---|---|
| Lifecycle | `main.c` | `waitForStartSignal`, handlers, the point reached | `main`, `delayStart`, `sigfunc`, `quit` | 5 world barriers, a broadcast, `MPI_Finalize`, signals |
| Group mapping | `groups.c`, `main.c:42` (`-g`) | `sizeGroupmap`, `groupMap`, `lower_bound`, `min_rank`, `last_subtag` | `group_cb`, `create_groups` | a world barrier and `MPI_Comm_create` per group |
| Interpreter | `interpreter.c`, `groups.c:230` | C stack, variables, `groupStack`, `timeList`, `coreTimeStack`, counters | `ExecuteStatement`, one case per statement | barriers, parallel I/O on the active group or on the communicator of a file |
| Parallel I/O | `iio_mpi.c`, `patterns.c` | patterns (MPI datatypes), open files, file pointers | `pfopen`, `pfclose`, `pfwrite`, `pfread`, `pwrite`, `pread` (four levels each), `pdelete` | collective open, view, access, close; the file |
| Gathering | `main.c:98-229` | `timeList`, `coreTimeList`, `statementsSucceed/Fail` | three `gather_` functions | blocking sends to the master |
| POSIX I/O | `iio_posix.c`, `iio.c` | descriptors and their file pointers | one function per statement, each timed | the file system |
| Expressions, variables | `expressions.c`, `variables.c`, `parameters.c` | hash table of variables, pieces of a string still to be substituted | evaluation, substitution of `$x`, `$$rank`, `$$env(X)`; parameters from default, environment and command line | the interpreter |
| Parser | `parser.y`, `scanner.l`, `ast.c` | the tree, definitions | grammar actions: lists, blocks, loops | calls `create_groups`, `create_pattern`; the tree is what the interpreter walks |
| Core time | `timing.c` | events | `dump_coretime`, comparison of events | called for every timed I/O statement |
| Report, XML | `main.c:323-420`, `interpreter.c:1247`, `xml.c` | the master's lists, sorted in place; buffer and open elements of the document | print and export | the gathered lists |
| Preprocessor, modules | `ppc/`, `modules/` | none at run time | code generation | none |

How they interact.  `main` parses the command line on every rank (the `-g` options fill
`sizeGroupmap`), passes a barrier, and parses the kernel; the parser calls `create_groups` and
`create_pattern` at once, so that the collectives of the group mapping happen *during* parsing.
`iiStart` walks the tree.  A `group` block pushes a group that `create_groups` made on
`groupStack`; `barrier`, `master` and all parallel I/O take their communicator from the top of that
stack.  I/O statements hand their time to `dump_coretime`, which adds it to every active core time
event, and count themselves in `statementsSucceed` or `statementsFail`.  After a barrier the three
gather functions move lists and counters to the master.

Hard behaviours.  There are no threads and nothing is persisted, so there is no crash recovery.
What is hard is SPMD: each rank decides on its own whether it enters a collective call, and nothing
but the program text keeps these decisions equal (group mapping, overlapping groups, loops whose
counts depend on the rank, early exits); a signal arrives at any point of `main`; senders run ahead
of the master with the same tags; independent writes interleave on one file; errors of MPI are
mostly logged and ignored.

What makes each part correct:

* group mapping: tags keep groups apart as promised, every rank computes the same groups,
  no rank waits for another for good;
* interpreter: kernels whose collectives are balanced end, ranks meet in the same statement and
  iteration, one rank per master block, every timed call counts for exactly the active events;
* parallel I/O: ranks' stripes tile the file, success means all bytes are there, what was written is
  read back with any level, nobody is left waiting;
* gathering: everything arrives once, in the list it belongs to, whatever MPI buffers;
* report: events in the promised order, none lost or doubled by sorting, and a document that reads back;
* core time: an event's figures describe the calls made inside it, however events nest;
* kernels: what a text prints and does is what the text says, although the tree is built backwards, strings
  are substituted piece by piece and parameters come from three places;
* lifecycle: the benchmark starts on all ranks together and not before the signal, and all exit.

## Modules

`MCx.tla` instantiates `x.tla` for TLC.  A definition `Name_Suffix` is a mutant of `Name`: a version
with a plausible bug, which the model does not use, and under which a property of the module fails.

### Groups (`create_groups`, `group_cb`)

All ranks walk the sorted list of definitions.  `WorldBarrier` is the barrier at the top of the loop
(`groups.c:130`), `MapGroup` the computation of `ranks[]` up to the call of `MPI_Comm_create`,
`SkipGroup` the branch without one, `CreateComm` the collective and the insertion in `groupMap`.
`StartBound` and `MappedCount` are the bound after its two resets and the chopped request.
`g_slist_sort` is any stable sort (`IsSortOf`).  `StoredSize` has the three forms of a `-g` option; for a
number that `sscanf` cannot read, `size` is uninitialised and each rank may hold another value of
`Unread`.  Ranks with different sizes may map different `ranks[]` for one definition, and hand differing
groups to `MPI_Comm_create`, which is erroneous: it gives each rank nothing or any of `Strays`
(`Handles`), or ends the job (`CreateErroneous`), or does not return (no fairness is assumed of such
a call).  `MapOverflow` is the signed overflow of `lower_bound + num`: undefined, so a rank may abort.

### Interp and CoreTime (`ExecuteStatement`, `timing.c`)

Each rank has a stack of `frames`, one per call of `ExecuteStatement` in progress, over a tree of nodes
in preorder.  There is one action to enter and one to leave each block statement.  A collective call is
three steps: the rank enters (`Barrier`, `ParallelIO`), MPI completes it when *all* ranks of that
communicator are in the same operation (`CollectiveCompletes`), the rank returns.  MPI pairs calls by
order, so two ranks in barriers of different statements do meet in the model, as they do in MPI.
`pfopen`, `pwrite` and `pread` take the communicator that is active; `pfwrite`, `pfread` and `pfclose`
take that of the file, which is kept in the file variable (`FileVar`, `IOComm`), and may be executed under
another group than the one that opened it.  POSIX statements are one type, since they differ in
nothing the other state sees; their inside is PosixIO.  `PWRITE` stands for pwrite and pread, `PFWRITE` for
pfwrite and pfread, whose inside is ParallelIO.  `Outcomes` says how a statement can be counted and what
it reports as time and data, the -1 of a failed `write` included.

`CoreTime` is the arithmetic of an event: `Account` is what `dump_coretime` does to each active one, and
`Describes` the definition without order it is compared with.  Times are integers, throughputs are
compared by cross-multiplication.

The reference for control flow is read off the kernel: `Executions` says how often a rank executes a node,
`Partners` who has to take part in a collective, `Opens` which open a file statement uses, and `Balanced`
is the condition under which the ranks never hold each other up.

### Kernel, Parser, Expressions and Meaning (`parser.y`, `expressions.c`, `variables.c`, `parameters.c`)

`Kernel` follows one process from the text of a kernel to its end, with values.  A text is a sequence of
statements, what bison makes of the source; `Parser` is what the rules build from it: lists by prepending,
blocks merged into their loop, and one reversal at the end (`Reversed`).  `SetDefaults` and `SetArgument`
are `iiSetParameters`.  The loop of `var_replace_substrings` is the action `Replace`, one piece per step:
`toProcess` and `result` are the variables of the C function.  A string is a sequence of tokens: dollar,
backslash, digits, names and other characters.  `Expressions` evaluates to numbers and strings with the
status the code returns.  `Meaning` is a second reading of the same text, by recursion on statements, with
no tree, stack or pieces; `PrintsAsWritten` compares the two.  Quirks are in both readings where
they are visible in the text of a kernel (the loop variable is destroyed after the loop, a right operand
without a value counts as 0); the crash of a block that is empty or begins with a semicolon is only in
`Kernel`, and `Readable` excludes it.

### ParallelIO (`iio_mpi.c`, `patterns.c`)

The ranks of one communicator run a list of statements on one file.  The file maps offsets to bytes,
and a byte is the record of its writer, statement and place in the writer's view, so that any misplaced
byte shows.  `View1` and `View2` are the two subarray datatypes; `Collective`, `Calls` and `CallBytes` the
four levels.  `Open`, `SetView`, `AccessCollective` and `Close` take all ranks; `AccessIndependent` is
one call of one rank.  The code reads every iteration into the beginning of one buffer and never looks
at it; `buffer` keeps all bytes for the properties.  `MPI_File_open` may fail on all ranks or on some
(`Openings`); the code logs it and goes on with a handle it never set.  `UseUninitialized` lets such a
process die, or get through the statement with any count, without meeting the others in `set_view`; ranks
that did open the file then wait for it in `set_view` or `close` for good (`Deserted`).  With `faulty`, opens
fail and transfers are short; the file pointer moves by what was asked for, as the MPI standard has it.
Errors of `set_view` on a file that is open are outside of these faults.  Deleting a file that is open is left
out: what happens then is up to the file system.

### PosixIO (`iio_posix.c`)

Every rank runs its own list of statements on descriptors of its own; the ranks share names (`dir`) and
files (`inodes`).  A step is a system call, or calls between which nothing shared is used: `OpenFile`
opens and perhaps truncates, `Measure` asks for the length that `READALL` reads, `Transfer` is the
`write` or `read`.  The descriptor of a one-shot statement is `fd`, that of the kernel's file variable
`var`; a `fclose` that fails has closed the descriptor and left the variable.  `Prepare` is what comes before
the transfer: the `lseek` to the offset, which may fail, and the buffer, which there is none of for 0 bytes;
both ways the statement ends (`GiveUp`), and a one-shot statement closes its file.  Of the two `lseek`s of
`READALL` nobody tests the result: if the second fails the pointer stays at the end (`Measure`), if the first
does the length is -1, for which `g_malloc0` aborts (`MeasureFails`).  `ModeFlags` are the six
modes of `fopen`, the `O_` flags by name are left out, and `fseek` has `SEEK_SET` only.  With `faulty`, calls
fail and transfers are short.
`Statements` are what a rank may run: amounts and offsets are the numbers their expressions evaluate to,
not negative unless they are the defaults `READALL` and `OFFSET_CUR`.
`Alone` is the reference for `AsIfAlone`: what one rank's statements return if each is one step
on a sequence of bytes.

### Gather and Collection (`gather_timeevents`, `gather_coretimeevents`, `gather_commandstats`)

Each sender has a FIFO channel to the master (MPI does not reorder messages of one sender, and all the
receives name a sender).  `capacity` is how many messages MPI buffers: with 0, a send returns only after
its receive (`Returned`).  `Received` models the transfer of core time events with `timeevent_type`.
`Loads` are the ids in the ranks' lists in the order a kernel may leave them (`MayLeave`): a time event draws its id
when its block ends, so the ids of a time list fall; a core time event draws it when its block begins and
is prepended when it ends, so nested blocks leave other orders.

`Collection` is what the three functions promise, without messages: one event or one rank's counters at a
time go over to the master, in a fixed order, until nothing is left.  `Collects` says that every step of
Gather is a step of it or a stutter, `CollectsAll` that it comes to its end; the mapping reads what is
still to be given off the master's place in its loops (`Taken`).

### Report (`iiTimeReport`, `iiCoreTimeReport`, `export_xml`, `xml.c`)

Report extends Gather: while senders may still be returning, the master sorts and prints its lists
(`iiTimeReport`, `iiCoreTimeReport` sort in place) and exports sorted copies.  `SortList` is the merge sort of
glib, because `CompareFull` is not an order when `strcmp` returns other numbers than -1, 0 and 1, and then
the result depends on the algorithm.  The document is a buffer of tokens and a stack of open elements
(`StartElement`, `AddAttribute`, `EndElement`); `Text` is the text of a tree, for `ExportReadsBack`.

### Lifecycle and Stages (`main`)

Each rank is at one of the `Points` of `main`; at some it is in a collective.  A rank finds the kernel
file good, faulty (syntax error) or missing, and the command line may end the program (`Endings`): by
`quit`, which finalizes, or by `exit(1)` on an unknown option or parameter, which does not, so that mpirun
ends the job (`Exit1`; the `exit(0)` of `--help` is left out).  `Signal` may hit any rank at any time; `patient` users wait for the master's
message first.  Interpretation, gathering and reporting are one step each here.

`Stages` is what `main` promises: ranks go through stages, some stages end in a gate that nobody passes
before all have come to it, ranks leave only at exits, and nobody is gone while another is in a stage.
`Staged` says that Lifecycle implements it.  A delayed start is a gate only for patient users.

### Composition

Lifecycle contains the others in time: Groups runs within its `Parse`, Interp within
`Interpret`, Gather within `GatherAll`; Report extends Gather, and is its `PrintReport`.  What Lifecycle
proves of its gates is what lets the others begin with all ranks: nobody gathers before all have left the
benchmark.  Kernel is the view of one rank, with values, of what Interp shows of all ranks without
them; both have loops, and each a reference for them.  Interp takes from Groups only `Members`, the groups as mapped,
which is what `CommConsistent` and `EveryRankReturns` of Groups justify; it takes from ParallelIO that
parallel I/O is collective and returns (`AllReturn`, that is, where opens succeed on all ranks or on none), and
from PosixIO that a POSIX statement waits for nobody and is counted as one success or one failure.

## Runs

| Run | Instance | Shows |
|---|---|---|
| `groups` | 3 ranks; all lists of 3 groups over 4 kinds of tag, and lists naming one twice; all sizes 0..3, negative, bare, unreadable | `SingleExclusive`, `SubtagDisjoint`: tags keep groups apart; `CommConsistent`: ranks agree on members and size; `CutOnlyAtTop`, `Packed`: chopped only at the end, no holes; `EveryRankReturns`; all but `TypeOK` for ranks that hold the same sizes |
| `interp` | 3 ranks, groups {0,1}, {1,2}, {0} and one unmapped; all kernels of at most 3 control statements; of at most 4 (5 in a loop) groups, loops and barriers; of at most 4 loops, groups and file statements; timing and I/O statements under rank 0, 4 nodes and some of 6, with faults; with `--dry-run` | `MasterAlone`; `SamePlace`: MPI pairs calls of the same statement and iteration; `NeverStuck`, `BalancedFinishes`: balanced kernels end; `ExecutedAsOften`: statements are counted as often as the text says; `EventsMeasure`, `CoreIdsFollowStart` |
| `parallel_io` | 2 ranks; pattern groups equal to, larger than, and missing a rank of the communicator; iter and elem 1..2 and an empty pattern; both types and all levels on both sides of a write and read; the pf-statements; deletion; rewriting; with faults, opens that fail on one rank among them | `Stripes`, `NeverOverwritten`, `Complete`, `ReadBack`, `HealthyRunSucceeds`; `AllReturn`: no failure leaves ranks waiting but an open that fails on some only |
| `posix_io` | 2 ranks; sequences of up to 5 statements on a rank's own file beside work on other names; two appends each to one file; short mixes on one name; with faults of every call | `AppendsIntact`: appends of both ranks never overwrite or mix; `NoLeak`: no descriptor stays open, whichever call fails; `AsIfAlone`: offsets, file pointers and `READALL` do what the single steps of `Alone` do |
| `report` | 3 ranks; 0..2 events of each kind per sender, in every order nested blocks leave, two nested ones of either kind on the master; buffers of 0 and 3 messages; all export options; names that are equal, differ by 1 and by 2 | `GatheredOnce`, `NothingLeft`; `Collects`, `CollectsAll`: Gather implements Collection, with its liveness; `ReportOrdered`, `ExportReadsBack` |
| `lifecycle` | 3 ranks, all combinations of files and command lines, one signal per rank at any time | `NoStartBeforeSignal`; `Staged`: Lifecycle implements Stages; `AllExit` |
| `kernel` | 1 rank; all kernels of at most 3 of 19 statements (assignments, prints, reads and writes, loops in braces and without, nested, empty statements), and some for `$$env`, `%` and `^`; 2 environments, 4 argument lists | `PrintsAsWritten`: lines, I/O calls, variables and the way it ends are those of `Meaning`; `Ends` |

Each run with `TypeOK` in its configuration checks it too.  `CHECK_DEADLOCK FALSE` stands only where
ranks really may wait for each other for good: kernels that are not balanced, ranks with different files
or sizes, an early signal.  The runs then say under which condition they do not.

Why these bounds.  Three ranks are the fewest that have two different overlapping groups, and a world
larger than a group; three definitions are the fewest in which two groups of a kind follow one of
another.  A kernel of 5 nodes holds two groups nested in a loop with a barrier on either side.  Two ranks
with two iterations of two bytes tell rows, columns and bytes of the stripes apart.  Two events per kind (`MaxEvents`)
come in both orders, and with two senders one can be a whole function ahead; `Namings` are the three ways `strcmp` can answer.
`IntMax` is 6, so that the overflow is in reach.  `MaxSignals` is 1: a second signal finds the flag cleared.
Three statements (`MaxLength`) let one set a variable, a loop take it and a print show what is left; the
loops of the list have nested bodies of their own.  `MaxPieces` is 6, which only an endless
substitution reaches: `PrintsAsWritten` says so.

Fairness.  `FairSpec` has weak fairness of each rank's steps (processes are scheduled by the operating
system) and of the completion of a collective that all its ranks have entered (which MPI guarantees).  No
fairness is assumed of signals, of faults or of anything the user does.  In `interp` and `kernel` weak fairness
of any step at all is enough.  In `report` it is that of the gather functions.  `AllExit` therefore has
the master waiting for a signal nobody sends as one of its outcomes.

### What the code does otherwise than it says

| Run | Property | |
|---|---|---|
| `interp_time_ids` | `TimeIdsFollowStart` | A time event draws its id when the block *ends* (`interpreter.c:178`), so of nested blocks the outer has the larger one; `timing.h:43` says the id keeps "global command start order". Core time events do. |
| `gather_names` | `NamesArrive` | Core time events are sent as `timeevent_type` (`main.c:189`), which ends at character 191 of the name; the rest is whatever `malloc` returned. |
| `lifecycle_signal` | `WorldNotified` | A signal after the handler is installed and before the master tests the flag (`main.c:525`) makes it skip `delayStart`: the others wait in `MPI_Bcast` for good. |
| `parallel_io_delete` | `DeleteCounted` | `iio_pdelete` always returns FALSE: `MPI_ASSERT` has an `rc` of its own (`iio_mpi.c:692`), so no deletion is ever counted as successful. |
| `kernel_env` | `PostDataKept` | What follows `$$env(ARG)` in a string is lost: the data put back (`variables.c:207`, "add post variable data") begins at the parenthesis that was overwritten with a zero. |

Seen while modelling, without a run of their own (where a state of a model shows it, the module has it):

* `pfopen` and `pfclose` are counted as successes whatever MPI returns; a read or write that failed adds its
  -1 to the data of the active events.
* A pattern made for a group a rank is not in gives that rank the stripes of the group's first rank.
* Kernels that call collectives in different orders on overlapping groups may hang, as in any MPI program.
* The exported lists are sorted by comparing the result of `strcmp` with -1 and 1 (`timing.c:205`, `261`):
  with a C library that returns differences, names that differ by more count as equal.  XML values are
  not escaped, and `minCallTime` of an event without calls is exported as `G_MAXDOUBLE`.
* A kernel that begins with `;` runs nothing; a block that is empty or begins with `;` is a null pointer
  dereference (`parser.y:223`).
* `g_assert(loopCount >= 0)` stands before the test of the status (`interpreter.c:146`); a right operand that
  cannot be evaluated is taken for 0 (`expressions.c:105`); `READ` tests the status of two of its three
  parameters (`interpreter.c:580`); `%lu` prints a negative variable as a large number; `$a = $b;` is an Error.
* `$$crand` is never reached: its name contains `rand`, which is tested first (`variables.c:214`,
  `expressions.c:57`), so every rank draws a number of its own.
* `clean_created_data` has nothing to delete, since nothing fills `fileList` and `dirList`, and its count of
  errors would be one of successes.
* Counters and `iter * elem` are ints without a check for overflow (`main.c:221`, `iio_mpi.c:77`); a label of
  `NAME_SIZE` characters stays without a terminating zero (`timing.c:63`).

## Proofs

Every theorem is about `Spec` of its module, without fairness, for every value of the constants that the
named assumptions allow; TLC evaluates those on the run of the module.

| Module | Theorems | For every |
|---|---|---|
| `GroupsProofs` | `TypeCorrect`, `SingleIsExclusive`, `SubtagIsDisjoint`, `BlocksAgree`, `CutAtTop`, `SpaceIsPacked` | number of ranks, list, set of options, `IntMax`, `Strays` |
| `InterpProofs` | `TypeCorrect`, `OneMaster`, `CoreIdsOrdered`, `EventsDescribe` | number of ranks, mapping of groups, kernel |
| `InterpPlacesProofs` | `MeetingsAreMeant`, `NobodyStuck`, `EachAsOften` | the same |
| `GatherProofs` | `TypeCorrect`, `ChannelsDrain`, `GathersOnce`, `ImplementsCollection` | number of ranks, load, counters, buffering |
| `ReportProofs` | `ReportsInOrder`, `ExportsReadBack`, `ReportCollects`, `ReportKeepsGathered` | the same, and names and options |
| `PosixIOProofs` | `TypeCorrect`, `DescriptorsKept`, `AppendsStayWhole`, `LikeAlone` | set of ranks, of names, program |
| `ParallelIOProofs` | `TypeCorrect`, `LayoutStriped`, `WritesApart`, `WritesComplete`, `ReadsBack` | set of ranks, program, group, size of elements, iterations |
| `LifecycleProofs` | `TypeCorrect`, `StartsAfterSignal`, `ImplementsStages` | number of ranks, inputs, signals |

### Groups

Assumptions: `SizeAssumption` (at least one rank), `DefListsAssumption` (lists are as the grammar makes
them), `OptionListsAssumption`, `UnreadAssumption` (integers), `StraysAssumption` (sets of ranks),
`IntMaxAssumption` (more ints than ranks).  `TypeCorrect` is also for ranks with different sizes; the other
theorems are, like their properties, for ranks that hold the same (`SameSizes`).

That `MPI_Comm_create` gets one group is not assumed.  Ranks compute it each with bounds of its own, and one may be
past a group that another has still to map.  `Walk` says that the barrier keeps them within the same definition
(`Lockstep`), and that they have, or will have by the end of it, the same bounds and the same `ranks` (`View`); so
all are in the call or none is, with the same group (`WalkersAgree`), and the call is correct (`CreateMakes`).

* `TypeCorrect`: the part that is not obvious is that `lower_bound`, `min_rank` and `num` stay in
  `0 .. Size`; it needs the list to be non-empty and the index to be inside it (`InList`).
* `SingleIsExclusive`, `SubtagIsDisjoint`: that groups already inserted do not clash says nothing of
  the next one.  The invariant `IInv` is `TypeOK /\ InList /\ Walk /\ Sorted /\ \A r : RankInv(r)`.  `Sorted` says
  that the list is in the order of tag and subtag, which follows from `IsSortOf` alone, and is why a group
  with another subtag is never followed by one with the first.  `RankInv` relates the groups a rank is
  in to the bounds: members of single groups lie below `min_rank`, members of the current row of disjoint
  groups below `lower_bound`, and while a rank is in `MPI_Comm_create` the group it is about to join
  clashes with none it is in.  One lemma per action proves its preservation, over `InsertInv`
  about adding a block to `groupMap`.
* `BlocksAgree` (`CommConsistent`), `CutAtTop` (`CutOnlyAtTop`): the invariant `AgreeInv` adds to `Walk` what
  each rank brings into the call (`Counted`), and what the block it gets says and what the others hold (`Agreed`).
* `SpaceIsPacked` (`Packed`): blocks lag behind the bounds, so `PackedBy` counts the group a rank is about to
  create as held (`Holds`).  Then each rank's *own* bounds describe what *all* ranks hold: single groups
  fill `0 .. min_rank - 1`, the current row ends at `lower_bound`, and earlier rows begin at `min_rank`.  This is
  for lists without a name twice, as `Packed` says, and needs `IInv` and `AgreeInv`.

### Interpreter

Assumptions: `SizeAssumption`, `MembersAssumption` (groups have ranks of the world as members) and
`ProgramsAssumption` (a kernel is a tree in preorder, as the interpreter walks it, with statements of the known
types, of which only blocks have statements inside).  Loops may have any count, groups may overlap, kernels need not be
balanced and calls may fail.

* `TypeCorrect`: the invariant keeps a path from the current node to the root in the stack of calls
  (`PathInv`), loops inside their counts (`FrameInv`), variables that hold a number or a file of one of
  the rank's communicators (`VarInv`), and a rank in a collective as a member of its communicator (`CallInv`).
* `OneMaster` (`MasterAlone`): two ranks are the master of a block only if the block is under *the same*
  groups for both, but each pushes and pops its own `groupStack`.  `ContextInv` says that there is one
  assignment of groups to nodes (`ContextsOf`) which the stacks of all ranks follow, and that a rank is a
  member of every group around it and the master of those around the master blocks it is in.
  The assignment is kept under an existential quantifier and grows with the nodes that are entered.
* `CoreIdsOrdered` (`CoreIdsFollowStart`): `BegunInv` is the order of ids and start times over all events of a
  rank, on the stack and collected; that the stack has one entry per `ctime` block around the node
  is part of `ContextInv`.
* `EventsDescribe` (`EventsMeasure`): `MeasureInv` says of every event, also an active one, that it describes its part
  of the log of calls.  That `Account` keeps `Describes` is arithmetic about sums and extremes of a part of a sequence
  that grows by one call.

`InterpPlacesProofs` compares ranks that are at different points of the same kernel.  The
recursive functions of the reference (`Around`, `Executions`) are shown to exist and to obey their recursion by
taking the least node at which they would not (`Least`); what follows from them is proved the same way.  A *position*
(`IsPosition`) gives for the root and every block that is being executed the round and the statement that comes next; positions
are ordered as the walk visits them (`Before`), and every step of a rank stays at its position or goes to the next one.

* `MeetingsAreMeant` (`SamePlace`): MPI pairs calls without looking at the statement, and ranks may be anywhere.
  `TogetherInv` says for every place of a collective statement of a balanced kernel that all ranks of its communicator
  have passed it, or none has.  Then two ranks in one call are at the same place, since otherwise one has
  passed the other's place and the other has not.  What it needs besides is in `MeetingInv`: `CourseInv`, the
  frames follow the tree and the loops have the counts the kernel says; `MeetInv` and `CommInv`, a call is the one its
  statement says on the communicator its statement says; and `FilesInv`, the communicator of a file is still in its variable
  wherever the rank uses it (`CommAt`), which depends on all the places between opening and use.
* `NobodyStuck` (`NeverStuck`): of the ranks that wait, take one whose position is least (`Hindmost`).  The others of its
  communicator are not before it, or they would not wait; they have not passed its place, by `TogetherInv`; so they are
  there, in the same call, and it can complete.
* `EachAsOften` (`ExecutedAsOften`): a *way* to a node is a position at which the rank would execute it.
  `WaysCount` says that there are as many as `Executions`, since the ways to a node are the ways to its parent times the rounds of
  the parent (`OneToOne`); `TallyInv` that what is counted is the number of ways passed (`Made`).  At the end all are.

### Gathering

Assumptions: `SizeAssumption`, `CapacityAssumption`, `CountersAssumption`, `LongAssumption` (well-typed constants) and
`LoadsAssumption` (lists are as `MayLeave` says; of this the proofs use that no id is twice in a list).  A capacity of
0 is a synchronous send.

All messages of a sender form one stream (`Message`); what it has sent is a prefix of it, what the master
has taken a shorter one, and the channel holds what lies between: this is `ChanInv`, and it says for every
receive that the message is of the kind the loop expects, which with equal tags in all
three functions nothing else does.  `LoopInv` has the loops, `MadeInv` that the lists of the senders stay as they
were, and `HaveInv` what the master's lists contain: nothing of a sender it has not taken, all it has, nothing twice.

* `TypeCorrect`; `ChannelsDrain` (`NothingLeft`) from `ChanInv` for what is taken in the end; `GathersOnce`
  (`GatheredOnce`) from `HaveInv`.
* `ImplementsCollection`: `Spec => Collects`.  Sends, and receives of counts, are stutters; a
  receive of an event, or of the second counter, is the next step of Collection.

### Report and export

Assumptions: those of Gather; `NamingsAssumption` (names are integers, as far as `strcmp` can tell them apart) and
`NamedAssumption` (every event has a name).  Lists may have any length and come in every order that nested blocks leave.

*Sorting.* `MergeSteps` and `SortExists` show that the recursive functions of `Merge` and `SortList` exist and obey
their recursion; as everywhere here, what would be an induction is a contradiction from the least counterexample (`LeastNumber`).
`Merging` is the invariant of the merge: what has been taken is sorted and precedes all that remains
(`MergeSorts`), and `SortSorts` is the same for the halves.  It needs an order, which `Comparable` makes of the compare
functions: the names differ by no more than one, or are not looked at.  Without it there is `Holds`, which says
no more than that the list has what was taken: `SortKeeps`, and with the pigeonhole principle `SortPermutes`, that
nothing is lost or doubled whatever the comparison answers.

*The document.* `Doc(B, S)` is a document with text `B` and open elements `S`.  One lemma per function of `xml.c` says what
it appends; whether the tag above is still open (`Begun`) or has content (`Filled`) is what decides.  `Children` says
that a document to which each of some children adds its text has the texts of all in turn, and `ElementText` that an
element is then written as its `Text`, with children or without; events, lists and the report are instances.

* The invariant `RInv` is Gather's `IInv` and what the report adds: `NamedInv` (events on their way have names), `StepInv`
  (from the report on the master is through with gathering) and `SortedInv` (the lists it has sorted are sorted).
  That `IInv` survives `SortFor` is the point of `ListSorted`: a list of the master is exchanged for another with the
  same elements, none twice, while senders are still returning.
* `ReportsInOrder` (`ReportOrdered`); `ExportsReadBack` (`ExportReadsBack`) with `DocInv`, the document that is there is the
  text of the lists as they are, which nobody changes any more (`ListsStand`).
* `ReportCollects` (`Collects`) and `ReportKeepsGathered` (`GatheredOnce`, `NothingLeft`) carry Gather's theorems over to
  the program that reports: sorting is a stutter of Collection (`SortShowsNothing`).

### POSIX I/O

Assumptions: `RanksAssumption` and `ProgramsAssumption` (every rank has a sequence of `Statements`, and only
reads lack a size, as in the grammar).  Ranks work on the same names and files in any mix, and calls may fail.

`Step` summarizes what a step of a rank does to its descriptors, its variable, the files and its results; one lemma
per action proves it, and the invariants are proved from it.

* `TypeCorrect`: an inode is never reused and keeps its kind, so descriptors of one rank stay good whatever
  another does to the names.  `RankInv` adds where a rank is in its statement, and that the descriptor
  in the variable is not one that the one-shot statement in progress will close (`Kept`).
* `DescriptorsKept` (`NoLeak`): a statement keeps the descriptors it found, however it ends (`GiveUpStep`, `GoOnStep`, the
  steps of `Transfer`), unless it opens or closes the variable's.  For these `LeakInv` says that if the descriptor in the variable is open there was a
  `fopen` without `fclose` since, so that a program which closes before it opens never loses one.
* `AppendsStayWhole` (`AppendsIntact`): `AppendInv` says why nobody else writes to the file or moves its end
  between the opening of an append and its write: the file has one name (`OneName`), it is
  open only in one-shot statements on that name, with their flags (`OnlyAtWork`), it has no holes (`Whole`), and
  what was counted as appended is there (`AllThere`).
* `LikeAlone` (`AsIfAlone`): `AloneInv` relates a rank with a file of its own to the reference between *any* two system
  calls.  `OwnFile`: the file has one name, no descriptor of another rank stands for it, and it holds what it holds in the
  reference before the statement, or nothing yet if a `write` has truncated it.  `Pointer`: the file pointer of the variable's
  descriptor is that of the reference.  `Underway`: how much the statement is about to transfer and from where, so that the
  length `Measure` asked for is still right when `Transfer` uses it.  `Answers`: what was returned so far.  `OthersKeepOff` is
  the interference of the others, and needs nothing of them but that they do not name the file; `Holds` relates the file, a
  function on offsets with holes, to the sequence of the reference, and `HoldsStored` is a write on both.

### Parallel I/O

Assumptions: `RanksAssumption` (finitely many, at least one) and `ProgramsAssumption` (sequences of statements with
`Patterns`, whose groups are finite and not empty).  Groups need not have anything to do with the ranks, levels may be invalid,
elements and iterations zero, files may fail to open on all or some of the ranks and any transfer may be short.

The first part is about `Offset` alone: `OffsetInRows` brings both pattern types to one form, rows of one element per
rank, by division and remainder by variables; `OffsetPlace` gives back row, column and byte; so `OffsetsDiffer` (no
offset twice, since `ColumnsDiffer`) and `OffsetsTaken` (no offset missing, since columns are a bijection).  The second
part summarizes a step as `Walk`: each rank idles, goes on, returns or makes a call of a transfer, and the file stays, is
deleted or gets the bytes of those calls; one lemma per action proves it, with the types and `RankInv`, where a rank is
in its statement and how far its transfer got.

* `TypeCorrect`: `pos` is `calls` times `CallBytes`, whence the bounds.
* `LayoutStriped` (`Stripes`): `WrittenInv` gives every byte of the file its source, a rank and a place in a write.
* `WritesApart` (`NeverOverwritten`): `TogetherInv` says that a rank transfers only when *all* ranks have set the view of its
  statement, so none that is behind can write into it; and within a statement `OffsetsDiffer`.
* `WritesComplete` (`Complete`): `KeptInv`, what a rank has moved without a short transfer is in the file, or a rank is
  at a later statement that may change the file (`Disturbed`), and `OffsetsTaken`.
* `ReadsBack` (`ReadBack`): `KeptInv` does not help a rank that still reads while others are at later statements, so
  `ReadableInv` says what these can do meanwhile: not write, which takes a view all have set, but delete, and
  then nothing more is read.  `ReadInv` is the contents of the buffer.

### Lifecycle

Assumptions: `SizeAssumption`, `InputsAssumption` and `SignalAssumption` (well-typed constants).  The ranks
need not find the same file.

* `TypeCorrect`.
* `StartsAfterSignal` (`NoStartBeforeSignal`): the invariant is `SignalInv`: until the handler has run, the
  master is not in the broadcast, hence it has not completed for anybody, hence nobody is behind it.
* `ImplementsStages`: `Spec => Staged`, the refinement.  Steps of a rank are first shown to be of five
  kinds (`StepMoves`): it walks on within a stage, skips a delay there is none of, gives up, exits, or passes
  a gate; everything else is about these.  The invariant `SInv` has, besides `TypeOK`:
  `PathInv`, a rank that has got somewhere found what it needed on the way, so that a rank that has
  left is in the stage its input says; `PatientInv`, no flag is cleared before the master waits;
  `JointInv` and `FinalInv`, the broadcast and `MPI_Finalize` have completed for all or none; and `GateInv`, all
  or none are through a gate (`Through`).  The step that needs all of them is the completion of a barrier:
  MPI pairs barriers by order, and `SameBarrier` proves that the ranks in one are in the *same* one, since a
  rank behind would be in a barrier that those ahead have passed together with it.

### Only model-checked

* Liveness, which needs fairness and `ENABLED`: `EveryRankReturns`, `BalancedFinishes`, `CollectsAll`, `AllExit`,
  `HealthyRunSucceeds`, `AllReturn`, `Ends`.
* `PrintsAsWritten` and the `TypeOK` of Meaning: Parser, Expressions, Kernel and Meaning recur over trees
  (`RECURSIVE`), and what a recursion over data computes is not for this prover.
* `TimeIdsFollowStart`, `NamesArrive`, `WorldNotified` and the other properties of the runs that expect a violation
  are false.

## Not modelled

* Random numbers: `$$rand` is in no kernel of the models, and `getCollectiveRandomNumber` is unreachable.
* The operators of `expressions.c` that the grammar has no rule for (factorial, bits, comparisons), and 0 to a
  negative power, an infinity that is cast to an integer.
* The grammar and the scanner themselves: tables that bison and flex turn into code.  What the rules *do*
  is modelled: lists, blocks and loops, group definitions, `translate_posix_flags`.
* The layout of reports, the command report (a print of counters), file output of the XML document,
  logging and backtraces: output without decisions.
* `ppc/` and `modules/`: generated at build time, no state of their own.  Build and tests.
* MPI and the file system are modelled as far as the code relies on them and marked external in the map.  A crash of a single
  process is the end of the job, which is what mpirun makes of it; nothing is persisted, so there is no
  restart.

## Plan

Written, in this order: Groups, GroupsProofs, Interp, Gather, Lifecycle, ParallelIO, PosixIO, CoreTime, Collection,
Report, Stages, LifecycleProofs, Parser, Expressions, Kernel, Meaning, GatherProofs, InterpProofs,
PosixIOProofs, ParallelIOProofs, InterpPlacesProofs, ReportProofs.
