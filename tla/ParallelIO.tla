------------------------------ MODULE ParallelIO ------------------------------
(***************************************************************************)
(* Parallel I/O (iio_mpi.c, patterns.c): the ranks of one communicator run *)
(* a sequence of pwrite, pread, pfopen, pfwrite, pfread, pfclose and       *)
(* pdelete statements on one file.  A pattern gives every rank a view of   *)
(* its own stripes of the file; its level says how they are accessed:      *)
(* with independent (0, 2) or collective (1, 3) calls, one per iteration   *)
(* (0, 1) or one for all (2, 3).                                           *)
(***************************************************************************)
EXTENDS Integers, Sequences, FiniteSets

CONSTANTS
  Ranks,    \* world ranks of the processes of the active communicator
  Programs  \* what to run: [stmts, faulty], statements and whether the file may fail

(***************************************************************************)
(* A Pattern as defined in the kernel: group has the world ranks of the    *)
(* group it was created for.  A group that was not mapped, or an array     *)
(* without rows (pattern type 2), aborts in create_pattern.                *)
(***************************************************************************)
Patterns == {p \in [type : {1, 2}, iter : Nat, elem : Nat, level : Nat, group : SUBSET Nat] :
               IsFiniteSet(p.group) /\ p.group # {} /\ (p.type = 2 => p.iter > 0)}

Ops == {"pwrite", "pread", "pfopen", "pfwrite", "pfread", "pfclose", "pdelete"}
Writes == {"pwrite", "pfwrite"}
Reads == {"pread", "pfread"}
\* The statements that open and close the file themselves.
OpensItself == {"pwrite", "pread"}

ASSUME RanksAssumption == Ranks # {} /\ Ranks \subseteq Nat /\ IsFiniteSet(Ranks)
ASSUME ProgramsAssumption ==
  \A p \in Programs :
    p.faulty \in BOOLEAN /\ p.stmts \in Seq([op : Ops, pattern : Patterns])

VARIABLES
  program, \* the statements, the same on every rank
  job,     \* "running", or "aborted" by MPI_Abort or a crash
  file,    \* the file: offset -> the byte written there; its domain may have holes
  exists,  \* whether the file exists
  ip,      \* per rank: index of the current statement
  pc,      \* per rank: the call it is at within the statement
  fh,      \* per rank: the MPI_File of the file variable, and that of the statement
  pos,     \* per rank: the individual file pointer, in bytes of the view
  calls,   \* per rank: transfers made by this statement
  count,   \* per rank: bytes they transferred
  buffer,  \* per rank: the bytes they read
  result   \* per rank: how each statement was counted, and the bytes it read

vars == << program, job, file, exists, ip, pc, fh, pos, calls, count, buffer, result >>

Stmt(r) == program.stmts[ip[r]]
Op(r) == Stmt(r).op
Pattern(r) == Stmt(r).pattern
Finished(r) == ip[r] > Len(program.stmts)

\* Which MPI_File a statement uses.
Slot(r) == IF Op(r) \in OpensItself THEN "own" ELSE "variable"

Init ==
  /\ program \in Programs
  /\ job = "running"
  /\ file = << >>
  /\ exists = FALSE
  /\ ip = [r \in Ranks |-> 1]
  /\ pc = [r \in Ranks |-> "begin"]
  /\ fh = [r \in Ranks |-> [own |-> "unset", variable |-> "unset"]]
  /\ pos = [r \in Ranks |-> 0]
  /\ calls = [r \in Ranks |-> 0]
  /\ count = [r \in Ranks |-> 0]
  /\ buffer = [r \in Ranks |-> << >>]
  /\ result = [r \in Ranks |-> << >>]

-------------------------------------------------------------------------------
(* Views.                                                                        *)

GroupSize(p) == Cardinality(p.group)

\* Mutant: as if every rank took the communicator it has no group in.
Column_Self(p, r) == 0
\* groupRank: a rank outside the group has MPI_COMM_SELF there, and rank 0 in it.
Column(p, r) == IF r \in p.group THEN Cardinality({q \in p.group : q < r}) ELSE 0

\* PATTERN1: one element out of a row of groupSize, the next row following.
View1(p, r, v) ==
  (v \div p.elem) * GroupSize(p) * p.elem + Column(p, r) * p.elem + (v % p.elem)

\* Mutant: rows and columns of the array are swapped.
View2_Transposed(p, r, v) == Column(p, r) * p.iter * p.elem + v

\* PATTERN2: a column of an array of iter rows, the next array following.
View2(p, r, v) ==
  LET array == v \div (p.iter * p.elem)
      row   == (v % (p.iter * p.elem)) \div p.elem
  IN  array * p.iter * GroupSize(p) * p.elem + row * GroupSize(p) * p.elem
        + Column(p, r) * p.elem + (v % p.elem)

\* The offset in the file of byte v of rank r's view.
Offset(p, r, v) == IF p.type = 1 THEN View1(p, r, v) ELSE View2(p, r, v)

Collective(p) == p.level \in {1, 3}
Total(p) == p.iter * p.elem
Calls(p) == IF p.level \in {0, 1} THEN p.iter ELSE 1

\* Mutant: one call takes the bytes of all iterations, in each iteration.
CallBytes_Whole(p) == Total(p)
CallBytes(p) == IF p.level \in {0, 1} THEN p.elem ELSE Total(p)

-------------------------------------------------------------------------------
(* Statements.                                                                   *)

Running(r, point) == job = "running" /\ pc[r] = point
Go(r, point) == pc' = [pc EXCEPT ![r] = point]

\* The statement is over and counted; sure tells, for the properties, that it had a
\* file when it called MPI.
Return(r, success) ==
  /\ result' = [result EXCEPT ![r] =
       Append(@, [success |-> success, read |-> buffer[r], sure |-> pc[r] \in {"begin", "report"}])]
  /\ ip' = [ip EXCEPT ![r] = @ + 1]
  /\ pos' = [pos EXCEPT ![r] = 0]
  /\ calls' = [calls EXCEPT ![r] = 0]
  /\ count' = [count EXCEPT ![r] = 0]
  /\ buffer' = [buffer EXCEPT ![r] = << >>]
  /\ Go(r, "begin")

\* Error() aborts the world: a file variable without a file, or an invalid level.
StatementError(r) ==
  /\ Running(r, "begin") /\ ~Finished(r)
  /\ \/ Op(r) \in {"pfwrite", "pfread", "pfclose"} /\ fh[r].variable = "unset"
     \/ Op(r) \in Writes \cup Reads /\ Pattern(r).level \notin 0 .. 3
  /\ job' = "aborted"
  /\ UNCHANGED << program, file, exists, ip, pc, fh, pos, calls, count, buffer, result >>

\* A pattern without bytes ends a statement before any call of MPI: g_malloc0(0) is
\* NULL, which is taken for a failure.
Begin(r) ==
  /\ Running(r, "begin") /\ ~Finished(r)
  /\ Op(r) # "pdelete"
  /\ Op(r) \in {"pfwrite", "pfread", "pfclose"} => fh[r].variable # "unset"
  /\ Op(r) \in Writes \cup Reads => Pattern(r).level \in 0 .. 3
  /\ IF Op(r) \in Writes \cup Reads /\ Total(Pattern(r)) = 0
     THEN Return(r, FALSE)
     ELSE /\ Go(r, CASE Op(r) \in OpensItself \cup {"pfopen"} -> "open"
                     [] Op(r) \in {"pfwrite", "pfread"}       -> "view"
                     [] Op(r) = "pfclose"                     -> "close")
          /\ UNCHANGED << ip, pos, calls, count, buffer, result >>
  /\ UNCHANGED << program, job, file, exists, fh >>

\* pdelete is not collective: MPI_File_delete deletes for one rank and fails for the
\* others.  MPI_ASSERT declares an rc of its own, so the rc tested is -1: it is a
\* failure in any case.
PDelete(r) ==
  /\ Running(r, "begin") /\ ~Finished(r) /\ Op(r) = "pdelete"
  /\ \/ file' = << >> /\ exists' = FALSE
     \/ program.faulty /\ UNCHANGED << file, exists >>
  /\ Return(r, FALSE)
  /\ UNCHANGED << program, job, fh >>

\* The ranks on which MPI_File_open may succeed.  It may fail on some of the ranks only;
\* pread does not create the file.
Openings ==
  IF ~exists /\ \E r \in Ranks : Op(r) = "pread" THEN {{}}
  ELSE IF program.faulty THEN SUBSET Ranks ELSE {Ranks}

\* MPI_File_open, collective.  An error is logged, and the statement goes on with a handle
\* that was never written.
Open ==
  /\ \A r \in Ranks : Running(r, "open")
  /\ \A r, q \in Ranks : ip[r] = ip[q]
  /\ \E opened \in Openings :
       /\ exists' = (exists \/ opened # {})
       /\ fh' = [r \in Ranks |-> [fh[r] EXCEPT ![Slot(r)] =
                                    IF r \in opened THEN "good" ELSE "uninitialized"]]
  /\ pc' = [r \in Ranks |-> IF Op(r) = "pfopen" THEN "report" ELSE "view"]
  /\ UNCHANGED << program, job, file, ip, pos, calls, count, buffer, result >>

\* MPI_File_set_view, collective over the communicator of the file, and the seek to
\* the start of the view.  It does not return while a rank without the file is missing.
SetView ==
  /\ \A r \in Ranks : Running(r, "view") /\ fh[r][Slot(r)] = "good"
  /\ \A r, q \in Ranks : ip[r] = ip[q]
  /\ pc' = [r \in Ranks |-> "access"]
  /\ pos' = [r \in Ranks |-> 0]
  /\ UNCHANGED << program, job, file, exists, ip, fh, calls, count, buffer, result >>

\* MPI with an uninitialized handle: it crashes, or it returns errors that are logged
\* at most, and status, which is uninitialized as well, yields any count.
UseUninitialized(r) ==
  /\ Running(r, "view") \/ Running(r, "close")
  /\ fh[r][Slot(r)] = "uninitialized"
  /\ \/ job' = "aborted" /\ UNCHANGED << ip, pc, fh, pos, calls, count, buffer, result >>
     \/ /\ \E success \in IF Op(r) = "pfclose" THEN {TRUE} ELSE BOOLEAN : Return(r, success)
        /\ fh' = IF Op(r) \in {"pfwrite", "pfread"} THEN fh
                 ELSE [fh EXCEPT ![r][Slot(r)] = "unset"]
        /\ UNCHANGED job
  /\ UNCHANGED << program, file, exists >>

-------------------------------------------------------------------------------
(* Transfers.                                                                    *)

\* A byte is told apart by its writer, the statement, and its place in the view.
Byte(r, v) == [writer |-> r, stmt |-> ip[r], at |-> v]
Hole == [writer |-> -1, stmt |-> 0, at |-> 0]
ByteAt(b) == IF b \in DOMAIN file THEN file[b] ELSE Hole
Eof == IF DOMAIN file = {} THEN 0 ELSE 1 + CHOOSE b \in DOMAIN file : \A c \in DOMAIN file : c <= b

\* The bytes of the view that rank r's next call transfers, if it transfers n.
Window(r, n) == pos[r] .. pos[r] + n - 1

\* How many bytes that may be: reads end with the file.
Lengths(r) ==
  LET possible == {n \in 0 .. CallBytes(Pattern(r)) :
        Op(r) \in Reads => \A v \in Window(r, n) : Offset(Pattern(r), r, v) < Eof}
  IN IF program.faulty THEN possible ELSE {CHOOSE n \in possible : \A m \in possible : m <= n}

Targets(r, n) ==
  IF Op(r) \in Writes THEN {Offset(Pattern(r), r, v) : v \in Window(r, n)} ELSE {}

\* Rank r stores its byte for offset b.
Stored(r, n, b) ==
  Byte(r, CHOOSE v \in Window(r, n) : Offset(Pattern(r), r, v) = b)

\* Mutant: the file pointer stays at the beginning.
Advance_Rewinds(r) == pos[r]
\* The file pointer moves over all bytes that were asked for.
Advance(r) == pos[r] + CallBytes(Pattern(r))

\* The ranks in R make one call each; it transfers length[r] bytes.  Where stripes
\* overlap, those of the last rank stay.
Transfer(R, length) ==
  /\ \E last \in R :
       file' = [b \in DOMAIN file \cup UNION {Targets(r, length[r]) : r \in R} |->
         IF b \in Targets(last, length[last]) THEN Stored(last, length[last], b)
         ELSE IF \E r \in R : b \in Targets(r, length[r])
              THEN LET r == CHOOSE q \in R : b \in Targets(q, length[q]) IN Stored(r, length[r], b)
              ELSE file[b]]
  /\ buffer' = [r \in Ranks |->
       IF r \in R /\ Op(r) \in Reads
       THEN buffer[r] \o [i \in 1 .. length[r] |-> ByteAt(Offset(Pattern(r), r, pos[r] + i - 1))]
       ELSE buffer[r]]
  /\ pos' = [r \in Ranks |-> IF r \in R THEN Advance(r) ELSE pos[r]]
  /\ calls' = [r \in Ranks |-> IF r \in R THEN calls[r] + 1 ELSE calls[r]]
  /\ count' = [r \in Ranks |-> IF r \in R THEN count[r] + length[r] ELSE count[r]]
  /\ UNCHANGED << program, job, exists, ip, pc, fh, result >>

\* Mutant: the last iteration is left out.
Moved_OneShort(r) == calls[r] >= 1 /\ calls[r] >= Calls(Pattern(r)) - 1
\* All transfers of the statement have been made.
Moved(r) == calls[r] = Calls(Pattern(r))

\* MPI_File_write and MPI_File_read, of levels 0 and 2.
AccessIndependent(r) ==
  /\ Running(r, "access") /\ ~Moved(r) /\ ~Collective(Pattern(r))
  /\ \E n \in Lengths(r) : Transfer({r}, [q \in {r} |-> n])

\* MPI_File_write_all and MPI_File_read_all, of levels 1 and 3.
AccessCollective ==
  /\ \A r \in Ranks : Running(r, "access") /\ ~Moved(r) /\ Collective(Pattern(r))
  /\ \E length \in [Ranks -> UNION {Lengths(r) : r \in Ranks}] :
       /\ \A r \in Ranks : length[r] \in Lengths(r)
       /\ Transfer(Ranks, length)

\* Mutant: a short transfer returns at once, and leaves the file open.
AccessEnds_NoClose(r) ==
  /\ Running(r, "access") /\ Moved(r)
  /\ Go(r, IF Op(r) \in OpensItself /\ count[r] = Total(Pattern(r)) THEN "close" ELSE "report")
  /\ UNCHANGED << program, job, file, exists, ip, fh, pos, calls, count, buffer, result >>

AccessEnds(r) ==
  /\ Running(r, "access") /\ Moved(r)
  /\ Go(r, IF Op(r) \in OpensItself THEN "close" ELSE "report")
  /\ UNCHANGED << program, job, file, exists, ip, fh, pos, calls, count, buffer, result >>

\* MPI_File_close, collective.
Close ==
  /\ \A r \in Ranks : Running(r, "close") /\ fh[r][Slot(r)] = "good"
  /\ \A r, q \in Ranks : ip[r] = ip[q]
  /\ fh' = [r \in Ranks |-> [fh[r] EXCEPT ![Slot(r)] = "unset"]]
  /\ pc' = [r \in Ranks |-> "report"]
  /\ UNCHANGED << program, job, file, exists, ip, pos, calls, count, buffer, result >>

\* Mutant: whatever was transferred will do.
Report_AnyCount(r) ==
  /\ Running(r, "report")
  /\ Return(r, TRUE)
  /\ UNCHANGED << program, job, file, exists, fh >>

\* iio_pfopen and iio_pfclose return TRUE whatever MPI returned.
Report(r) ==
  /\ Running(r, "report")
  /\ Return(r, Op(r) \in Writes \cup Reads => count[r] = Total(Pattern(r)))
  /\ UNCHANGED << program, job, file, exists, fh >>

-------------------------------------------------------------------------------

Step(r) == \/ StatementError(r) \/ Begin(r) \/ PDelete(r) \/ UseUninitialized(r)
           \/ AccessIndependent(r) \/ AccessEnds(r) \/ Report(r)
Joint == Open \/ SetView \/ AccessCollective \/ Close

\* A rank that has opened the file waits in set_view or close for one that has not, and
\* has gone on to another statement: it waits for good.
Deserted ==
  \E r, q \in Ranks : pc[r] \in {"view", "close"} /\ fh[r][Slot(r)] = "good" /\ ip[q] > ip[r]

Terminated == /\ job = "aborted" \/ Deserted \/ \A r \in Ranks : Finished(r)
              /\ UNCHANGED vars

Next == (\E r \in Ranks : Step(r)) \/ Joint \/ Terminated

Spec == Init /\ [][Next]_vars

\* Every rank keeps running, and MPI completes what all ranks have called.
FairSpec == Spec /\ (\A r \in Ranks : WF_vars(Step(r))) /\ WF_vars(Joint)

-------------------------------------------------------------------------------
(* Properties.                                                                  *)

StmtAt(k) == program.stmts[k]
\* Rank r's statement k was counted as successful, after calls with a proper file.
Succeeded(r, k) == k \in DOMAIN result[r] /\ result[r][k].success /\ result[r][k].sure
\* The file is not changed by statements j .. k.
Untouched(j, k) == \A l \in j .. k : StmtAt(l).op \notin Writes \cup {"pdelete"}
\* No rank shares its stripes with another: all are in the pattern's group.
Apart(p) == Ranks \subseteq p.group

TypeOK ==
  /\ job \in {"running", "aborted"} /\ exists \in BOOLEAN
  /\ \A b \in DOMAIN file : b \in Nat /\ file[b].writer \in Ranks
  /\ \A r \in Ranks :
       /\ ip[r] \in 1 .. Len(program.stmts) + 1 /\ Len(result[r]) = ip[r] - 1
       /\ pc[r] \in {"begin", "open", "view", "access", "close", "report"}
       /\ fh[r] \in [{"own", "variable"} -> {"unset", "good", "uninitialized"}]
       /\ pc[r] = "begin" => pos[r] = 0 /\ calls[r] = 0 /\ fh[r].own = "unset"
       /\ pc[r] # "begin" /\ Op(r) \in Writes \cup Reads =>
            count[r] \in 0 .. Total(Pattern(r)) /\ calls[r] \in 0 .. Calls(Pattern(r))

\* Both pattern types, at all levels, lay out a file the same way, in rows of one
\* element per rank of the pattern's group: a byte at offset b was written by the rank
\* of column (b / elem) mod groupSize, in the order of its view, and nothing lies
\* behind the last row (patterns.c:73-104, iio_mpi.c:44-204 and 369-527).
Stripes ==
  \A b \in DOMAIN file :
    LET w == file[b]
        p == StmtAt(w.stmt).pattern
    IN /\ (b \div p.elem) % GroupSize(p) = Column(p, w.writer)
       /\ w.at = (b \div (p.elem * GroupSize(p))) * p.elem + (b % p.elem)
       /\ w.at < Total(p)

\* Ranks in the pattern's group never write a byte that was already written in the
\* same statement, whatever the order of their independent calls.
NeverOverwritten ==
  [][\A b \in DOMAIN file \cap DOMAIN file' :
       LET w == file[b]
           p == StmtAt(w.stmt).pattern
       IN (file'[b] # w /\ {w.writer, file'[b].writer} \subseteq p.group) => file'[b].stmt > w.stmt]_vars

\* A write that a rank counts as successful is in the file entirely, until it is
\* overwritten or deleted; when all ranks of the group succeed, there are no holes.
Complete ==
  \A k \in DOMAIN program.stmts :
    LET p == StmtAt(k).pattern IN
    (StmtAt(k).op \in Writes /\ Untouched(k + 1, Len(program.stmts))) =>
      /\ \A r \in Ranks : Succeeded(r, k) =>
           \A v \in 0 .. Total(p) - 1 :
             LET b == Offset(p, r, v) IN
             b \in DOMAIN file /\ file[b].stmt = k /\ (Apart(p) => file[b].writer = r)
      /\ (p.group \subseteq Ranks /\ \A r \in p.group : Succeeded(r, k)) =>
           0 .. GroupSize(p) * Total(p) - 1 \subseteq DOMAIN file

\* What a rank has written it reads back in the same order, also with a pattern of the
\* other type or another level, and while other ranks access the file.
ReadBack ==
  \A r \in Ranks, k \in DOMAIN program.stmts : \A j \in 1 .. k - 1 :
    LET p == StmtAt(j).pattern
        q == StmtAt(k).pattern
    IN (/\ StmtAt(j).op \in Writes /\ Succeeded(r, j)
        /\ StmtAt(k).op \in Reads /\ Succeeded(r, k)
        /\ Untouched(j + 1, k) /\ Apart(p)
        /\ << p.iter, p.elem, p.group >> = << q.iter, q.elem, q.group >>)
       => result[r][k].read = [i \in 1 .. Total(p) |-> [writer |-> r, stmt |-> j, at |-> i - 1]]

\* A program without errors: files are opened before they are accessed, patterns are
\* not empty, and reads follow a write of the same extent.
Sound ==
  \A k \in DOMAIN program.stmts :
    LET s == StmtAt(k)
        Before(Good(_)) == \E j \in 1 .. k - 1 : Good(j)
        Opens(j)  == /\ StmtAt(j).op = "pfopen"
                     /\ \A l \in j + 1 .. k - 1 : StmtAt(l).op # "pfclose"
        Fills(j)  == /\ StmtAt(j).op \in Writes
                     /\ << StmtAt(j).pattern.iter, StmtAt(j).pattern.elem, StmtAt(j).pattern.group >>
                          = << s.pattern.iter, s.pattern.elem, s.pattern.group >>
    IN /\ s.op # "pdelete"
       /\ s.op \in Writes \cup Reads => s.pattern.level \in 0 .. 3 /\ Total(s.pattern) > 0
       /\ s.op \in {"pfwrite", "pfread", "pfclose"} => Before(Opens)
       /\ s.op \in Reads => Before(Fills)

\* On a file system that does not fail, every rank counts every statement of a program
\* without errors as successful, whatever mix of independent and collective levels.
HealthyRunSucceeds ==
  (Sound /\ ~program.faulty) =>
    <>\A r \in Ranks : Finished(r) /\ \A k \in DOMAIN result[r] : result[r][k].success

\* An MPI_File_open has succeeded on some ranks only.
OpenedBySome ==
  \E r, q \in Ranks : \E slot \in {"own", "variable"} :
    fh[r][slot] = "good" /\ fh[q][slot] = "uninitialized"

\* No failure of the file leaves ranks waiting for good in a collective call but one, an
\* MPI_File_open that fails on some of the ranks (Deserted): transfers that are cut short
\* on any ranks, in any iteration, and opens that fail on all of them end on every rank
\* (iio_mpi.c:386, 66-80, 402-410).
AllReturn == <>(job = "aborted" \/ OpenedBySome \/ \A r \in Ranks : Finished(r))

\* interpreter.h:65 calls statementsSucceed the "number of successful operations": when
\* pdelete has deleted a file, some rank has counted a success.  None ever does.
DeleteCounted ==
  \A k \in DOMAIN program.stmts :
    (/\ StmtAt(k).op = "pdelete" /\ \A r \in Ranks : k \in DOMAIN result[r]
     /\ \E j \in 1 .. k - 1 : StmtAt(j).op \in Writes /\ Succeeded(CHOOSE r \in Ranks : TRUE, j)
     /\ ~exists) => \E r \in Ranks : Succeeded(r, k)
===============================================================================
