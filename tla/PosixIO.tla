-------------------------------- MODULE PosixIO --------------------------------
(***************************************************************************)
(* POSIX I/O statements (iio_posix.c and their cases in interpreter.c).    *)
(* Every rank runs its own statements with its own descriptors; the ranks  *)
(* share the file system, and their system calls interleave: a write opens *)
(* and truncates in one call and writes in another, and a read without a   *)
(* size asks for the file's length first.                                  *)
(***************************************************************************)
EXTENDS Integers, Sequences, FiniteSets

CONSTANTS
  Ranks,    \* the processes
  Paths,    \* names of files and directories
  Programs  \* what to run: [stmts, faulty]; stmts[r] are rank r's statements

\* Statements are [op, path, to, mode, amount, offset]; to is the new name of a rename,
\* mode that of an fopen.  amount READALL and offset OFFSET_CUR are the defaults.
READALL == -1
OFFSET_CUR == -1
HandleOps == {"fclose", "fread", "fwrite", "fseek", "fsync"}
PathOps == {"lookup", "stat", "delete", "mkdir", "rmdir", "rename"}
OpenOps == {"write", "append", "read", "create", "fcreat", "fopen"}

Statements ==
  [op: HandleOps \cup PathOps \cup OpenOps, path: Paths, to: Paths,
   mode: {"r", "w", "a", "r+", "w+", "a+"},
   amount: Nat \cup {READALL}, offset: Nat \cup {OFFSET_CUR}]

ASSUME RanksAssumption == Ranks # {} /\ IsFiniteSet(Ranks)
ASSUME ProgramsAssumption ==
  \A p \in Programs :
    /\ p.faulty \in BOOLEAN
    /\ p.stmts \in [Ranks -> Seq(Statements)]
    /\ \A r \in Ranks : \A k \in DOMAIN p.stmts[r] :
         p.stmts[r][k].amount = READALL => p.stmts[r][k].op \in {"read", "fread"}

VARIABLES
  program, \* what the ranks run
  job,     \* "running", or "aborted" by Error
  dir,     \* path -> inode it names, or None
  inodes,  \* the files and directories ever made: [kind, data]; data maps offsets to bytes
  fds,     \* per rank: open descriptors, each [inode, pos, flags]
  var,     \* per rank: the descriptor its file variable holds, or None
  ip,      \* per rank: index of the current statement
  pc,      \* per rank: the system call it is at
  fd,      \* per rank: the descriptor the statement works on
  lSize,   \* per rank: how many bytes it is to transfer
  result   \* per rank: how each statement was counted, and the bytes it read

vars == << program, job, dir, inodes, fds, var, ip, pc, fd, lSize, result >>

None == 0
Stmt(r) == program.stmts[r][ip[r]]
Op(r) == Stmt(r).op
Finished(r) == ip[r] > Len(program.stmts[r])

\* translate_posix_flags; "a+" is O_APPEND|O_CREAT, which can only be read.
Flags(read, write, create, trunc, append) ==
  [read |-> read, write |-> write, create |-> create, trunc |-> trunc, append |-> append]
ModeFlags(mode) ==
  CASE mode = "r"  -> Flags(TRUE, FALSE, FALSE, FALSE, FALSE)
    [] mode = "w"  -> Flags(FALSE, TRUE, TRUE, TRUE, FALSE)
    [] mode = "a"  -> Flags(FALSE, TRUE, TRUE, FALSE, TRUE)
    [] mode = "r+" -> Flags(TRUE, TRUE, FALSE, FALSE, FALSE)
    [] mode = "w+" -> Flags(TRUE, TRUE, TRUE, TRUE, FALSE)
    [] mode = "a+" -> Flags(TRUE, FALSE, TRUE, FALSE, TRUE)

\* Mutant: write keeps what the file held.
OpenFlags_NoTrunc(s) ==
  CASE s.op = "read"   -> ModeFlags("r")
    [] s.op = "append" -> ModeFlags("a")
    [] s.op = "write"  -> Flags(FALSE, TRUE, TRUE, FALSE, FALSE)
    [] s.op = "fopen"  -> ModeFlags(s.mode)
    [] OTHER           -> ModeFlags("w")
\* Mutant: append opens the file like write.
OpenFlags_NoAppend(s) ==
  CASE s.op = "read"   -> ModeFlags("r")
    [] s.op = "append" -> Flags(FALSE, TRUE, TRUE, FALSE, FALSE)
    [] s.op = "fopen"  -> ModeFlags(s.mode)
    [] OTHER           -> ModeFlags("w")

\* With which flags a statement opens its file; creat is "w".
OpenFlags(s) ==
  CASE s.op = "read"   -> ModeFlags("r")
    [] s.op = "append" -> ModeFlags("a")
    [] s.op = "fopen"  -> ModeFlags(s.mode)
    [] OTHER           -> ModeFlags("w")

Init ==
  /\ program \in Programs
  /\ job = "running"
  /\ dir = [p \in Paths |-> None]
  /\ inodes = << >>
  /\ fds = [r \in Ranks |-> << >>]
  /\ var = [r \in Ranks |-> None]
  /\ ip = [r \in Ranks |-> 1]
  /\ pc = [r \in Ranks |-> "begin"]
  /\ fd = [r \in Ranks |-> None]
  /\ lSize = [r \in Ranks |-> 0]
  /\ result = [r \in Ranks |-> << >>]

-------------------------------------------------------------------------------
(* Files and descriptors.                                                        *)

Eof(data) == IF DOMAIN data = {} THEN 0 ELSE 1 + CHOOSE b \in DOMAIN data : \A c \in DOMAIN data : c <= b
\* A byte is told apart by the statement that wrote it and its place in the buffer.
Hole == [writer |-> None, stmt |-> 0, at |-> 0]
ByteAt(data, b) == IF b \in DOMAIN data THEN data[b] ELSE Hole

\* The lowest number that is not in use.
NewFd(r) == CHOOSE n \in 1 .. Cardinality(DOMAIN fds[r]) + 1 :
              n \notin DOMAIN fds[r] /\ \A m \in 1 .. n - 1 : m \in DOMAIN fds[r]
Opened(r, n, file) == [m \in DOMAIN fds[r] \cup {n} |-> IF m = n THEN file ELSE fds[r][m]]
\* lseek to a position.
Sought(open, n, pos) == [open EXCEPT ![n].pos = pos]
Without(open, n) == [m \in DOMAIN open \ {n} |-> open[m]]
File(r) == fds[r][fd[r]]
OneShot(r) == Op(r) \in {"write", "append", "read"}

Running(r, point) == job = "running" /\ pc[r] = point /\ ~Finished(r)

\* The statement is over and counted.
Return(r, success, bytes) ==
  /\ result' = [result EXCEPT ![r] = Append(@, [success |-> success, read |-> bytes])]
  /\ ip' = [ip EXCEPT ![r] = @ + 1]
  /\ pc' = [pc EXCEPT ![r] = "begin"]
  /\ fd' = [fd EXCEPT ![r] = None]
  /\ lSize' = [lSize EXCEPT ![r] = 0]

\* A call that fails before the transfer ends the statement; one-shot statements close
\* their file.
GiveUp(r, f, open) ==
  /\ Return(r, FALSE, << >>)
  /\ fds' = [fds EXCEPT ![r] = IF OneShot(r) THEN Without(open, f) ELSE open]

GoOn(r, n, f, open) ==
  /\ pc' = [pc EXCEPT ![r] = "transfer"]
  /\ fd' = [fd EXCEPT ![r] = f]
  /\ lSize' = [lSize EXCEPT ![r] = n]
  /\ fds' = [fds EXCEPT ![r] = open]
  /\ UNCHANGED << ip, result >>

\* lseek to the statement's offset, which append has none of.
Seeks(r) == Stmt(r).offset >= 0 /\ Op(r) # "append"
Placed(r, f, open) == IF Seeks(r) THEN Sought(open, f, Stmt(r).offset) ELSE open

\* Mutant: a statement whose lseek fails leaves its file open.
Prepare_SeekKeepsOpen(r, n, f, open) ==
  \/ /\ Seeks(r) /\ program.faulty
     /\ Return(r, FALSE, << >>)
     /\ fds' = [fds EXCEPT ![r] = open]
  \/ /\ n = 0
     /\ GiveUp(r, f, Placed(r, f, open))
  \/ /\ n # 0
     /\ GoOn(r, n, f, Placed(r, f, open))

\* On to the transfer of n bytes at the statement's offset, unless the lseek fails, or
\* there are none: g_malloc0(0) is NULL.  open holds the descriptors before that.
Prepare(r, n, f, open) ==
  \/ /\ Seeks(r) /\ program.faulty
     /\ GiveUp(r, f, open)
  \/ /\ n = 0
     /\ GiveUp(r, f, Placed(r, f, open))
  \/ /\ n # 0
     /\ GoOn(r, n, f, Placed(r, f, open))

-------------------------------------------------------------------------------
(* Statements.                                                                   *)

\* Statements that open a file by name.  (Opening a directory always fails here; the
\* system lets an fopen read one, which is left out.)
OpenFile(r) ==
  LET p == Stmt(r).path
      flags == OpenFlags(Stmt(r))
      exists == dir[p] # None
      inode == IF exists THEN dir[p] ELSE Len(inodes) + 1
      n == NewFd(r)
      open == Opened(r, n, [inode |-> inode, pos |-> 0, flags |-> flags])
  IN
  /\ Running(r, "begin") /\ Op(r) \in OpenOps
  /\ \/ /\ program.faulty \/ ~(IF exists THEN inodes[dir[p]].kind = "file" ELSE flags.create)
        /\ Return(r, FALSE, << >>)
        /\ UNCHANGED << dir, inodes, fds, var >>
     \/ /\ IF exists THEN inodes[dir[p]].kind = "file" ELSE flags.create
        /\ dir' = [dir EXCEPT ![p] = inode]
        /\ inodes' = IF ~exists THEN Append(inodes, [kind |-> "file", data |-> << >>])
                     ELSE IF flags.trunc THEN [inodes EXCEPT ![inode].data = << >>] ELSE inodes
        /\ CASE Op(r) = "create" ->
                  Return(r, TRUE, << >>) /\ UNCHANGED << fds, var >>
             [] Op(r) \in {"fcreat", "fopen"} ->
                  /\ Return(r, TRUE, << >>)
                  /\ fds' = [fds EXCEPT ![r] = open]
                  /\ var' = [var EXCEPT ![r] = n]
             [] OneShot(r) /\ Stmt(r).amount = READALL ->
                  /\ pc' = [pc EXCEPT ![r] = "measure"]
                  /\ fd' = [fd EXCEPT ![r] = n]
                  /\ fds' = [fds EXCEPT ![r] = open]
                  /\ UNCHANGED << ip, var, lSize, result >>
             [] OTHER -> Prepare(r, Stmt(r).amount, n, open) /\ UNCHANGED var
  /\ UNCHANGED << program, job >>

\* An fread asks a file that is not open any more for its length, -1, and goes on with it.
LengthUnknown(r) ==
  /\ var[r] \notin DOMAIN fds[r] /\ Op(r) = "fread"
  /\ Stmt(r).amount = READALL /\ Stmt(r).offset = OFFSET_CUR

\* Error aborts if the variable has no file, and g_malloc0 if it is asked for -1 bytes.
HandleError(r) ==
  /\ Running(r, "begin") /\ Op(r) \in HandleOps
  /\ var[r] = None \/ LengthUnknown(r)
  /\ job' = "aborted"
  /\ UNCHANGED << program, dir, inodes, fds, var, ip, pc, fd, lSize, result >>

\* fread and fwrite up to their transfer.  A closed descriptor is an error.
HandleTransfer(r) ==
  /\ Running(r, "begin") /\ Op(r) \in {"fread", "fwrite"} /\ var[r] # None
  /\ IF var[r] \notin DOMAIN fds[r]
     THEN ~LengthUnknown(r) /\ Return(r, FALSE, << >>) /\ UNCHANGED fds
     ELSE IF Stmt(r).amount = READALL
     THEN /\ pc' = [pc EXCEPT ![r] = "measure"]
          /\ fd' = [fd EXCEPT ![r] = var[r]]
          /\ UNCHANGED << fds, ip, lSize, result >>
     ELSE Prepare(r, Stmt(r).amount, var[r], fds[r])
  /\ UNCHANGED << program, job, dir, inodes, var >>

\* The length of the whole file, and back to its beginning; nobody asks whether that
\* works.
Measure(r) ==
  LET length == Eof(inodes[File(r).inode].data) IN
  /\ Running(r, "measure")
  /\ \E pos \in {0} \cup {length : f \in {TRUE} \cap {program.faulty}} :
       Prepare(r, length, fd[r], Sought(fds[r], fd[r], pos))
  /\ UNCHANGED << program, job, dir, inodes, var >>

\* The lseek to the end fails: the length is -1, for which g_malloc0 aborts, unless the
\* statement ends because the lseek to its offset fails as well.
MeasureFails(r) ==
  /\ Running(r, "measure") /\ program.faulty
  /\ \/ /\ Seeks(r)
        /\ \E pos \in {0, File(r).pos} : GiveUp(r, fd[r], Sought(fds[r], fd[r], pos))
        /\ UNCHANGED job
     \/ job' = "aborted" /\ UNCHANGED << fds, ip, pc, fd, lSize, result >>
  /\ UNCHANGED << program, dir, inodes, var >>

\* fseek (with SEEK_SET) and fsync.
SeekOrSync(r) ==
  LET open == var[r] \in DOMAIN fds[r] IN
  /\ Running(r, "begin") /\ Op(r) \in {"fseek", "fsync"} /\ var[r] # None
  /\ \E success \in IF program.faulty THEN {FALSE, open} ELSE {open} :
       /\ Return(r, success /\ (Op(r) = "fseek" => Stmt(r).offset >= 0), << >>)
       /\ fds' = IF success /\ Op(r) = "fseek" /\ Stmt(r).offset >= 0
                 THEN [fds EXCEPT ![r] = Sought(@, var[r], Stmt(r).offset)] ELSE fds
  /\ UNCHANGED << program, job, dir, inodes, var >>

\* Mutant: the variable keeps the closed descriptor.
FClose_KeepsVariable(r) ==
  /\ Running(r, "begin") /\ Op(r) = "fclose" /\ var[r] # None
  /\ fds' = [fds EXCEPT ![r] = Without(@, var[r])]
  /\ Return(r, var[r] \in DOMAIN fds[r], << >>)
  /\ UNCHANGED << program, job, dir, inodes, var >>

\* A close that fails has closed the descriptor all the same, but the variable stays.
FClose(r) ==
  /\ Running(r, "begin") /\ Op(r) = "fclose" /\ var[r] # None
  /\ fds' = [fds EXCEPT ![r] = Without(@, var[r])]
  /\ \E success \in {var[r] \in DOMAIN fds[r]} \cup {c \in {FALSE} : program.faulty} :
       /\ Return(r, success, << >>)
       /\ var' = IF success THEN [var EXCEPT ![r] = None] ELSE var
  /\ UNCHANGED << program, job, dir, inodes >>

\* The bytes of a file once rank r has written n bytes at a position.
Stored(r, data, at, n) ==
  [b \in DOMAIN data \cup at .. at + n - 1 |->
     IF b \in at .. at + n - 1 THEN [writer |-> r, stmt |-> ip[r], at |-> b - at] ELSE data[b]]

\* write or read, with which the statement ends; one-shot statements close their file.
Transfer(r) ==
  LET file == File(r)
      data == inodes[file.inode].data
      writes == Op(r) \in {"write", "append", "fwrite"}
      at == IF writes /\ file.flags.append THEN Eof(data) ELSE file.pos
      possible == {n \in 0 .. lSize[r] :
        n > 0 => IF writes THEN file.flags.write ELSE file.flags.read /\ at + n <= Eof(data)}
      most == CHOOSE n \in possible : \A m \in possible : m <= n
  IN
  /\ Running(r, "transfer")
  /\ \E n \in IF program.faulty THEN possible ELSE {most} :
       /\ inodes' = IF ~writes THEN inodes
                    ELSE [inodes EXCEPT ![file.inode].data = Stored(r, data, at, n)]
       /\ fds' = [fds EXCEPT ![r] = IF OneShot(r) THEN Without(@, fd[r])
                                    ELSE Sought(@, fd[r], at + n)]
       /\ Return(r, n = lSize[r],
                 IF writes THEN << >> ELSE [i \in 1 .. n |-> ByteAt(data, at + i - 1)])
  /\ UNCHANGED << program, job, dir, var >>

\* Statements on names.
PathStatement(r) ==
  LET p == Stmt(r).path
      q == Stmt(r).to
      Kind(name) == inodes[dir[name]].kind
      possible ==
        CASE Op(r) = "mkdir"  -> dir[p] = None
          [] Op(r) = "rmdir"  -> dir[p] # None /\ Kind(p) = "dir"
          [] Op(r) = "rename" -> dir[p] # None /\ (dir[q] # None => Kind(p) = Kind(q))
          [] OTHER            -> dir[p] # None
  IN
  /\ Running(r, "begin") /\ Op(r) \in PathOps
  /\ \E success \in {possible} \cup {c \in {FALSE} : program.faulty} :
       /\ dir' = CASE ~success \/ Op(r) \in {"lookup", "stat"} -> dir
                   [] success /\ Op(r) \in {"delete", "rmdir"} -> [dir EXCEPT ![p] = None]
                   [] success /\ Op(r) = "mkdir"  -> [dir EXCEPT ![p] = Len(inodes) + 1]
                   [] success /\ Op(r) = "rename" -> [[dir EXCEPT ![p] = None] EXCEPT ![q] = dir[p]]
       /\ inodes' = IF success /\ Op(r) = "mkdir"
                    THEN Append(inodes, [kind |-> "dir", data |-> << >>]) ELSE inodes
       /\ Return(r, success, << >>)
  /\ UNCHANGED << program, job, fds, var >>

-------------------------------------------------------------------------------

Terminated == /\ job = "aborted" \/ \A r \in Ranks : Finished(r)
              /\ UNCHANGED vars

Next ==
  \/ \E r \in Ranks :
       \/ OpenFile(r) \/ HandleError(r) \/ HandleTransfer(r) \/ Measure(r) \/ MeasureFails(r)
       \/ SeekOrSync(r) \/ FClose(r) \/ Transfer(r) \/ PathStatement(r)
  \/ Terminated

Spec == Init /\ [][Next]_vars

-------------------------------------------------------------------------------
(* Properties.                                                                  *)

TypeOK ==
  /\ job \in {"running", "aborted"}
  /\ \A p \in Paths : dir[p] \in 0 .. Len(inodes)
  /\ \A i \in DOMAIN inodes : inodes[i].kind = "dir" => inodes[i].data = << >>
  /\ \A r \in Ranks :
       /\ ip[r] \in 1 .. Len(program.stmts[r]) + 1 /\ Len(result[r]) = ip[r] - 1
       /\ \A n \in DOMAIN fds[r] : /\ inodes[fds[r][n].inode].kind = "file"
                                  /\ fds[r][n].pos \in Nat
       /\ pc[r] = "begin" <=> fd[r] = None
       /\ pc[r] # "begin" => fd[r] \in DOMAIN fds[r]
       /\ pc[r] = "transfer" <=> lSize[r] > 0
       /\ var[r] # None /\ ~program.faulty => var[r] \in DOMAIN fds[r]

Mentions(s, p) == s.path = p \/ (s.op = "rename" /\ s.to = p)

\* Appends of any number of ranks to one file, which nobody truncates or removes, never
\* overwrite or mix with each other: each that is counted as successful is in the file in
\* one piece, and the file has no holes (iio_posix.c:311).
AppendsIntact ==
  \A p \in Paths :
    (/\ dir[p] # None
     /\ \A r \in Ranks : \A k \in DOMAIN program.stmts[r] :
          LET s == program.stmts[r][k] IN
          s.op \in HandleOps \/ ~Mentions(s, p) \/ s.op \in {"append", "read", "lookup", "stat"})
    => LET data == inodes[dir[p]].data IN
       /\ DOMAIN data = 0 .. Eof(data) - 1
       /\ \A r \in Ranks : \A k \in DOMAIN result[r] :
            LET s == program.stmts[r][k] IN
            (s.op = "append" /\ s.path = p /\ result[r][k].success) =>
              \E b \in DOMAIN data : \A v \in 0 .. s.amount - 1 :
                b + v \in DOMAIN data /\ data[b + v] = [writer |-> r, stmt |-> k, at |-> v]

\* Between statements a rank has no descriptor open but that of its file variable, if it
\* closes a file before it opens the next: write, append and read close theirs on each of
\* their ways out, whether their lseek fails, there are no bytes, the transfer is cut short
\* or all is well (iio_posix.c:267, 283, 296, 326, 339, 374, 383, 396).
NoLeak ==
  \A r \in Ranks :
    LET Opens(k) == program.stmts[r][k].op \in {"fopen", "fcreat"}
        Closes(k) == program.stmts[r][k].op = "fclose"
        tidy == \A j, k \in DOMAIN program.stmts[r] :
                  j < k /\ Opens(j) /\ Opens(k) => \E l \in j .. k : Closes(l)
    IN tidy /\ pc[r] = "begin" => DOMAIN fds[r] \subseteq {var[r]}

(***************************************************************************)
(* A rank alone with one file, as the reference: the file is a sequence,   *)
(* and statements are single steps.                                        *)
(***************************************************************************)
Put(data, at, bytes) ==
  LET length == IF at + Len(bytes) > Len(data) THEN at + Len(bytes) ELSE Len(data)
  IN [i \in 1 .. length |-> IF i \in at + 1 .. at + Len(bytes) THEN bytes[i - at]
                            ELSE IF i \in DOMAIN data THEN data[i] ELSE Hole]
Written(r, k, amount) == [i \in 1 .. amount |-> [writer |-> r, stmt |-> k, at |-> i - 1]]
\* amount bytes from start, as far as there are any.
Get(data, start, amount) ==
  [i \in 1 .. Cardinality({b \in 1 .. amount : start + b <= Len(data)}) |-> data[start + i]]

\* How many bytes a statement transfers, and from where: descriptors of its own are at 0.
AmountOf(s, old) == IF s.amount = READALL THEN Len(old.data) ELSE s.amount
StartOf(s, old) ==
  IF s.offset # OFFSET_CUR THEN s.offset
  ELSE IF s.amount = READALL \/ s.op \in {"write", "read"} THEN 0 ELSE old.pos

\* The file, its pointer and the outcome after rank r's statement k, which is s.
AfterOne(r, k, s, old) ==
  LET amount == AmountOf(s, old)
      start == StartOf(s, old)
      got == Get(old.data, start, amount)
      Done(data, pos, success, read) ==
        [data |-> data, pos |-> pos, success |-> success, read |-> read]
  IN CASE s.op = "write"  -> Done(IF amount = 0 THEN << >> ELSE Put(<< >>, start, Written(r, k, amount)),
                                  old.pos, amount > 0, << >>)
       [] s.op = "append" -> Done(old.data \o Written(r, k, amount), old.pos, amount > 0, << >>)
       [] s.op = "read"   -> Done(old.data, old.pos, amount > 0 /\ Len(got) = amount, got)
       [] s.op = "fopen"  -> Done(IF s.mode = "w+" THEN << >> ELSE old.data, 0, TRUE, << >>)
       [] s.op = "fwrite" -> Done(IF amount = 0 THEN old.data ELSE Put(old.data, start, Written(r, k, amount)),
                                  start + amount, amount > 0, << >>)
       [] s.op = "fread"  -> Done(old.data, start + Len(got), amount > 0 /\ Len(got) = amount, got)
       [] s.op = "fseek"  -> Done(old.data, s.offset, TRUE, << >>)
       [] OTHER           -> Done(old.data, old.pos, TRUE, << >>)

\* The same after statements 1 .. k.
AtFirst == [data |-> << >>, pos |-> 0, success |-> TRUE, read |-> << >>]
Alone(r, stmts) ==
  LET after[k \in 0 .. Len(stmts)] ==
        IF k = 0 THEN AtFirst ELSE AfterOne(r, k, stmts[k], after[k - 1])
  IN after

\* Rank r writes a file, goes on with it, and nobody else names it.  (Programs that open
\* with w+ or r+, and seek to offsets there are.)
HasOwnFile(r) ==
  LET stmts == program.stmts[r]
      p == stmts[1].path
  IN /\ stmts # << >> /\ ~program.faulty
     /\ stmts[1].op = "write"
     /\ \A k \in DOMAIN stmts :
          /\ stmts[k].op \in {"write", "append", "read", "fopen", "lookup", "stat"} \cup HandleOps
          /\ stmts[k].path = p
          /\ stmts[k].op = "fopen" => stmts[k].mode \in {"w+", "r+"}
          /\ stmts[k].op = "fseek" => stmts[k].offset >= 0
     /\ \A q \in Ranks \ {r} : \A k \in DOMAIN program.stmts[q] :
          ~Mentions(program.stmts[q][k], p)

\* A rank whose file no other rank touches gets from every statement the result it would
\* get alone, though other ranks open, truncate, rename and remove theirs between its
\* system calls; in particular READALL reads all, pointers follow on from statement to
\* statement, and a write starts a new file.
AsIfAlone ==
  \A r \in Ranks : HasOwnFile(r) => \A k \in DOMAIN result[r] :
    LET reference == Alone(r, program.stmts[r])[k] IN
    result[r][k] = [success |-> reference.success, read |-> reference.read]
===============================================================================
