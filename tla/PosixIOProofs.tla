----------------------------- MODULE PosixIOProofs -----------------------------
(***************************************************************************)
(* Proofs about the POSIX statements for any number of ranks, whatever     *)
(* they run: type correctness, that no descriptor leaks, that appends to a *)
(* shared file do not overwrite each other, and that a rank with a file of *)
(* its own gets the answers it would get alone.                            *)
(***************************************************************************)
EXTENDS PosixIO, FiniteSetTheorems, TLAPS

-------------------------------------------------------------------------------
(* Naturals: least and greatest elements, of which files' ends are made.         *)

LEMMA LeastNatural ==
  ASSUME NEW T \in SUBSET Nat, T # {}
  PROVE  \E n \in T : \A m \in T : n <= m
<1>1. PICK R : R = OpToRel(<, Nat)
  OBVIOUS
<1>2. IsWellFoundedOn(R, Nat)
  BY <1>1, NatLessThanWellFounded
<1>3. PICK n \in T : \A m \in T : ~(<< m, n >> \in R)
  BY <1>2, WFMin
<1>4. \A k, m \in Nat : << m, k >> \in R <=> m < k
  BY <1>1 DEF OpToRel
<1>5. \A m \in T : ~(m < n)
  BY <1>3, <1>4
<1>. QED BY <1>5

LEMMA GreatestNatural ==
  ASSUME NEW T \in SUBSET Nat, T # {}, NEW top \in Nat, \A t \in T : t <= top
  PROVE  \E n \in T : \A m \in T : m <= n
<1> DEFINE D == {top - t : t \in T}
<1>1. D \in SUBSET Nat /\ D # {}
  <2>1. \A t \in T : top - t \in Nat
    OBVIOUS
  <2>. QED BY <2>1
<1>2. PICK d \in D : \A e \in D : d <= e
  BY <1>1, LeastNatural
<1>3. PICK n \in T : d = top - n
  BY <1>2
<1>4. ASSUME NEW m \in T PROVE m <= n
  <2>1. top - m \in D
    OBVIOUS
  <2>2. top - n <= top - m
    BY <2>1, <1>2, <1>3
  <2>. QED BY <2>2
<1>. QED BY <1>4

LEMMA EofIsEnd ==
  ASSUME NEW data, DOMAIN data \in SUBSET Nat,
         NEW top \in Nat, \A b \in DOMAIN data : b <= top
  PROVE  Eof(data) \in Nat /\ \A b \in DOMAIN data : b < Eof(data)
<1>1. CASE DOMAIN data = {}
  BY <1>1 DEF Eof
<1>2. CASE DOMAIN data # {}
  <2>1. \E n \in DOMAIN data : \A m \in DOMAIN data : m <= n
    BY <1>2, GreatestNatural
  <2>2. PICK last : last = CHOOSE b \in DOMAIN data : \A c \in DOMAIN data : c <= b
    OBVIOUS
  <2>3. last \in DOMAIN data /\ \A c \in DOMAIN data : c <= last
    BY <2>1, <2>2
  <2>4. Eof(data) = 1 + last
    BY <1>2, <2>2 DEF Eof
  <2>. QED BY <2>3, <2>4
<1>. QED BY <1>1, <1>2

\* The end of a file without holes.
LEMMA EofOfWhole ==
  ASSUME NEW data, NEW e \in Nat, DOMAIN data = 0 .. e - 1
  PROVE  Eof(data) = e
<1>1. DOMAIN data \in SUBSET Nat /\ \A b \in DOMAIN data : b <= e
  OBVIOUS
<1>2. CASE e = 0
  BY <1>2 DEF Eof
<1>3. CASE e # 0
  <2>1. e - 1 \in 0 .. e - 1 /\ DOMAIN data # {}
    BY <1>3
  <2>2. PICK last : last = CHOOSE b \in DOMAIN data : \A c \in DOMAIN data : c <= b
    OBVIOUS
  <2>3. \E n \in DOMAIN data : \A m \in DOMAIN data : m <= n
    BY <1>1, <2>1, GreatestNatural
  <2>4. last \in 0 .. e - 1 /\ \A c \in 0 .. e - 1 : c <= last
    BY <2>2, <2>3
  <2>5. Eof(data) = 1 + last
    BY <2>1, <2>2 DEF Eof
  <2>6. e - 1 <= last /\ last <= e - 1
    BY <2>1, <2>4
  <2>. QED BY <2>4, <2>5, <2>6
<1>. QED BY <1>2, <1>3

-------------------------------------------------------------------------------
(* Types.                                                                        *)

Bytes == [writer: Ranks \cup {None}, stmt: Nat, at: Nat]
Domains == {D \in SUBSET Nat : \E top \in Nat : \A b \in D : b <= top}
Datas == UNION {[D -> Bytes] : D \in Domains}
Inodes == [kind: {"file", "dir"}, data: Datas]
Results == [success: BOOLEAN, read: Seq(Bytes)]
Files == [inode: Nat, pos: Nat,
          flags: [read: BOOLEAN, write: BOOLEAN, create: BOOLEAN, trunc: BOOLEAN, append: BOOLEAN]]

\* Descriptors of a rank: finitely many, and none is 0.
IsTable(open) ==
  /\ DOMAIN open \in SUBSET (Nat \ {None}) /\ IsFiniteSet(DOMAIN open)
  /\ \A n \in DOMAIN open : open[n] \in Files

LEMMA DataKnown ==
  ASSUME NEW data \in Datas
  PROVE  /\ DOMAIN data \in SUBSET Nat
         /\ \A b \in DOMAIN data : data[b] \in Bytes
         /\ \E top \in Nat : \A b \in DOMAIN data : b <= top
         /\ Eof(data) \in Nat /\ \A b \in DOMAIN data : b < Eof(data)
<1>1. PICK D \in Domains : data \in [D -> Bytes]
  BY DEF Datas
<1>2. D \in SUBSET Nat /\ DOMAIN data = D
  BY <1>1 DEF Domains
<1>3. PICK top \in Nat : \A b \in DOMAIN data : b <= top
  BY <1>1, <1>2 DEF Domains
<1>4. Eof(data) \in Nat /\ \A b \in DOMAIN data : b < Eof(data)
  BY <1>2, <1>3, EofIsEnd
<1>. QED BY <1>1, <1>2, <1>3, <1>4

LEMMA DataMade ==
  ASSUME NEW D \in SUBSET Nat, NEW top \in Nat, \A b \in D : b <= top, NEW data \in [D -> Bytes]
  PROVE  data \in Datas
<1>1. D \in Domains
  BY DEF Domains
<1>. QED BY <1>1 DEF Datas

LEMMA NoData == << >> \in Datas
<1>1. << >> \in [{} -> Bytes]
  OBVIOUS
<1>2. {} \in SUBSET Nat /\ 0 \in Nat
  OBVIOUS
<1>. QED BY <1>1, <1>2, DataMade

LEMMA StoredData ==
  ASSUME NEW r \in Ranks, ip[r] \in Nat, NEW data \in Datas, NEW at \in Nat, NEW n \in Nat
  PROVE  Stored(r, data, at, n) \in Datas
<1>1. PICK D : D = DOMAIN data \cup at .. at + n - 1
  OBVIOUS
<1>2. PICK top \in Nat : \A b \in DOMAIN data : b <= top
  BY DataKnown
<1>3. PICK i \in Nat : i = ip[r]
  OBVIOUS
<1>4. D \in SUBSET Nat /\ at + n + top \in Nat /\ \A b \in D : b <= at + n + top
  BY <1>1, <1>2, DataKnown
<1>5. \A b \in at .. at + n - 1 : [writer |-> r, stmt |-> i, at |-> b - at] \in Bytes
  BY DEF Bytes
<1>6. \A b \in D : b \notin at .. at + n - 1 => data[b] \in Bytes
  BY <1>1, DataKnown
<1>7. Stored(r, data, at, n) \in [D -> Bytes]
  BY <1>1, <1>3, <1>5, <1>6 DEF Stored
<1>. QED BY <1>4, <1>7, DataMade

LEMMA NewFdIsNew ==
  ASSUME NEW r \in Ranks, IsTable(fds[r])
  PROVE  NewFd(r) \in Nat \ {None} /\ NewFd(r) \notin DOMAIN fds[r]
<1>1. PICK S : S = DOMAIN fds[r]
  OBVIOUS
<1>2. S \in SUBSET (Nat \ {0}) /\ IsFiniteSet(S)
  BY <1>1 DEF IsTable, None
<1>3. PICK c \in Nat : c = Cardinality(S)
  BY <1>2, FS_CardinalityType
<1>4. PICK T : T = {n \in 1 .. c + 1 : n \notin S}
  OBVIOUS
<1>5. T # {}
  <2>1. SUFFICES ASSUME T = {} PROVE FALSE
    OBVIOUS
  <2>2. 1 .. c + 1 \in SUBSET S
    BY <2>1, <1>4
  <2>3. Cardinality(1 .. c + 1) <= c
    BY <2>2, <1>2, <1>3, FS_Subset
  <2>4. Cardinality(1 .. c + 1) = IF 1 > c + 1 THEN 0 ELSE c + 1 - 1 + 1
    BY FS_Interval
  <2>. QED BY <2>3, <2>4
<1>6. PICK n \in T : \A m \in T : n <= m
  BY <1>4, <1>5, LeastNatural
<1>7. n \in 1 .. c + 1 /\ n \notin S /\ \A m \in 1 .. n - 1 : m \in S
  BY <1>4, <1>6
<1>8. NewFd(r) = CHOOSE k \in 1 .. c + 1 : k \notin S /\ \A m \in 1 .. k - 1 : m \in S
  BY <1>1, <1>3 DEF NewFd
<1>9. NewFd(r) \in 1 .. c + 1 /\ NewFd(r) \notin S
  BY <1>7, <1>8
<1>. QED BY <1>1, <1>9 DEF None

LEMMA FlagsTyped ==
  ASSUME NEW s \in Statements, s.op \in OpenOps
  PROVE  [inode |-> 0, pos |-> 0, flags |-> OpenFlags(s)] \in Files
<1>1. s.mode \in {"r", "w", "a", "r+", "w+", "a+"}
  BY DEF Statements
<1>. QED BY <1>1 DEF Files, OpenFlags, ModeFlags, Flags

LEMMA OpenedTable ==
  ASSUME NEW r \in Ranks, IsTable(fds[r]), NEW n \in Nat \ {None}, NEW file \in Files
  PROVE  /\ IsTable(Opened(r, n, file))
         /\ DOMAIN Opened(r, n, file) = DOMAIN fds[r] \cup {n}
         /\ Opened(r, n, file)[n] = file
         /\ \A m \in DOMAIN fds[r] : m # n => Opened(r, n, file)[m] = fds[r][m]
<1>1. PICK S : S = DOMAIN fds[r]
  OBVIOUS
<1>2. IsFiniteSet(S \cup {n})
  BY <1>1, FS_AddElement DEF IsTable
<1>. QED BY <1>1, <1>2 DEF Opened, IsTable

LEMMA SoughtTable ==
  ASSUME NEW open, IsTable(open), NEW n \in DOMAIN open, NEW pos \in Nat
  PROVE  /\ IsTable(Sought(open, n, pos))
         /\ DOMAIN Sought(open, n, pos) = DOMAIN open
         /\ \A m \in DOMAIN open : /\ Sought(open, n, pos)[m].inode = open[m].inode
                                   /\ Sought(open, n, pos)[m].flags = open[m].flags
<1>1. DOMAIN Sought(open, n, pos) = DOMAIN open
  BY DEF Sought
<1>2. ASSUME NEW m \in DOMAIN open
      PROVE  /\ Sought(open, n, pos)[m] \in Files
             /\ Sought(open, n, pos)[m].inode = open[m].inode
             /\ Sought(open, n, pos)[m].flags = open[m].flags
  <2>1. open[m] \in Files
    BY DEF IsTable
  <2>2. Sought(open, n, pos)[m] = IF m = n THEN [open[m] EXCEPT !.pos = pos] ELSE open[m]
    BY DEF Sought
  <2>. QED BY <2>1, <2>2 DEF Files
<1>. QED BY <1>1, <1>2 DEF IsTable

LEMMA WithoutTable ==
  ASSUME NEW open, IsTable(open), NEW n
  PROVE  /\ IsTable(Without(open, n))
         /\ DOMAIN Without(open, n) = DOMAIN open \ {n}
         /\ \A m \in DOMAIN open : m # n => Without(open, n)[m] = open[m]
<1>1. PICK S : S = DOMAIN open
  OBVIOUS
<1>2. IsFiniteSet(S \ {n})
  BY <1>1, FS_RemoveElement DEF IsTable
<1>. QED BY <1>1, <1>2 DEF Without, IsTable

-------------------------------------------------------------------------------
(***************************************************************************)
(* The invariant.  TypeOK is not inductive: that a descriptor is open when *)
(* a transfer uses it, and still when a later statement finds it in the    *)
(* variable, depends on which of a rank's descriptors belong to the        *)
(* statement it is in, and which are kept after it.                        *)
(***************************************************************************)

FileTypes ==
  /\ dir \in [Paths -> Nat] /\ \A p \in Paths : dir[p] <= Len(inodes)
  /\ inodes \in Seq(Inodes)
  /\ \A i \in DOMAIN inodes : inodes[i].kind = "dir" => inodes[i].data = << >>
RankTypes ==
  /\ DOMAIN fds = Ranks
  /\ var \in [Ranks -> Nat]
  /\ ip \in [Ranks -> Nat]
  /\ pc \in [Ranks -> {"begin", "measure", "transfer"}]
  /\ fd \in [Ranks -> Nat]
  /\ lSize \in [Ranks -> Nat]
  /\ result \in [Ranks -> Seq(Results)]
Types == program \in Programs /\ job \in {"running", "aborted"} /\ FileTypes /\ RankTypes

\* The descriptors a rank has once its statement is over: write, append and read
\* close theirs.
Kept(r) == DOMAIN fds[r] \ (IF pc[r] # "begin" /\ OneShot(r) THEN {fd[r]} ELSE {})

\* Descriptors refer to files, not to directories.
IsFile(i) == i \in DOMAIN inodes /\ inodes[i].kind = "file"
RefersToFiles(r) == \A n \in DOMAIN fds[r] : IsFile(fds[r][n].inode)

\* Where a rank stands in its statement.
AtStatement(r) ==
  /\ pc[r] = "begin" <=> fd[r] = None
  /\ pc[r] # "begin" =>
       /\ ip[r] \in DOMAIN program.stmts[r]
       /\ fd[r] \in DOMAIN fds[r]
       /\ OneShot(r) \/ (Op(r) \in {"fread", "fwrite"} /\ fd[r] = var[r])
  /\ pc[r] = "measure" => Stmt(r).amount = READALL
  /\ pc[r] = "transfer" => Stmt(r).amount \in {READALL, lSize[r]}
  /\ pc[r] = "transfer" <=> lSize[r] > 0

RankInv(r) ==
  /\ ip[r] \in 1 .. Len(program.stmts[r]) + 1 /\ Len(result[r]) = ip[r] - 1
  /\ IsTable(fds[r]) /\ RefersToFiles(r)
  /\ AtStatement(r)
  /\ var[r] # None /\ ~program.faulty => var[r] \in Kept(r)

LEMMA ProgramTyped ==
  ASSUME program \in Programs, NEW r \in Ranks
  PROVE  /\ program.stmts[r] \in Seq(Statements) /\ program.faulty \in BOOLEAN
         /\ Len(program.stmts[r]) \in Nat
         /\ DOMAIN program.stmts[r] = 1 .. Len(program.stmts[r])
<1>1. program.stmts[r] \in Seq(Statements) /\ program.faulty \in BOOLEAN
  BY ProgramsAssumption
<1>. QED BY <1>1

LEMMA StmtTyped ==
  ASSUME program \in Programs, NEW r \in Ranks, ip[r] \in DOMAIN program.stmts[r]
  PROVE  /\ Stmt(r) \in Statements
         /\ Stmt(r).amount \in Nat \/ (Stmt(r).amount = READALL /\ Op(r) \in {"read", "fread"})
         /\ ip[r] \in Nat
<1>1. program.stmts[r] \in Seq(Statements)
  BY ProgramTyped
<1>2. Stmt(r) \in Statements /\ ip[r] \in Nat
  BY <1>1 DEF Stmt
<1>3. Stmt(r).amount = READALL => Op(r) \in {"read", "fread"}
  BY ProgramsAssumption DEF Stmt, Op
<1>. QED BY <1>2, <1>3 DEF Statements

LEMMA Going ==
  ASSUME program \in Programs, NEW r \in Ranks, RankInv(r), ~Finished(r)
  PROVE  ip[r] \in DOMAIN program.stmts[r]
<1>1. Len(program.stmts[r]) \in Nat /\ DOMAIN program.stmts[r] = 1 .. Len(program.stmts[r])
  BY ProgramTyped
<1>. QED BY <1>1 DEF RankInv, Finished

\* What a step of rank r does to the others: nothing.
OnlyRank(r) ==
  \A q \in Ranks : q # r =>
    /\ fds'[q] = fds[q] /\ var'[q] = var[q] /\ ip'[q] = ip[q] /\ pc'[q] = pc[q]
    /\ fd'[q] = fd[q] /\ lSize'[q] = lSize[q] /\ result'[q] = result[q]

\* Files that are there stay what they are.
FilesStay == \A i \in DOMAIN inodes : i \in DOMAIN inodes' /\ inodes'[i].kind = inodes[i].kind

LEMMA RankFrame ==
  ASSUME NEW r \in Ranks, RankInv(r), program' = program, FilesStay,
         fds'[r] = fds[r], var'[r] = var[r], ip'[r] = ip[r], pc'[r] = pc[r],
         fd'[r] = fd[r], lSize'[r] = lSize[r], result'[r] = result[r]
  PROVE  RankInv(r)' /\ Kept(r)' = Kept(r)
<1>1. Stmt(r)' = Stmt(r) /\ (OneShot(r)' <=> OneShot(r)) /\ Op(r)' = Op(r)
  BY DEF Stmt, OneShot, Op
<1>2. Kept(r)' = Kept(r)
  BY <1>1 DEF Kept
<1>3. RefersToFiles(r)'
  BY DEF RankInv, RefersToFiles, FilesStay, IsFile
<1>4. AtStatement(r)'
  BY <1>1 DEF RankInv, AtStatement
<1>5. IsTable(fds[r])'
  BY DEF RankInv, IsTable
<1>. QED BY <1>2, <1>3, <1>4, <1>5 DEF RankInv

\* The statement is over.
LEMMA ReturnInv ==
  ASSUME RankTypes, NEW r \in Ranks, RankInv(r), ip[r] \in DOMAIN program.stmts[r],
         program \in Programs, program' = program,
         NEW success \in BOOLEAN, NEW bytes \in Seq(Bytes), Return(r, success, bytes),
         NEW open, IsTable(open), fds'[r] = open, \A n \in DOMAIN open : IsFile(open[n].inode)',
         var'[r] # None /\ ~program.faulty => var'[r] \in DOMAIN open
  PROVE  /\ RankInv(r)' /\ Kept(r)' = DOMAIN open
         /\ ip' \in [Ranks -> Nat] /\ pc' \in [Ranks -> {"begin", "measure", "transfer"}]
         /\ fd' \in [Ranks -> Nat] /\ lSize' \in [Ranks -> Nat]
         /\ result' \in [Ranks -> Seq(Results)]
<1>1. PICK res : res = [success |-> success, read |-> bytes]
  OBVIOUS
<1>2. res \in Results
  BY <1>1 DEF Results
<1>3. result' = [result EXCEPT ![r] = Append(result[r], res)]
  BY <1>1 DEF Return
<1>4. /\ ip' = [ip EXCEPT ![r] = ip[r] + 1] /\ pc' = [pc EXCEPT ![r] = "begin"]
      /\ fd' = [fd EXCEPT ![r] = None] /\ lSize' = [lSize EXCEPT ![r] = 0]
  BY DEF Return
<1>5. result[r] \in Seq(Results) /\ ip[r] \in Nat
  BY DEF RankTypes
<1>6. /\ ip' \in [Ranks -> Nat] /\ pc' \in [Ranks -> {"begin", "measure", "transfer"}]
      /\ fd' \in [Ranks -> Nat] /\ lSize' \in [Ranks -> Nat]
  BY <1>4, <1>5 DEF RankTypes, None
<1>7. result' \in [Ranks -> Seq(Results)]
  BY <1>2, <1>3, <1>5 DEF RankTypes
<1>8. /\ ip'[r] = ip[r] + 1 /\ pc'[r] = "begin" /\ fd'[r] = None /\ lSize'[r] = 0
      /\ result'[r] = Append(result[r], res)
  BY <1>3, <1>4 DEF RankTypes
<1>9. Len(result'[r]) = Len(result[r]) + 1
  BY <1>2, <1>5, <1>8
<1>10. ip'[r] \in 1 .. Len(program.stmts[r]) + 1 /\ Len(result'[r]) = ip'[r] - 1
  BY <1>5, <1>8, <1>9, ProgramTyped, SMTT(30) DEF RankInv
<1>11. Kept(r)' = DOMAIN open
  BY <1>8 DEF Kept
<1>12. AtStatement(r)'
  BY <1>8 DEF AtStatement
<1>13. IsTable(fds[r])' /\ RefersToFiles(r)'
  BY DEF IsTable, RefersToFiles
<1>. QED BY <1>6, <1>7, <1>10, <1>11, <1>12, <1>13 DEF RankInv

\* The types of what a step of a rank changes.
Typed == /\ DOMAIN fds = Ranks
         /\ ip \in [Ranks -> Nat] /\ pc \in [Ranks -> {"begin", "measure", "transfer"}]
         /\ fd \in [Ranks -> Nat] /\ lSize \in [Ranks -> Nat]
         /\ result \in [Ranks -> Seq(Results)]

\* Setting the pointer to the statement's offset changes nothing else.
LEMMA PlacedTable ==
  ASSUME program \in Programs, NEW r \in Ranks, ip[r] \in DOMAIN program.stmts[r],
         NEW open, IsTable(open), NEW f \in DOMAIN open
  PROVE  /\ IsTable(Placed(r, f, open)) /\ DOMAIN Placed(r, f, open) = DOMAIN open
         /\ \A m \in DOMAIN open : /\ Placed(r, f, open)[m].inode = open[m].inode
                                   /\ Placed(r, f, open)[m].flags = open[m].flags
<1>1. Stmt(r) \in Statements
  BY StmtTyped
<1>2. PICK offset : offset = Stmt(r).offset
  OBVIOUS
<1>3. offset \in Nat \/ offset = OFFSET_CUR
  BY <1>1, <1>2 DEF Statements
<1>4. CASE Seeks(r)
  <2>1. offset \in Nat
    BY <1>2, <1>3, <1>4 DEF Seeks, OFFSET_CUR
  <2>2. /\ IsTable(Sought(open, f, offset)) /\ DOMAIN Sought(open, f, offset) = DOMAIN open
        /\ \A m \in DOMAIN open : /\ Sought(open, f, offset)[m].inode = open[m].inode
                                  /\ Sought(open, f, offset)[m].flags = open[m].flags
    BY <2>1, SoughtTable
  <2>3. Placed(r, f, open) = Sought(open, f, offset)
    BY <1>2, <1>4 DEF Placed
  <2>. QED BY <2>2, <2>3
<1>5. CASE ~Seeks(r)
  <2>1. Placed(r, f, open) = open
    BY <1>5 DEF Placed
  <2>. QED BY <2>1
<1>. QED BY <1>4, <1>5

\* A statement that fails before its transfer closes what it opened, if anything.
LEMMA GiveUpInv ==
  ASSUME RankTypes, NEW r \in Ranks, RankInv(r), ip[r] \in DOMAIN program.stmts[r],
         program \in Programs, program' = program, var' = var,
         NEW open, IsTable(open), \A m \in DOMAIN open : IsFile(open[m].inode)',
         NEW f \in DOMAIN open,
         DOMAIN open \ (IF OneShot(r) THEN {f} ELSE {}) = Kept(r),
         GiveUp(r, f, open)
  PROVE  /\ RankInv(r)' /\ Kept(r)' = Kept(r) /\ Typed'
         /\ \A m \in DOMAIN fds'[r] : m \in DOMAIN open /\ fds'[r][m].inode = open[m].inode
                                       /\ fds'[r][m].flags = open[m].flags
<1>1. var[r] # None /\ ~program.faulty => var[r] \in Kept(r)
  BY DEF RankInv
<1>2. PICK after : after = IF OneShot(r) THEN Without(open, f) ELSE open
  OBVIOUS
<1>3. /\ IsTable(after) /\ DOMAIN after = Kept(r)
      /\ \A m \in DOMAIN after : m \in DOMAIN open /\ after[m] = open[m]
  <2>1. CASE OneShot(r)
    <3>1. /\ IsTable(Without(open, f)) /\ DOMAIN Without(open, f) = DOMAIN open \ {f}
          /\ \A m \in DOMAIN open : m # f => Without(open, f)[m] = open[m]
      BY WithoutTable
    <3>2. after = Without(open, f) /\ Kept(r) = DOMAIN open \ {f}
      BY <1>2, <2>1
    <3>. QED BY <3>1, <3>2
  <2>2. CASE ~OneShot(r)
    <3>1. after = open /\ Kept(r) = DOMAIN open
      BY <1>2, <2>2
    <3>. QED BY <3>1
  <2>. QED BY <2>1, <2>2
<1>4. Return(r, FALSE, << >>) /\ fds' = [fds EXCEPT ![r] = after]
  BY <1>2 DEF GiveUp
<1>5. fds'[r] = after /\ DOMAIN fds' = Ranks
  BY <1>4 DEF RankTypes
<1>6. \A m \in DOMAIN after : IsFile(after[m].inode)'
  BY <1>3
<1>7. var'[r] # None /\ ~program.faulty => var'[r] \in DOMAIN after
  BY <1>1, <1>3
<1>8. << >> \in Seq(Bytes) /\ FALSE \in BOOLEAN
  OBVIOUS
<1>9. /\ RankInv(r)' /\ Kept(r)' = DOMAIN after
      /\ ip' \in [Ranks -> Nat] /\ pc' \in [Ranks -> {"begin", "measure", "transfer"}]
      /\ fd' \in [Ranks -> Nat] /\ lSize' \in [Ranks -> Nat]
      /\ result' \in [Ranks -> Seq(Results)]
  BY <1>3, <1>4, <1>5, <1>6, <1>7, <1>8, ReturnInv
<1>. QED BY <1>3, <1>5, <1>9 DEF Typed

\* One that goes on keeps it for the transfer.
LEMMA GoOnInv ==
  ASSUME RankTypes, NEW r \in Ranks, RankInv(r), ip[r] \in DOMAIN program.stmts[r],
         program \in Programs, program' = program, var' = var,
         NEW n \in Nat, n # 0, Stmt(r).amount \in {READALL, n},
         NEW open, IsTable(open), \A m \in DOMAIN open : IsFile(open[m].inode)',
         NEW f \in DOMAIN open, OneShot(r) \/ (Op(r) \in {"fread", "fwrite"} /\ f = var[r]),
         DOMAIN open \ (IF OneShot(r) THEN {f} ELSE {}) = Kept(r),
         GoOn(r, n, f, open)
  PROVE  /\ RankInv(r)' /\ Kept(r)' = Kept(r) /\ Typed' /\ fds'[r] = open
<1>1. var[r] # None /\ ~program.faulty => var[r] \in Kept(r)
  BY DEF RankInv
<1>2. f \in Nat \ {None}
  BY DEF IsTable
<1>3. /\ pc' = [pc EXCEPT ![r] = "transfer"] /\ fd' = [fd EXCEPT ![r] = f]
      /\ lSize' = [lSize EXCEPT ![r] = n] /\ fds' = [fds EXCEPT ![r] = open]
      /\ ip' = ip /\ result' = result
  BY DEF GoOn
<1>4. /\ pc'[r] = "transfer" /\ fd'[r] = f /\ lSize'[r] = n /\ fds'[r] = open
      /\ ip'[r] = ip[r] /\ result'[r] = result[r] /\ var'[r] = var[r]
  BY <1>3 DEF RankTypes
<1>5. Typed'
  BY <1>2, <1>3 DEF RankTypes, Typed
<1>6. Stmt(r)' = Stmt(r) /\ (OneShot(r)' <=> OneShot(r)) /\ Op(r)' = Op(r)
  BY <1>4 DEF Stmt, OneShot, Op
<1>7. Kept(r)' = Kept(r)
  BY <1>4, <1>6 DEF Kept
<1>8. AtStatement(r)'
  BY <1>2, <1>4, <1>6 DEF AtStatement
<1>9. IsTable(fds[r])' /\ RefersToFiles(r)'
  BY <1>4 DEF IsTable, RefersToFiles
<1>10. RankInv(r)'
  BY <1>1, <1>4, <1>7, <1>8, <1>9 DEF RankInv
<1>. QED BY <1>4, <1>5, <1>7, <1>10

LEMMA ReturnOnly ==
  ASSUME RankTypes, NEW r \in Ranks, NEW success, NEW bytes, Return(r, success, bytes),
         \A q \in Ranks : q # r => fds'[q] = fds[q] /\ var'[q] = var[q]
  PROVE  OnlyRank(r)
BY DEF OnlyRank, Return, RankTypes

LEMMA GiveUpOnly ==
  ASSUME RankTypes, NEW r \in Ranks, NEW f, NEW open, GiveUp(r, f, open), var' = var
  PROVE  OnlyRank(r)
<1>1. \A q \in Ranks : q # r => fds'[q] = fds[q] /\ var'[q] = var[q]
  BY DEF GiveUp, RankTypes
<1>2. Return(r, FALSE, << >>)
  BY DEF GiveUp
<1>. QED BY <1>1, <1>2, ReturnOnly

LEMMA GoOnOnly ==
  ASSUME RankTypes, NEW r \in Ranks, NEW n, NEW f, NEW open, GoOn(r, n, f, open), var' = var
  PROVE  OnlyRank(r)
BY DEF GoOn, OnlyRank, RankTypes

-------------------------------------------------------------------------------
(* What statements do to the files.                                              *)

LEMMA FilesSame ==
  ASSUME FileTypes, dir' = dir, inodes' = inodes
  PROVE  FileTypes' /\ FilesStay
BY DEF FileTypes, FilesStay

LEMMA InodeMade ==
  ASSUME FileTypes, NEW kind \in {"file", "dir"}, NEW p \in Paths,
         inodes' = Append(inodes, [kind |-> kind, data |-> << >>]),
         NEW i, i = Len(inodes) + 1, dir' = [dir EXCEPT ![p] = i]
  PROVE  /\ FileTypes' /\ FilesStay /\ i \in Nat
         /\ kind = "file" => IsFile(i)'
<1>1. PICK made : made = [kind |-> kind, data |-> << >>]
  OBVIOUS
<1>2. made \in Inodes /\ made.kind = kind /\ made.data = << >>
  BY <1>1, NoData DEF Inodes
<1>3. inodes \in Seq(Inodes) /\ inodes' = Append(inodes, made)
  BY <1>1 DEF FileTypes
<1>4. /\ inodes' \in Seq(Inodes) /\ Len(inodes') = Len(inodes) + 1 /\ Len(inodes) \in Nat
      /\ DOMAIN inodes' = 1 .. Len(inodes) + 1 /\ DOMAIN inodes = 1 .. Len(inodes)
      /\ inodes'[Len(inodes) + 1] = made
      /\ \A k \in DOMAIN inodes : inodes'[k] = inodes[k]
  BY <1>2, <1>3
<1>5. dir' \in [Paths -> Nat] /\ \A q \in Paths : dir'[q] <= Len(inodes')
  BY <1>4 DEF FileTypes
<1>6. \A k \in DOMAIN inodes' : inodes'[k].kind = "dir" => inodes'[k].data = << >>
  BY <1>2, <1>4 DEF FileTypes
<1>7. FilesStay
  BY <1>4 DEF FilesStay
<1>8. kind = "file" => IsFile(i)'
  BY <1>2, <1>4 DEF IsFile
<1>. QED BY <1>4, <1>5, <1>6, <1>7, <1>8 DEF FileTypes

\* A file that is there gets other bytes.
LEMMA DataReplaced ==
  ASSUME FileTypes, NEW i, IsFile(i), NEW data \in Datas,
         inodes' = [inodes EXCEPT ![i].data = data],
         dir' \in [Paths -> Nat], \A q \in Paths : dir'[q] <= Len(inodes)
  PROVE  /\ FileTypes' /\ FilesStay
         /\ inodes'[i].data = data /\ \A j \in DOMAIN inodes : j # i => inodes'[j] = inodes[j]
<1>1. i \in DOMAIN inodes /\ inodes[i].kind = "file" /\ inodes \in Seq(Inodes)
  BY DEF IsFile, FileTypes
<1>2. PICK made : made = [inodes[i] EXCEPT !.data = data]
  OBVIOUS
<1>3. inodes[i] \in Inodes
  BY <1>1
<1>4. made \in Inodes /\ made.kind = "file" /\ made.data = data
  BY <1>1, <1>2, <1>3 DEF Inodes
<1>5. inodes' = [inodes EXCEPT ![i] = made]
  BY <1>2
<1>6. /\ inodes' \in Seq(Inodes) /\ Len(inodes') = Len(inodes) /\ DOMAIN inodes' = DOMAIN inodes
      /\ inodes'[i] = made /\ \A j \in DOMAIN inodes : j # i => inodes'[j] = inodes[j]
  BY <1>1, <1>4, <1>5
<1>7. \A j \in DOMAIN inodes' : inodes'[j].kind = "dir" => inodes'[j].data = << >>
  BY <1>4, <1>6 DEF FileTypes
<1>8. FilesStay
  BY <1>1, <1>4, <1>6 DEF FilesStay
<1>. QED BY <1>4, <1>6, <1>7, <1>8 DEF FileTypes

-------------------------------------------------------------------------------
(***************************************************************************)
(* What a step of a rank does, as far as the invariants tell: to the       *)
(* descriptors it keeps after its statement and the one in its variable,   *)
(* to what its descriptors stand for, and to its results.                  *)
(***************************************************************************)

Keeping(r) ==
  /\ Kept(r)' = Kept(r) /\ var'[r] = var[r]
  /\ ip'[r] = ip[r] \/ (ip'[r] = ip[r] + 1 /\ Op(r) # "fclose")
Opening(r) ==
  /\ Op(r) \in {"fopen", "fcreat"} /\ var'[r] # None
  /\ Kept(r)' = Kept(r) \cup {var'[r]} /\ ip'[r] = ip[r] + 1
Closing(r) ==
  /\ Op(r) = "fclose" /\ Kept(r)' = Kept(r) \ {var[r]}
  /\ var'[r] \in {var[r], None} /\ ip'[r] = ip[r] + 1

\* A descriptor that was open before; that of a one-shot statement, only within it.
Carried(r, m) ==
  /\ m \in DOMAIN fds[r] /\ fds'[r][m].inode = fds[r][m].inode
  /\ fds'[r][m].flags = fds[r][m].flags
  /\ pc[r] # "begin" /\ OneShot(r) /\ m = fd[r] => pc'[r] # "begin" /\ fd'[r] = fd[r]
\* One that was opened in this step.
Fresh(r, m) ==
  /\ pc[r] = "begin" /\ Op(r) \in OpenOps
  /\ fds'[r][m].inode = dir'[Stmt(r).path] /\ fds'[r][m].flags = OpenFlags(Stmt(r))
  /\ OneShot(r) => pc'[r] # "begin" /\ fd'[r] = m
Descriptors(r) ==
  /\ \A m \in DOMAIN fds'[r] : Carried(r, m) \/ Fresh(r, m)
  /\ pc'[r] # "begin" =>
       /\ ip'[r] = ip[r]
       /\ OneShot(r) => (pc[r] # "begin" /\ fd'[r] = fd[r]) \/ Fresh(r, fd'[r])

\* Nothing counted yet, or the statement over; an append succeeds only by its transfer.
Outcome(r) ==
  \/ ip'[r] = ip[r] /\ result'[r] = result[r]
  \/ /\ ip'[r] = ip[r] + 1
     /\ \E res \in Results : /\ result'[r] = Append(result[r], res)
                             /\ Op(r) = "append" /\ res.success => pc[r] = "transfer"

Step(r) ==
  /\ program' = program /\ job' \in {"running", "aborted"}
  /\ FileTypes' /\ FilesStay /\ Typed' /\ var' \in [Ranks -> Nat]
  /\ RankInv(r)' /\ OnlyRank(r)
  /\ Keeping(r) \/ Opening(r) \/ Closing(r)
  /\ Descriptors(r) /\ Outcome(r)

\* A statement ends, with these descriptors.
LEMMA Ends ==
  ASSUME Types, NEW r \in Ranks, RankInv(r), ip[r] \in DOMAIN program.stmts[r], program' = program,
         NEW success \in BOOLEAN, NEW bytes \in Seq(Bytes), Return(r, success, bytes),
         Op(r) = "append" /\ success => pc[r] = "transfer",
         NEW open, IsTable(open), fds'[r] = open, DOMAIN fds' = Ranks,
         \A n \in DOMAIN open : IsFile(open[n].inode)',
         \A q \in Ranks : q # r => fds'[q] = fds[q] /\ var'[q] = var[q],
         var'[r] # None /\ ~program.faulty => var'[r] \in DOMAIN open
  PROVE  /\ RankInv(r)' /\ Typed' /\ OnlyRank(r) /\ Outcome(r)
         /\ Kept(r)' = DOMAIN open /\ ip'[r] = ip[r] + 1 /\ pc'[r] = "begin"
<1>1. RankTypes /\ program \in Programs
  BY DEF Types
<1>2. /\ RankInv(r)' /\ Kept(r)' = DOMAIN open
      /\ ip' \in [Ranks -> Nat] /\ pc' \in [Ranks -> {"begin", "measure", "transfer"}]
      /\ fd' \in [Ranks -> Nat] /\ lSize' \in [Ranks -> Nat]
      /\ result' \in [Ranks -> Seq(Results)]
  BY <1>1, ReturnInv
<1>3. Typed'
  BY <1>2 DEF Typed
<1>4. OnlyRank(r)
  BY <1>1, ReturnOnly
<1>5. /\ ip'[r] = ip[r] + 1 /\ pc'[r] = "begin"
      /\ result'[r] = Append(result[r], [success |-> success, read |-> bytes])
  BY <1>1 DEF Return, RankTypes
<1>6. Outcome(r)
  <2>1. PICK res : res = [success |-> success, read |-> bytes]
    OBVIOUS
  <2>2. res \in Results /\ res.success = success
    BY <2>1 DEF Results
  <2>3. result'[r] = Append(result[r], res)
    BY <1>5, <2>1
  <2>. QED BY <1>5, <2>2, <2>3 DEF Outcome
<1>. QED BY <1>2, <1>3, <1>4, <1>5, <1>6

\* A statement ends with the descriptors and the variable it had.
LEMMA EndsIdle ==
  ASSUME Types, NEW r \in Ranks, RankInv(r), Running(r, "begin"), program' = program, job' = job,
         NEW success \in BOOLEAN, Return(r, success, << >>), Op(r) = "append" => ~success,
         Op(r) # "fclose", fds' = fds, var' = var, FileTypes', FilesStay
  PROVE  Step(r)
<1>1. /\ RankTypes /\ program \in Programs /\ ip[r] \in DOMAIN program.stmts[r]
      /\ pc[r] = "begin" /\ << >> \in Seq(Bytes)
  BY Going DEF Types, Running
<1>2. PICK open : open = fds[r]
  OBVIOUS
<1>3. IsTable(open) /\ \A n \in DOMAIN open : IsFile(open[n].inode)'
  BY <1>2 DEF RankInv, IsTable, RefersToFiles, FilesStay, IsFile
<1>4. Kept(r) = DOMAIN open
  BY <1>1, <1>2 DEF Kept
<1>5. var'[r] # None /\ ~program.faulty => var'[r] \in DOMAIN open
  BY <1>4 DEF RankInv
<1>6. DOMAIN fds' = Ranks /\ fds'[r] = open
  BY <1>1, <1>2 DEF RankTypes
<1>7. /\ RankInv(r)' /\ Typed' /\ OnlyRank(r) /\ Outcome(r)
      /\ Kept(r)' = DOMAIN open /\ ip'[r] = ip[r] + 1 /\ pc'[r] = "begin"
  BY <1>1, <1>3, <1>5, <1>6, Ends
<1>8. Keeping(r)
  BY <1>4, <1>7 DEF Keeping
<1>9. Descriptors(r)
  BY <1>1, <1>7 DEF Descriptors, Carried
<1>10. var' \in [Ranks -> Nat] /\ job' \in {"running", "aborted"}
  BY <1>1 DEF Types, RankTypes
<1>. QED BY <1>7, <1>8, <1>9, <1>10 DEF Step

\* What descriptors a statement may have before its transfer: the rank's, and one of its
\* own, just opened or already with it.
AtHand(r, f, open) ==
  /\ IsTable(open) /\ f \in DOMAIN open /\ \A m \in DOMAIN open : IsFile(open[m].inode)'
  /\ OneShot(r) \/ (Op(r) \in {"fread", "fwrite"} /\ f = var[r])
  /\ DOMAIN open \ (IF OneShot(r) THEN {f} ELSE {}) = Kept(r)
  /\ \A m \in DOMAIN open :
       \/ m \in DOMAIN fds[r] /\ open[m].inode = fds[r][m].inode /\ open[m].flags = fds[r][m].flags
       \/ m = f /\ OneShot(r) /\ pc[r] = "begin"
  /\ OneShot(r) /\ pc[r] = "begin" =>
       Op(r) \in OpenOps /\ open[f].inode = dir'[Stmt(r).path] /\ open[f].flags = OpenFlags(Stmt(r))
  /\ OneShot(r) /\ pc[r] # "begin" => f = fd[r]

LEMMA PlacedAtHand ==
  ASSUME program \in Programs, NEW r \in Ranks, ip[r] \in DOMAIN program.stmts[r],
         NEW f, NEW open, AtHand(r, f, open)
  PROVE  AtHand(r, f, Placed(r, f, open))
<1>1. IsTable(open) /\ f \in DOMAIN open
  BY DEF AtHand
<1>2. PICK placed : placed = Placed(r, f, open)
  OBVIOUS
<1>3. /\ IsTable(placed) /\ DOMAIN placed = DOMAIN open
      /\ \A m \in DOMAIN open : placed[m].inode = open[m].inode /\ placed[m].flags = open[m].flags
  BY <1>1, <1>2, PlacedTable
<1>4. AtHand(r, f, placed)
  BY <1>3 DEF AtHand
<1>. QED BY <1>2, <1>4

\* A statement fails before its transfer.
LEMMA GiveUpStep ==
  ASSUME Types, NEW r \in Ranks, RankInv(r), ip[r] \in DOMAIN program.stmts[r],
         program' = program, job' = job, var' = var, FileTypes', FilesStay, Op(r) # "fclose",
         NEW f, NEW open, AtHand(r, f, open), GiveUp(r, f, open)
  PROVE  Step(r)
<1>1. RankTypes /\ program \in Programs
  BY DEF Types
<1>2. /\ IsTable(open) /\ f \in DOMAIN open /\ \A m \in DOMAIN open : IsFile(open[m].inode)'
      /\ DOMAIN open \ (IF OneShot(r) THEN {f} ELSE {}) = Kept(r)
  BY DEF AtHand
<1>3. /\ RankInv(r)' /\ Kept(r)' = Kept(r) /\ Typed'
      /\ \A m \in DOMAIN fds'[r] : m \in DOMAIN open /\ fds'[r][m].inode = open[m].inode
                                    /\ fds'[r][m].flags = open[m].flags
  BY <1>1, <1>2, GiveUpInv
<1>4. OnlyRank(r)
  BY <1>1, GiveUpOnly
<1>5. var' \in [Ranks -> Nat] /\ var'[r] = var[r] /\ job' \in {"running", "aborted"}
  BY <1>1 DEF Types, RankTypes
<1>6. Return(r, FALSE, << >>)
  BY DEF GiveUp
<1>7. /\ ip'[r] = ip[r] + 1 /\ pc'[r] = "begin"
      /\ result'[r] = Append(result[r], [success |-> FALSE, read |-> << >>])
  BY <1>1, <1>6 DEF Return, RankTypes
<1>8. Outcome(r)
  <2>1. PICK res : res = [success |-> FALSE, read |-> << >>]
    OBVIOUS
  <2>2. res \in Results /\ ~res.success /\ result'[r] = Append(result[r], res)
    BY <1>7, <2>1 DEF Results
  <2>. QED BY <1>7, <2>2 DEF Outcome
<1>9. DOMAIN fds'[r] = Kept(r)
  BY <1>3, <1>7 DEF Kept
<1>10. \A m \in DOMAIN fds'[r] : Carried(r, m)
  <2>1. OneShot(r) => f \notin DOMAIN fds'[r]
    BY <1>2, <1>9
  <2>. QED BY <1>3, <2>1 DEF Carried, AtHand
<1>11. Descriptors(r)
  BY <1>7, <1>10 DEF Descriptors
<1>12. Keeping(r)
  BY <1>3, <1>5, <1>7 DEF Keeping
<1>. QED BY <1>3, <1>4, <1>5, <1>8, <1>11, <1>12 DEF Step

\* A statement goes on to its transfer.
LEMMA GoOnStep ==
  ASSUME Types, NEW r \in Ranks, RankInv(r), ip[r] \in DOMAIN program.stmts[r],
         program' = program, job' = job, var' = var, FileTypes', FilesStay,
         NEW n \in Nat, n # 0, Stmt(r).amount \in {READALL, n},
         NEW f, NEW open, AtHand(r, f, open), GoOn(r, n, f, open)
  PROVE  Step(r)
<1>1. RankTypes /\ program \in Programs
  BY DEF Types
<1>2. /\ IsTable(open) /\ f \in DOMAIN open /\ \A m \in DOMAIN open : IsFile(open[m].inode)'
      /\ OneShot(r) \/ (Op(r) \in {"fread", "fwrite"} /\ f = var[r])
      /\ DOMAIN open \ (IF OneShot(r) THEN {f} ELSE {}) = Kept(r)
  BY DEF AtHand
<1>3. RankInv(r)' /\ Kept(r)' = Kept(r) /\ Typed' /\ fds'[r] = open
  BY <1>1, <1>2, GoOnInv
<1>4. OnlyRank(r)
  BY <1>1, GoOnOnly
<1>5. var' \in [Ranks -> Nat] /\ var'[r] = var[r] /\ job' \in {"running", "aborted"}
  BY <1>1 DEF Types, RankTypes
<1>6. pc'[r] = "transfer" /\ fd'[r] = f /\ ip'[r] = ip[r] /\ result'[r] = result[r]
  BY <1>1 DEF GoOn, RankTypes
<1>7. \A m \in DOMAIN fds'[r] : m \in DOMAIN fds[r] /\ open[m].inode = fds[r][m].inode
                                 /\ open[m].flags = fds[r][m].flags => Carried(r, m)
  BY <1>3, <1>6 DEF Carried, AtHand
<1>8. OneShot(r) /\ pc[r] = "begin" => Fresh(r, f)
  BY <1>2, <1>3, <1>6 DEF Fresh, AtHand
<1>9. Descriptors(r)
  BY <1>3, <1>6, <1>7, <1>8 DEF Descriptors, AtHand
<1>10. Keeping(r)
  BY <1>3, <1>5, <1>6 DEF Keeping
<1>11. Outcome(r)
  BY <1>6 DEF Outcome
<1>. QED BY <1>3, <1>4, <1>5, <1>9, <1>10, <1>11 DEF Step

\* It does one or the other.
LEMMA PrepareStep ==
  ASSUME Types, NEW r \in Ranks, RankInv(r), ip[r] \in DOMAIN program.stmts[r],
         program' = program, job' = job, var' = var, FileTypes', FilesStay, Op(r) # "fclose",
         NEW n \in Nat, Stmt(r).amount \in {READALL, n},
         NEW f, NEW open, AtHand(r, f, open), Prepare(r, n, f, open)
  PROVE  Step(r)
<1>1. PICK placed : placed = Placed(r, f, open)
  OBVIOUS
<1>2. AtHand(r, f, placed)
  BY <1>1, PlacedAtHand DEF Types
<1>3. CASE GiveUp(r, f, open)
  BY <1>3, GiveUpStep
<1>4. CASE GiveUp(r, f, placed)
  BY <1>2, <1>4, GiveUpStep
<1>5. CASE n # 0 /\ GoOn(r, n, f, placed)
  BY <1>2, <1>5, GoOnStep
<1>. QED BY <1>1, <1>3, <1>4, <1>5 DEF Prepare

-------------------------------------------------------------------------------
(* The steps of a rank, one by one.                                              *)

\* The program ends in the middle of a statement.
LEMMA NothingStep ==
  ASSUME Types, NEW r \in Ranks, RankInv(r), program' = program, FileTypes', FilesStay,
         fds' = fds, var' = var, ip' = ip, pc' = pc, fd' = fd, lSize' = lSize, result' = result,
         job' = "aborted"
  PROVE  Step(r)
<1>1. RankInv(r)' /\ Kept(r)' = Kept(r)
  BY RankFrame
<1>2. Typed' /\ var' \in [Ranks -> Nat] /\ OnlyRank(r)
  BY DEF Types, RankTypes, Typed, OnlyRank
<1>3. Keeping(r) /\ Outcome(r)
  BY <1>1 DEF Keeping, Outcome
<1>4. Descriptors(r)
  BY DEF Descriptors, Carried, RankInv, AtStatement
<1>. QED BY <1>1, <1>2, <1>3, <1>4 DEF Step

LEMMA HandleErrorStep ==
  ASSUME Types, NEW r \in Ranks, RankInv(r), HandleError(r)
  PROVE  Step(r)
<1>1. /\ program' = program /\ dir' = dir /\ inodes' = inodes /\ fds' = fds
      /\ var' = var /\ ip' = ip /\ pc' = pc /\ fd' = fd /\ lSize' = lSize /\ result' = result
      /\ job' = "aborted"
  BY DEF HandleError
<1>2. FileTypes' /\ FilesStay
  BY <1>1, FilesSame DEF Types
<1>. QED BY <1>1, <1>2, NothingStep

LEMMA HandleTransferStep ==
  ASSUME Types, NEW r \in Ranks, RankInv(r), HandleTransfer(r)
  PROVE  Step(r)
<1>1. /\ Running(r, "begin") /\ pc[r] = "begin" /\ Op(r) \in {"fread", "fwrite"} /\ ~OneShot(r)
      /\ program' = program /\ job' = job /\ dir' = dir /\ inodes' = inodes /\ var' = var
  BY DEF HandleTransfer, Running, OneShot
<1>2. FileTypes' /\ FilesStay
  BY <1>1, FilesSame DEF Types
<1>3. ip[r] \in DOMAIN program.stmts[r] /\ RankTypes /\ program \in Programs
  BY <1>1, Going DEF Types, Running
<1>4. Kept(r) = DOMAIN fds[r]
  BY <1>1 DEF Kept
<1>5. CASE var[r] \notin DOMAIN fds[r]
  <2>1. Return(r, FALSE, << >>) /\ fds' = fds
    BY <1>5 DEF HandleTransfer
  <2>. QED BY <1>1, <1>2, <2>1, EndsIdle
<1>6. CASE var[r] \in DOMAIN fds[r] /\ Stmt(r).amount = READALL
  <2>1. /\ pc' = [pc EXCEPT ![r] = "measure"] /\ fd' = [fd EXCEPT ![r] = var[r]]
        /\ fds' = fds /\ ip' = ip /\ lSize' = lSize /\ result' = result
    BY <1>6 DEF HandleTransfer
  <2>2. var[r] \in Nat \ {None}
    BY <1>6 DEF RankInv, IsTable
  <2>3. pc'[r] = "measure" /\ fd'[r] = var[r] /\ fds'[r] = fds[r] /\ lSize'[r] = lSize[r]
    BY <1>3, <2>1 DEF RankTypes
  <2>4. Typed' /\ var' \in [Ranks -> Nat] /\ OnlyRank(r)
    BY <1>1, <1>3, <2>1, <2>2 DEF RankTypes, Typed, OnlyRank
  <2>5. Stmt(r)' = Stmt(r) /\ Op(r)' = Op(r) /\ ~OneShot(r)'
    BY <1>1, <2>1 DEF Stmt, Op, OneShot
  <2>6. Kept(r)' = Kept(r)
    BY <1>4, <2>3, <2>5 DEF Kept
  <2>7. AtStatement(r)'
    <3>1. ~(lSize[r] > 0)
      BY <1>1 DEF RankInv, AtStatement
    <3>. QED BY <1>1, <1>3, <1>6, <2>1, <2>2, <2>3, <2>5, <3>1 DEF AtStatement
  <2>8. IsTable(fds[r])' /\ RefersToFiles(r)'
    BY <1>2, <2>1 DEF RankInv, IsTable, RefersToFiles, FilesStay, IsFile
  <2>9. RankInv(r)'
    BY <1>1, <2>1, <2>6, <2>7, <2>8 DEF RankInv
  <2>10. Keeping(r) /\ Outcome(r)
    BY <1>1, <2>1, <2>6 DEF Keeping, Outcome
  <2>11. Descriptors(r)
    BY <1>1, <2>1, <2>3 DEF Descriptors, Carried
  <2>. QED BY <1>1, <1>2, <2>4, <2>9, <2>10, <2>11 DEF Step, Types
<1>7. CASE var[r] \in DOMAIN fds[r] /\ Stmt(r).amount # READALL
  <2>1. PICK n : n = Stmt(r).amount
    OBVIOUS
  <2>2. n \in Nat
    BY <1>3, <1>7, <2>1, StmtTyped
  <2>3. PICK open : open = fds[r]
    OBVIOUS
  <2>4. PICK f : f = var[r]
    OBVIOUS
  <2>5. Prepare(r, n, f, open)
    BY <1>7, <2>1, <2>3, <2>4 DEF HandleTransfer
  <2>6. IsTable(open) /\ \A m \in DOMAIN open : IsFile(open[m].inode)'
    BY <1>2, <2>3 DEF RankInv, IsTable, RefersToFiles, FilesStay, IsFile
  <2>7. DOMAIN open \ (IF OneShot(r) THEN {f} ELSE {}) = Kept(r)
    BY <1>1, <1>4, <2>3
  <2>8. Op(r) # "fclose" /\ f \in DOMAIN open
    BY <1>1, <1>7, <2>3, <2>4
  <2>9. AtHand(r, f, open)
    BY <1>1, <2>3, <2>4, <2>6, <2>7, <2>8 DEF AtHand
  <2>. QED BY <1>1, <1>2, <1>3, <2>1, <2>2, <2>5, <2>8, <2>9, PrepareStep
<1>. QED BY <1>5, <1>6, <1>7

\* A file that is to be read as a whole, wherever its pointer is.
LEMMA MeasuredAtHand ==
  ASSUME Types, NEW r \in Ranks, RankInv(r), pc[r] = "measure", FilesStay,
         NEW f, f = fd[r], NEW pos \in Nat
  PROVE  AtHand(r, f, Sought(fds[r], f, pos)) /\ Op(r) # "fclose" /\ Stmt(r).amount = READALL
<1>1. PICK before : before = fds[r]
  OBVIOUS
<1>2. /\ f \in DOMAIN before /\ IsTable(before)
      /\ OneShot(r) \/ (Op(r) \in {"fread", "fwrite"} /\ f = var[r])
      /\ Stmt(r).amount = READALL /\ Op(r) # "fclose"
  BY <1>1 DEF RankInv, AtStatement, IsTable, OneShot
<1>3. PICK open : open = Sought(before, f, pos)
  OBVIOUS
<1>4. /\ IsTable(open) /\ DOMAIN open = DOMAIN before
      /\ \A m \in DOMAIN before : open[m].inode = before[m].inode /\ open[m].flags = before[m].flags
  <2>1. /\ IsTable(Sought(before, f, pos)) /\ DOMAIN Sought(before, f, pos) = DOMAIN before
        /\ \A m \in DOMAIN before : /\ Sought(before, f, pos)[m].inode = before[m].inode
                                    /\ Sought(before, f, pos)[m].flags = before[m].flags
    BY <1>2, SoughtTable
  <2>. QED BY <2>1, <1>3
<1>5. \A m \in DOMAIN open : IsFile(open[m].inode)'
  BY <1>1, <1>4 DEF RankInv, RefersToFiles, FilesStay, IsFile
<1>6. DOMAIN open \ (IF OneShot(r) THEN {f} ELSE {}) = Kept(r)
  BY <1>1, <1>4 DEF Kept
<1>7. \A m \in DOMAIN open : m \in DOMAIN fds[r] /\ open[m].inode = fds[r][m].inode
                              /\ open[m].flags = fds[r][m].flags
  BY <1>1, <1>4
<1>8. AtHand(r, f, open)
  BY <1>2, <1>4, <1>5, <1>6, <1>7 DEF AtHand
<1>. QED BY <1>1, <1>2, <1>3, <1>8

LEMMA MeasureStep ==
  ASSUME Types, NEW r \in Ranks, RankInv(r), Measure(r)
  PROVE  Step(r)
<1>1. /\ Running(r, "measure") /\ pc[r] = "measure"
      /\ program' = program /\ job' = job /\ dir' = dir /\ inodes' = inodes /\ var' = var
  BY DEF Measure, Running
<1>2. FileTypes' /\ FilesStay
  BY <1>1, FilesSame DEF Types
<1>3. ip[r] \in DOMAIN program.stmts[r] /\ RankTypes /\ program \in Programs
  BY <1>1, Going DEF Types, Running
<1>4. PICK f : f = fd[r]
  OBVIOUS
<1>5. PICK n : n = Eof(inodes[File(r).inode].data)
  OBVIOUS
<1>6. n \in Nat
  <2>1. PICK i : i = fds[r][fd[r]].inode
    OBVIOUS
  <2>2. i \in DOMAIN inodes
    BY <1>1, <2>1 DEF RankInv, AtStatement, RefersToFiles, IsFile
  <2>3. PICK data : data = inodes[i].data
    OBVIOUS
  <2>4. inodes \in Seq(Inodes)
    BY DEF Types, FileTypes
  <2>5. inodes[i] \in Inodes
    BY <2>2, <2>4
  <2>6. data \in Datas
    BY <2>3, <2>5 DEF Inodes
  <2>7. n = Eof(data)
    BY <1>5, <2>1, <2>3 DEF File
  <2>. QED BY <2>6, <2>7, DataKnown
<1>7. PICK pos \in {0, n} : Prepare(r, n, f, Sought(fds[r], f, pos))
  BY <1>4, <1>5 DEF Measure
<1>8. PICK open : open = Sought(fds[r], f, pos)
  OBVIOUS
<1>9. Prepare(r, n, f, open)
  BY <1>7, <1>8
<1>10. AtHand(r, f, open) /\ Op(r) # "fclose" /\ Stmt(r).amount = READALL
  <2>1. pos \in Nat
    BY <1>6
  <2>. QED BY <1>1, <1>2, <1>4, <1>8, <2>1, MeasuredAtHand
<1>. QED BY <1>1, <1>2, <1>3, <1>6, <1>9, <1>10, PrepareStep

LEMMA MeasureFailsStep ==
  ASSUME Types, NEW r \in Ranks, RankInv(r), MeasureFails(r)
  PROVE  Step(r)
<1>1. /\ Running(r, "measure") /\ pc[r] = "measure"
      /\ program' = program /\ dir' = dir /\ inodes' = inodes /\ var' = var
  BY DEF MeasureFails, Running
<1>2. FileTypes' /\ FilesStay
  BY <1>1, FilesSame DEF Types
<1>3. ip[r] \in DOMAIN program.stmts[r] /\ RankTypes /\ program \in Programs
  BY <1>1, Going DEF Types, Running
<1>4. PICK f : f = fd[r]
  OBVIOUS
<1>5. ASSUME NEW pos \in {0, File(r).pos}, GiveUp(r, f, Sought(fds[r], f, pos)), job' = job
      PROVE  Step(r)
  <2>1. pos \in Nat
    BY <1>1 DEF File, RankInv, AtStatement, IsTable, Files
  <2>2. PICK open : open = Sought(fds[r], f, pos)
    OBVIOUS
  <2>3. AtHand(r, f, open) /\ Op(r) # "fclose"
    BY <1>1, <1>2, <1>4, <2>1, <2>2, MeasuredAtHand
  <2>. QED BY <1>1, <1>2, <1>3, <1>5, <2>2, <2>3, GiveUpStep
<1>6. CASE job' = "aborted" /\ UNCHANGED << fds, ip, pc, fd, lSize, result >>
  BY <1>1, <1>2, <1>6, NothingStep
<1>. QED BY <1>4, <1>5, <1>6 DEF MeasureFails

LEMMA SeekOrSyncStep ==
  ASSUME Types, NEW r \in Ranks, RankInv(r), SeekOrSync(r)
  PROVE  Step(r)
<1>1. /\ Running(r, "begin") /\ pc[r] = "begin" /\ Op(r) \in {"fseek", "fsync"} /\ ~OneShot(r)
      /\ program' = program /\ job' = job /\ dir' = dir /\ inodes' = inodes /\ var' = var
  BY DEF SeekOrSync, Running, OneShot
<1>2. FileTypes' /\ FilesStay
  BY <1>1, FilesSame DEF Types
<1>3. ip[r] \in DOMAIN program.stmts[r] /\ RankTypes /\ program \in Programs
  BY <1>1, Going DEF Types, Running
<1>4. PICK success \in {FALSE, var[r] \in DOMAIN fds[r]} :
        /\ Return(r, success /\ (Op(r) = "fseek" => Stmt(r).offset >= 0), << >>)
        /\ fds' = IF success /\ Op(r) = "fseek" /\ Stmt(r).offset >= 0
                  THEN [fds EXCEPT ![r] = Sought(fds[r], var[r], Stmt(r).offset)] ELSE fds
  BY DEF SeekOrSync
<1>5. PICK counted : counted = (success /\ (Op(r) = "fseek" => Stmt(r).offset >= 0))
  OBVIOUS
<1>6. counted \in BOOLEAN /\ Return(r, counted, << >>)
  BY <1>4, <1>5
<1>7. CASE ~(success /\ Op(r) = "fseek" /\ Stmt(r).offset >= 0)
  <2>1. fds' = fds /\ Op(r) # "append" /\ Op(r) # "fclose"
    BY <1>1, <1>4, <1>7
  <2>. QED BY <1>1, <1>2, <1>6, <2>1, EndsIdle
<1>8. CASE success /\ Op(r) = "fseek" /\ Stmt(r).offset >= 0
  <2>1. PICK offset : offset = Stmt(r).offset
    OBVIOUS
  <2>2. offset \in Nat
    <3>1. Stmt(r) \in Statements
      BY <1>3, StmtTyped
    <3>2. offset \in Nat \/ offset = OFFSET_CUR
      BY <2>1, <3>1 DEF Statements
    <3>3. ~(OFFSET_CUR >= 0)
      BY DEF OFFSET_CUR
    <3>. QED BY <1>8, <2>1, <3>2, <3>3
  <2>3. PICK before : before = fds[r]
    OBVIOUS
  <2>4. PICK f : f = var[r]
    OBVIOUS
  <2>5. IsTable(before) /\ f \in DOMAIN before
    BY <1>4, <1>8, <2>3, <2>4 DEF RankInv, IsTable
  <2>6. PICK open : open = Sought(before, f, offset)
    OBVIOUS
  <2>7. /\ IsTable(open) /\ DOMAIN open = DOMAIN before
        /\ \A m \in DOMAIN before : open[m].inode = before[m].inode /\ open[m].flags = before[m].flags
    <3>1. /\ IsTable(Sought(before, f, offset)) /\ DOMAIN Sought(before, f, offset) = DOMAIN before
          /\ \A m \in DOMAIN before : /\ Sought(before, f, offset)[m].inode = before[m].inode
                                      /\ Sought(before, f, offset)[m].flags = before[m].flags
      BY <2>2, <2>5, SoughtTable
    <3>. QED BY <3>1, <2>6
  <2>8. fds' = [fds EXCEPT ![r] = open]
    BY <1>4, <1>8, <2>1, <2>3, <2>4, <2>6
  <2>9. fds'[r] = open /\ DOMAIN fds' = Ranks /\ \A q \in Ranks : q # r => fds'[q] = fds[q]
    BY <1>3, <2>8 DEF RankTypes
  <2>10. \A m \in DOMAIN open : IsFile(open[m].inode)'
    BY <1>2, <2>3, <2>7 DEF RankInv, RefersToFiles, FilesStay, IsFile
  <2>11. Kept(r) = DOMAIN open
    BY <1>1, <2>3, <2>7 DEF Kept
  <2>12. var'[r] # None /\ ~program.faulty => var'[r] \in DOMAIN open
    BY <1>1, <2>11 DEF RankInv
  <2>13. << >> \in Seq(Bytes) /\ Op(r) # "append"
    BY <1>8
  <2>14. /\ RankInv(r)' /\ Typed' /\ OnlyRank(r) /\ Outcome(r)
         /\ Kept(r)' = DOMAIN open /\ ip'[r] = ip[r] + 1 /\ pc'[r] = "begin"
    BY <1>1, <1>3, <1>6, <2>7, <2>9, <2>10, <2>12, <2>13, Ends
  <2>15. Keeping(r)
    BY <1>1, <2>11, <2>14 DEF Keeping
  <2>16. Descriptors(r)
    BY <1>1, <2>3, <2>7, <2>9, <2>14 DEF Descriptors, Carried
  <2>. QED BY <1>1, <1>2, <1>3, <2>14, <2>15, <2>16 DEF Step, RankTypes, Types
<1>. QED BY <1>7, <1>8

LEMMA FCloseStep ==
  ASSUME Types, NEW r \in Ranks, RankInv(r), FClose(r)
  PROVE  Step(r)
<1>1. /\ Running(r, "begin") /\ pc[r] = "begin" /\ Op(r) = "fclose" /\ ~OneShot(r) /\ var[r] # None
      /\ program' = program /\ job' = job /\ dir' = dir /\ inodes' = inodes
      /\ fds' = [fds EXCEPT ![r] = Without(fds[r], var[r])]
  BY DEF FClose, Running, OneShot
<1>2. FileTypes' /\ FilesStay
  BY <1>1, FilesSame DEF Types
<1>3. ip[r] \in DOMAIN program.stmts[r] /\ RankTypes /\ program \in Programs
  BY <1>1, Going DEF Types, Running
<1>4. PICK success \in BOOLEAN :
        /\ Return(r, success, << >>) /\ var' = IF success THEN [var EXCEPT ![r] = None] ELSE var
        /\ ~success => program.faulty \/ var[r] \notin DOMAIN fds[r]
  <2>1. PICK s \in {var[r] \in DOMAIN fds[r]} \cup {c \in {FALSE} : program.faulty} :
          Return(r, s, << >>) /\ var' = IF s THEN [var EXCEPT ![r] = None] ELSE var
    BY DEF FClose
  <2>2. CASE var[r] \in DOMAIN fds[r]
    <3>1. (var[r] \in DOMAIN fds[r]) = TRUE
      BY <2>2
    <3>2. s \in {TRUE} \cup {c \in {FALSE} : program.faulty}
      BY <3>1
    <3>3. CASE s = TRUE
      BY <2>1, <2>2, <3>3
    <3>4. CASE s = FALSE /\ program.faulty
      BY <2>1, <3>4
    <3>. QED BY <3>2, <3>3, <3>4
  <2>3. CASE var[r] \notin DOMAIN fds[r]
    <3>1. (var[r] \in DOMAIN fds[r]) = FALSE
      BY <2>3
    <3>2. s = FALSE
      BY <3>1
    <3>. QED BY <2>1, <2>3, <3>2
  <2>. QED BY <2>2, <2>3
<1>5. Return(r, success, << >>)
  BY <1>4
<1>6. PICK before : before = fds[r]
  OBVIOUS
<1>7. PICK f : f = var[r]
  OBVIOUS
<1>8. PICK open : open = Without(before, f)
  OBVIOUS
<1>9. IsTable(before)
  BY <1>6 DEF RankInv, IsTable
<1>10. /\ IsTable(open) /\ DOMAIN open = DOMAIN before \ {f}
       /\ \A m \in DOMAIN before : m # f => open[m] = before[m]
  <2>1. /\ IsTable(Without(before, f)) /\ DOMAIN Without(before, f) = DOMAIN before \ {f}
        /\ \A m \in DOMAIN before : m # f => Without(before, f)[m] = before[m]
    BY <1>9, WithoutTable
  <2>. QED BY <2>1, <1>8
<1>11. fds'[r] = open /\ DOMAIN fds' = Ranks /\ \A q \in Ranks : q # r => fds'[q] = fds[q]
  BY <1>1, <1>3, <1>6, <1>7, <1>8 DEF RankTypes
<1>12. \A m \in DOMAIN open : IsFile(open[m].inode)'
  BY <1>2, <1>6, <1>10 DEF RankInv, RefersToFiles, FilesStay, IsFile
<1>13. Kept(r) = DOMAIN before
  BY <1>1, <1>6 DEF Kept
<1>14. /\ var'[r] \in {var[r], None} /\ (success => var'[r] = None) /\ var' \in [Ranks -> Nat]
       /\ \A q \in Ranks : q # r => var'[q] = var[q]
  BY <1>3, <1>4 DEF RankTypes, None
<1>15. var'[r] # None /\ ~program.faulty => var'[r] \in DOMAIN open
  BY <1>4, <1>6, <1>13, <1>14 DEF RankInv
<1>16. << >> \in Seq(Bytes) /\ Op(r) # "append"
  BY <1>1
<1>17. /\ RankInv(r)' /\ Typed' /\ OnlyRank(r) /\ Outcome(r)
       /\ Kept(r)' = DOMAIN open /\ ip'[r] = ip[r] + 1 /\ pc'[r] = "begin"
  <2>1. IsTable(open) /\ fds'[r] = open /\ DOMAIN fds' = Ranks /\ \A n \in DOMAIN open : IsFile(open[n].inode)'
    BY <1>10, <1>11, <1>12
  <2>2. \A q \in Ranks : q # r => fds'[q] = fds[q] /\ var'[q] = var[q]
    BY <1>11, <1>14
  <2>3. var'[r] # None /\ ~program.faulty => var'[r] \in DOMAIN open
    BY <1>15
  <2>4. << >> \in Seq(Bytes) /\ Op(r) # "append" /\ program' = program /\ ip[r] \in DOMAIN program.stmts[r]
    BY <1>1, <1>3, <1>16
  <2>. QED BY <1>5, <2>1, <2>2, <2>3, <2>4, Ends
<1>18. Closing(r)
  BY <1>1, <1>7, <1>10, <1>13, <1>14, <1>17 DEF Closing
<1>19. Descriptors(r)
  BY <1>1, <1>6, <1>10, <1>11, <1>17 DEF Descriptors, Carried
<1>. QED BY <1>1, <1>2, <1>14, <1>17, <1>18, <1>19 DEF Step, Types

LEMMA OneOf ==
  ASSUME NEW possible \in BOOLEAN, NEW faulty,
         NEW s \in {possible} \cup {c \in {FALSE} : faulty}
  PROVE  s \in BOOLEAN
OBVIOUS

\* What a statement on names does to the files.
LEMMA PathFiles ==
  ASSUME NEW r \in Ranks, PathStatement(r)
  PROVE  /\ Running(r, "begin") /\ Op(r) \in PathOps
         /\ program' = program /\ job' = job /\ fds' = fds /\ var' = var
         /\ \E success \in BOOLEAN : Return(r, success, << >>)
         /\ \/ dir' = dir /\ inodes' = inodes
            \/ /\ Op(r) \in {"delete", "rmdir"} /\ inodes' = inodes
               /\ dir' = [dir EXCEPT ![Stmt(r).path] = None]
            \/ /\ Op(r) = "mkdir" /\ dir' = [dir EXCEPT ![Stmt(r).path] = Len(inodes) + 1]
               /\ inodes' = Append(inodes, [kind |-> "dir", data |-> << >>])
            \/ /\ Op(r) = "rename" /\ inodes' = inodes
               /\ dir' = [[dir EXCEPT ![Stmt(r).path] = None] EXCEPT ![Stmt(r).to] = dir[Stmt(r).path]]
<1> DEFINE p == Stmt(r).path
           q == Stmt(r).to
           Kind(name) == inodes[dir[name]].kind
           possible == CASE Op(r) = "mkdir"  -> dir[p] = None
                         [] Op(r) = "rmdir"  -> dir[p] # None /\ Kind(p) = "dir"
                         [] Op(r) = "rename" -> dir[p] # None /\ (dir[q] # None => Kind(p) = Kind(q))
                         [] OTHER            -> dir[p] # None
<1>1. /\ Running(r, "begin") /\ Op(r) \in PathOps
      /\ program' = program /\ job' = job /\ fds' = fds /\ var' = var
  BY DEF PathStatement
<1>2. PICK s \in {possible} \cup {c \in {FALSE} : program.faulty} :
        /\ dir' = CASE ~s \/ Op(r) \in {"lookup", "stat"} -> dir
                    [] s /\ Op(r) \in {"delete", "rmdir"} -> [dir EXCEPT ![p] = None]
                    [] s /\ Op(r) = "mkdir"  -> [dir EXCEPT ![p] = Len(inodes) + 1]
                    [] s /\ Op(r) = "rename" -> [[dir EXCEPT ![p] = None] EXCEPT ![q] = dir[p]]
        /\ inodes' = IF s /\ Op(r) = "mkdir"
                     THEN Append(inodes, [kind |-> "dir", data |-> << >>]) ELSE inodes
        /\ Return(r, s, << >>)
  BY DEF PathStatement
<1>3. possible \in BOOLEAN
  <2>1. CASE Op(r) = "mkdir"
    <3>1. possible = (dir[p] = None)
      BY <2>1
    <3>. QED BY <3>1
  <2>2. CASE Op(r) = "rmdir"
    <3>1. possible = (dir[p] # None /\ Kind(p) = "dir")
      BY <2>2
    <3>. QED BY <3>1
  <2>3. CASE Op(r) = "rename"
    <3>1. possible = (dir[p] # None /\ (dir[q] # None => Kind(p) = Kind(q)))
      BY <2>3
    <3>. QED BY <3>1
  <2>4. CASE Op(r) \notin {"mkdir", "rmdir", "rename"}
    <3>1. possible = (dir[p] # None)
      BY <2>4
    <3>. QED BY <3>1
  <2>. QED BY <2>1, <2>2, <2>3, <2>4
<1> HIDE DEF possible
<1>4. s \in BOOLEAN
  BY <1>3, OneOf
<1>5. CASE s = FALSE \/ Op(r) \in {"lookup", "stat"}
  BY <1>1, <1>2, <1>4, <1>5
<1>6. CASE s = TRUE /\ Op(r) \in {"delete", "rmdir"}
  BY <1>1, <1>2, <1>6
<1>7. CASE s = TRUE /\ Op(r) = "mkdir"
  BY <1>1, <1>2, <1>7
<1>8. CASE s = TRUE /\ Op(r) = "rename"
  BY <1>1, <1>2, <1>8
<1>. QED BY <1>1, <1>4, <1>5, <1>6, <1>7, <1>8 DEF PathOps

LEMMA NamesChanged ==
  ASSUME FileTypes, inodes' = inodes, dir' \in [Paths -> Nat], \A q \in Paths : dir'[q] <= Len(inodes)
  PROVE  FileTypes' /\ FilesStay
BY DEF FileTypes, FilesStay

LEMMA PathStatementStep ==
  ASSUME Types, NEW r \in Ranks, RankInv(r), PathStatement(r)
  PROVE  Step(r)
<1>1. /\ Running(r, "begin") /\ Op(r) \in PathOps
      /\ program' = program /\ job' = job /\ fds' = fds /\ var' = var
  BY PathFiles
<1>2. PICK success \in BOOLEAN : Return(r, success, << >>)
  BY PathFiles
<1>3. /\ ip[r] \in DOMAIN program.stmts[r] /\ program \in Programs /\ FileTypes
      /\ dir \in [Paths -> Nat] /\ (\A x \in Paths : dir[x] <= Len(inodes)) /\ inodes \in Seq(Inodes)
  BY <1>1, Going DEF Types, Running, FileTypes
<1>4. Stmt(r).path \in Paths /\ Stmt(r).to \in Paths
  <2>1. Stmt(r) \in Statements
    BY <1>3, StmtTyped
  <2>. QED BY <2>1 DEF Statements
<1>5. PICK p \in Paths : p = Stmt(r).path
  BY <1>4
<1>6. PICK q \in Paths : q = Stmt(r).to
  BY <1>4
<1>7. FileTypes' /\ FilesStay
  <2>1. CASE dir' = dir /\ inodes' = inodes
    BY <2>1, <1>3, FilesSame
  <2>2. CASE inodes' = inodes /\ dir' = [dir EXCEPT ![p] = None]
    <3>1. dir' \in [Paths -> Nat] /\ \A x \in Paths : dir'[x] <= Len(inodes)
      BY <1>3, <2>2 DEF None
    <3>. QED BY <1>3, <2>2, <3>1, NamesChanged
  <2>3. CASE /\ dir' = [dir EXCEPT ![p] = Len(inodes) + 1]
             /\ inodes' = Append(inodes, [kind |-> "dir", data |-> << >>])
    <3>1. PICK i : i = Len(inodes) + 1
      OBVIOUS
    <3>2. dir' = [dir EXCEPT ![p] = i] /\ "dir" \in {"file", "dir"}
      BY <2>3, <3>1
    <3>. QED BY <1>3, <2>3, <3>1, <3>2, InodeMade
  <2>4. CASE inodes' = inodes /\ dir' = [[dir EXCEPT ![p] = None] EXCEPT ![q] = dir[p]]
    <3>1. dir' \in [Paths -> Nat] /\ \A x \in Paths : dir'[x] <= Len(inodes)
      BY <1>3, <2>4 DEF None
    <3>. QED BY <1>3, <2>4, <3>1, NamesChanged
  <2>. QED BY <1>5, <1>6, <2>1, <2>2, <2>3, <2>4, PathFiles
<1>8. Op(r) # "fclose" /\ Op(r) # "append"
  BY <1>1 DEF PathOps
<1>. QED BY <1>1, <1>2, <1>7, <1>8, EndsIdle

\* What opening a file by its name does to the files.
FilesOpened(r) ==
  LET p == Stmt(r).path IN
  \/ /\ IsFile(dir[p]) /\ dir' = dir
     /\ inodes' = IF OpenFlags(Stmt(r)).trunc THEN [inodes EXCEPT ![dir[p]].data = << >>] ELSE inodes
  \/ /\ dir[p] = None /\ dir' = [dir EXCEPT ![p] = Len(inodes) + 1]
     /\ inodes' = Append(inodes, [kind |-> "file", data |-> << >>])

LEMMA OpenedTyped ==
  ASSUME FileTypes, NEW r \in Ranks, Stmt(r).path \in Paths, FilesOpened(r)
  PROVE  /\ FileTypes' /\ FilesStay
         /\ \E i \in Nat : i = dir'[Stmt(r).path] /\ IsFile(i)'
<1>1. PICK p \in Paths : p = Stmt(r).path
  OBVIOUS
<1>2. dir \in [Paths -> Nat] /\ (\A x \in Paths : dir[x] <= Len(inodes)) /\ inodes \in Seq(Inodes)
  BY DEF FileTypes
<1>3. CASE IsFile(dir[p]) /\ dir' = dir /\ inodes' = inodes
  <2>1. FileTypes' /\ FilesStay
    BY <1>3, FilesSame
  <2>2. PICK i \in Nat : i = dir[p]
    BY <1>2
  <2>3. i = dir'[p] /\ IsFile(i)'
    BY <1>3, <2>2 DEF IsFile
  <2>. QED BY <1>1, <2>1, <2>3
<1>4. CASE IsFile(dir[p]) /\ dir' = dir /\ inodes' = [inodes EXCEPT ![dir[p]].data = << >>]
  <2>1. PICK i \in Nat : i = dir[p]
    BY <1>2
  <2>2. IsFile(i) /\ inodes' = [inodes EXCEPT ![i].data = << >>]
    BY <1>4, <2>1
  <2>3. dir' \in [Paths -> Nat] /\ \A x \in Paths : dir'[x] <= Len(inodes)
    BY <1>2, <1>4
  <2>4. FileTypes' /\ FilesStay
    BY <2>2, <2>3, NoData, DataReplaced
  <2>5. i = dir'[p] /\ IsFile(i)'
    BY <1>4, <2>1, <2>2, <2>4 DEF IsFile, FilesStay
  <2>. QED BY <1>1, <2>4, <2>5
<1>5. CASE /\ dir' = [dir EXCEPT ![p] = Len(inodes) + 1]
           /\ inodes' = Append(inodes, [kind |-> "file", data |-> << >>])
  <2>1. PICK i : i = Len(inodes) + 1
    OBVIOUS
  <2>2. dir' = [dir EXCEPT ![p] = i] /\ "file" \in {"file", "dir"}
    BY <1>5, <2>1
  <2>3. FileTypes' /\ FilesStay /\ i \in Nat /\ IsFile(i)'
    BY <1>5, <2>1, <2>2, InodeMade
  <2>4. i = dir'[p]
    BY <1>2, <2>2
  <2>. QED BY <1>1, <2>3, <2>4
<1>. QED BY <1>1, <1>3, <1>4, <1>5 DEF FilesOpened

\* How the statement goes on with the file it has opened.
Continues(r, n, file) ==
  \/ Op(r) = "create" /\ Return(r, TRUE, << >>) /\ fds' = fds /\ var' = var
  \/ /\ Op(r) \in {"fcreat", "fopen"} /\ Return(r, TRUE, << >>)
     /\ fds' = [fds EXCEPT ![r] = Opened(r, n, file)] /\ var' = [var EXCEPT ![r] = n]
  \/ /\ OneShot(r) /\ Stmt(r).amount = READALL
     /\ pc' = [pc EXCEPT ![r] = "measure"] /\ fd' = [fd EXCEPT ![r] = n]
     /\ fds' = [fds EXCEPT ![r] = Opened(r, n, file)]
     /\ ip' = ip /\ var' = var /\ lSize' = lSize /\ result' = result
  \/ /\ OneShot(r) /\ Stmt(r).amount # READALL /\ var' = var
     /\ Prepare(r, Stmt(r).amount, n, Opened(r, n, file))

\* There is a file, or one may be made.
CanOpen(r) ==
  IF dir[Stmt(r).path] # None THEN inodes[dir[Stmt(r).path]].kind = "file" ELSE OpenFlags(Stmt(r)).create

\* An opening that fails, or goes on.
LEMMA OpenFiles ==
  ASSUME Types, NEW r \in Ranks, RankInv(r), OpenFile(r), NEW n, n = NewFd(r)
  PROVE  /\ Running(r, "begin") /\ Op(r) \in OpenOps /\ Stmt(r).path \in Paths
         /\ program' = program /\ job' = job
         /\ \/ /\ program.faulty \/ ~CanOpen(r)
               /\ Return(r, FALSE, << >>) /\ dir' = dir /\ inodes' = inodes /\ fds' = fds /\ var' = var
            \/ /\ FilesOpened(r)
               /\ \E file : /\ file = [inode |-> dir'[Stmt(r).path], pos |-> 0,
                                       flags |-> OpenFlags(Stmt(r))]
                            /\ Continues(r, n, file)
<1>1. /\ Running(r, "begin") /\ Op(r) \in OpenOps /\ program' = program /\ job' = job
  BY DEF OpenFile
<1>2. /\ program \in Programs /\ ip[r] \in DOMAIN program.stmts[r]
      /\ dir \in [Paths -> Nat] /\ (\A x \in Paths : dir[x] <= Len(inodes)) /\ inodes \in Seq(Inodes)
  BY <1>1, Going DEF Types, Running, FileTypes
<1>3. PICK p \in Paths : p = Stmt(r).path
  <2>1. Stmt(r) \in Statements
    BY <1>2, StmtTyped
  <2>. QED BY <2>1 DEF Statements
<1>4. CASE /\ program.faulty \/ ~CanOpen(r)
           /\ Return(r, FALSE, << >>) /\ dir' = dir /\ inodes' = inodes /\ fds' = fds /\ var' = var
  BY <1>1, <1>3, <1>4
<1>5. ASSUME ~(/\ program.faulty \/ ~CanOpen(r)
               /\ Return(r, FALSE, << >>) /\ dir' = dir /\ inodes' = inodes /\ fds' = fds /\ var' = var)
      PROVE  /\ FilesOpened(r)
             /\ \E file : /\ file = [inode |-> dir'[Stmt(r).path], pos |-> 0,
                                     flags |-> OpenFlags(Stmt(r))]
                          /\ Continues(r, n, file)
  <2>1. PICK inode : inode = IF dir[p] # None THEN dir[p] ELSE Len(inodes) + 1
    OBVIOUS
  <2>2. PICK file : file = [inode |-> inode, pos |-> 0, flags |-> OpenFlags(Stmt(r))]
    OBVIOUS
  <2>3. /\ IF dir[p] # None THEN inodes[dir[p]].kind = "file" ELSE OpenFlags(Stmt(r)).create
        /\ dir' = [dir EXCEPT ![p] = inode]
        /\ inodes' = IF ~(dir[p] # None) THEN Append(inodes, [kind |-> "file", data |-> << >>])
                     ELSE IF OpenFlags(Stmt(r)).trunc THEN [inodes EXCEPT ![inode].data = << >>] ELSE inodes
    BY <1>3, <1>5, <2>1 DEF OpenFile, CanOpen
  <2>4. dir'[Stmt(r).path] = inode
    BY <1>2, <1>3, <2>3
  <2>5. FilesOpened(r)
    <3>1. CASE dir[p] # None
      <4>1. dir[p] \in DOMAIN inodes /\ inode = dir[p]
        BY <1>2, <2>1, <3>1 DEF None
      <4>2. dir' = dir
        BY <1>2, <2>3, <4>1
      <4>. QED BY <1>3, <2>3, <3>1, <4>1, <4>2 DEF FilesOpened, IsFile
    <3>2. CASE dir[p] = None
      BY <1>3, <2>1, <2>3, <3>2 DEF FilesOpened
    <3>. QED BY <3>1, <3>2
  <2>6. CASE Op(r) \in {"create", "fcreat", "fopen"}
    BY <1>3, <1>5, <2>1, <2>2, <2>4, <2>5, <2>6 DEF OpenFile, CanOpen, Continues
  <2>7. CASE OneShot(r)
    BY <1>3, <1>5, <2>1, <2>2, <2>4, <2>5, <2>7 DEF OpenFile, CanOpen, OneShot, Continues
  <2>. QED BY <1>1, <2>6, <2>7 DEF OpenOps, OneShot
<1>. QED BY <1>1, <1>3, <1>4, <1>5

LEMMA OpenFileStep ==
  ASSUME Types, NEW r \in Ranks, RankInv(r), OpenFile(r)
  PROVE  Step(r)
<1>1. PICK n : n = NewFd(r)
  OBVIOUS
<1>2. /\ Running(r, "begin") /\ pc[r] = "begin" /\ Op(r) \in OpenOps /\ Stmt(r).path \in Paths
      /\ Op(r) # "fclose" /\ program' = program /\ job' = job
  BY <1>1, OpenFiles DEF Running, OpenOps
<1>3. ip[r] \in DOMAIN program.stmts[r] /\ RankTypes /\ program \in Programs /\ FileTypes
  BY <1>2, Going DEF Types, Running
<1>4. CASE Return(r, FALSE, << >>) /\ dir' = dir /\ inodes' = inodes /\ fds' = fds /\ var' = var
  <2>1. FileTypes' /\ FilesStay
    BY <1>3, <1>4, FilesSame
  <2>. QED BY <1>2, <1>4, <2>1, EndsIdle
<1>5. CASE FilesOpened(r)
           /\ ~(Return(r, FALSE, << >>) /\ dir' = dir /\ inodes' = inodes /\ fds' = fds /\ var' = var)
  <2>1. FileTypes' /\ FilesStay
    BY <1>2, <1>3, <1>5, OpenedTyped
  <2>2. PICK i \in Nat : i = dir'[Stmt(r).path] /\ IsFile(i)'
    BY <1>2, <1>3, <1>5, OpenedTyped
  <2>3. PICK flags : flags = OpenFlags(Stmt(r))
    OBVIOUS
  <2>4. PICK file : file = [inode |-> i, pos |-> 0, flags |-> flags] /\ Continues(r, n, file)
    BY <1>1, <1>5, <2>2, <2>3, OpenFiles
  <2>5. file \in Files /\ file.inode = i /\ file.flags = flags
    <3>1. PICK s \in Statements : s = Stmt(r) /\ s.op \in OpenOps
      BY <1>2, <1>3, StmtTyped DEF Op
    <3>2. [inode |-> 0, pos |-> 0, flags |-> flags] \in Files
      BY <2>3, <3>1, FlagsTyped
    <3>. QED BY <2>4, <3>2 DEF Files
  <2>6. n \in Nat \ {None} /\ n \notin DOMAIN fds[r]
    <3>1. IsTable(fds[r])
      BY DEF RankInv
    <3>. QED BY <1>1, <3>1, NewFdIsNew
  <2>7. PICK open : open = Opened(r, n, file)
    OBVIOUS
  <2>8. /\ IsTable(open) /\ DOMAIN open = DOMAIN fds[r] \cup {n} /\ open[n] = file
        /\ \A m \in DOMAIN fds[r] : m # n => open[m] = fds[r][m]
    <3>1. IsTable(fds[r])
      BY DEF RankInv
    <3>2. IsTable(Opened(r, n, file))
      BY <2>5, <2>6, <3>1, OpenedTable
    <3>3. DOMAIN Opened(r, n, file) = DOMAIN fds[r] \cup {n}
      BY <2>5, <2>6, <3>1, OpenedTable
    <3>4. Opened(r, n, file)[n] = file
      BY <2>5, <2>6, <3>1, OpenedTable
    <3>5. \A m \in DOMAIN fds[r] : m # n => Opened(r, n, file)[m] = fds[r][m]
      BY <2>5, <2>6, <3>1, OpenedTable
    <3>. QED BY <2>7, <3>2, <3>3, <3>4, <3>5
  <2>9. \A m \in DOMAIN open : IsFile(open[m].inode)'
    <3>1. \A m \in DOMAIN fds[r] : IsFile(open[m].inode)'
      BY <2>1, <2>6, <2>8 DEF RankInv, RefersToFiles, FilesStay, IsFile
    <3>2. IsFile(open[n].inode)'
      BY <2>2, <2>5, <2>8
    <3>. QED BY <2>8, <3>1, <3>2
  <2>10. Kept(r) = DOMAIN fds[r]
    BY <1>2 DEF Kept
  <2>11. \/ Op(r) = "create" /\ Return(r, TRUE, << >>) /\ fds' = fds /\ var' = var
         \/ /\ Op(r) \in {"fcreat", "fopen"} /\ Return(r, TRUE, << >>)
            /\ fds' = [fds EXCEPT ![r] = open] /\ var' = [var EXCEPT ![r] = n]
         \/ /\ OneShot(r) /\ Stmt(r).amount = READALL
            /\ pc' = [pc EXCEPT ![r] = "measure"] /\ fd' = [fd EXCEPT ![r] = n]
            /\ fds' = [fds EXCEPT ![r] = open]
            /\ ip' = ip /\ var' = var /\ lSize' = lSize /\ result' = result
         \/ /\ OneShot(r) /\ Stmt(r).amount # READALL /\ var' = var
            /\ Prepare(r, Stmt(r).amount, n, open)
    BY <2>4, <2>7 DEF Continues
  <2>12. CASE Op(r) = "create" /\ Return(r, TRUE, << >>) /\ fds' = fds /\ var' = var
    BY <1>2, <2>1, <2>12, EndsIdle
  <2>13. CASE /\ Op(r) \in {"fcreat", "fopen"} /\ Return(r, TRUE, << >>)
              /\ fds' = [fds EXCEPT ![r] = open] /\ var' = [var EXCEPT ![r] = n]
    <3>1. /\ fds'[r] = open /\ DOMAIN fds' = Ranks /\ var'[r] = n /\ var' \in [Ranks -> Nat]
          /\ \A q \in Ranks : q # r => fds'[q] = fds[q] /\ var'[q] = var[q]
      BY <1>3, <2>6, <2>13 DEF RankTypes
    <3>2. var'[r] # None /\ ~program.faulty => var'[r] \in DOMAIN open
      BY <2>8, <3>1
    <3>3. << >> \in Seq(Bytes) /\ Op(r) # "append"
      BY <2>13
    <3>4. TRUE \in BOOLEAN /\ Return(r, TRUE, << >>)
      BY <2>13, Zenon
    <3>5. /\ RankInv(r)' /\ Typed' /\ OnlyRank(r) /\ Outcome(r)
          /\ Kept(r)' = DOMAIN open /\ ip'[r] = ip[r] + 1 /\ pc'[r] = "begin"
      BY <1>2, <1>3, <2>8, <2>9, <3>1, <3>2, <3>3, <3>4, Ends, ZenonT(30)
    <3>6. Opening(r)
      BY <2>6, <2>8, <2>10, <2>13, <3>1, <3>5 DEF Opening
    <3>7. Descriptors(r)
      <4>1. \A m \in DOMAIN fds[r] : Carried(r, m)
        BY <1>2, <2>6, <2>8, <3>1 DEF Carried
      <4>2. Fresh(r, n)
        BY <1>2, <2>2, <2>3, <2>5, <2>8, <2>13, <3>1 DEF Fresh, OneShot
      <4>. QED BY <2>8, <3>1, <3>5, <4>1, <4>2 DEF Descriptors
    <3>. QED BY <1>2, <2>1, <3>1, <3>5, <3>6, <3>7 DEF Step, Types
  <2>14. CASE /\ OneShot(r) /\ Stmt(r).amount = READALL
              /\ pc' = [pc EXCEPT ![r] = "measure"] /\ fd' = [fd EXCEPT ![r] = n]
              /\ fds' = [fds EXCEPT ![r] = open]
              /\ ip' = ip /\ var' = var /\ lSize' = lSize /\ result' = result
    <3>1. pc'[r] = "measure" /\ fd'[r] = n /\ fds'[r] = open
      BY <1>3, <2>14 DEF RankTypes
    <3>2. Typed' /\ var' \in [Ranks -> Nat] /\ OnlyRank(r)
      BY <1>3, <2>6, <2>14 DEF RankTypes, Typed, OnlyRank
    <3>3. Stmt(r)' = Stmt(r) /\ Op(r)' = Op(r) /\ OneShot(r)'
      BY <1>2, <2>14 DEF Stmt, Op, OneShot
    <3>4. Kept(r)' = Kept(r)
      BY <2>6, <2>8, <2>10, <3>1, <3>3 DEF Kept
    <3>5. AtStatement(r)'
      <4>1. ~(lSize[r] > 0)
        BY <1>2 DEF RankInv, AtStatement
      <4>. QED BY <1>2, <1>3, <2>6, <2>8, <2>14, <3>1, <3>3, <4>1 DEF AtStatement
    <3>6. IsTable(fds[r])' /\ RefersToFiles(r)'
      BY <2>8, <2>9, <3>1 DEF IsTable, RefersToFiles
    <3>7. RankInv(r)'
      BY <1>2, <2>14, <3>4, <3>5, <3>6 DEF RankInv
    <3>8. Keeping(r) /\ Outcome(r)
      BY <2>14, <3>4 DEF Keeping, Outcome
    <3>9. Descriptors(r)
      <4>1. \A m \in DOMAIN fds[r] : Carried(r, m)
        BY <1>2, <2>6, <2>8, <3>1 DEF Carried
      <4>2. Fresh(r, n)
        BY <1>2, <2>2, <2>3, <2>5, <2>8, <3>1 DEF Fresh
      <4>. QED BY <2>8, <2>14, <3>1, <4>1, <4>2 DEF Descriptors
    <3>. QED BY <1>2, <2>1, <3>2, <3>7, <3>8, <3>9 DEF Step, Types
  <2>15. CASE /\ OneShot(r) /\ Stmt(r).amount # READALL /\ var' = var
              /\ Prepare(r, Stmt(r).amount, n, open)
    <3>1. PICK amount : amount = Stmt(r).amount
      OBVIOUS
    <3>2. amount \in Nat /\ Prepare(r, amount, n, open) /\ Stmt(r).amount \in {READALL, amount}
      BY <1>3, <2>15, <3>1, StmtTyped
    <3>3. DOMAIN open \ (IF OneShot(r) THEN {n} ELSE {}) = Kept(r)
      BY <2>6, <2>8, <2>10, <2>15
    <3>4. \A m \in DOMAIN open :
            \/ m \in DOMAIN fds[r] /\ open[m].inode = fds[r][m].inode /\ open[m].flags = fds[r][m].flags
            \/ m = n /\ OneShot(r) /\ pc[r] = "begin"
      BY <1>2, <2>6, <2>8, <2>15
    <3>5. open[n].inode = dir'[Stmt(r).path] /\ open[n].flags = OpenFlags(Stmt(r)) /\ n \in DOMAIN open
      BY <2>2, <2>3, <2>5, <2>8
    <3>6. OneShot(r) /\ var' = var
      BY <2>15
    <3>7. AtHand(r, n, open)
      BY <1>2, <2>2, <2>8, <2>9, <3>3, <3>4, <3>5, <3>6 DEF AtHand
    <3>8. Op(r) # "fclose"
      BY <3>6 DEF OneShot
    <3>. QED BY <1>2, <1>3, <2>1, <3>2, <3>6, <3>7, <3>8, PrepareStep
  <2>. QED BY <2>11, <2>12, <2>13, <2>14, <2>15
<1>. QED BY <1>1, <1>4, <1>5, OpenFiles

Writes(r) == Op(r) \in {"write", "append", "fwrite"}

\* Of descriptor f, whose inode i has some data, n bytes are transferred, from at on.
Moved(r, f, i, data, n, at) ==
  /\ n <= lSize[r]
  /\ at = IF Writes(r) /\ fds[r][f].flags.append THEN Eof(data) ELSE fds[r][f].pos
  /\ inodes' = IF ~Writes(r) THEN inodes ELSE [inodes EXCEPT ![i].data = Stored(r, data, at, n)]
  /\ fds' = [fds EXCEPT ![r] = IF OneShot(r) THEN Without(fds[r], f) ELSE Sought(fds[r], f, at + n)]
  /\ \E bytes \in Seq(Bytes) : Return(r, n = lSize[r], bytes)

LEMMA Transferred ==
  ASSUME Types, NEW r \in Ranks, RankInv(r), Transfer(r),
         NEW f, f = fd[r], NEW i, i = fds[r][f].inode, NEW data, data = inodes[i].data
  PROVE  /\ pc[r] = "transfer" /\ Running(r, "transfer") /\ f \in DOMAIN fds[r] /\ fds[r][f] \in Files
         /\ IsFile(i) /\ data \in Datas /\ lSize[r] \in Nat
         /\ program' = program /\ job' = job /\ dir' = dir /\ var' = var
         /\ \E n, at \in Nat : Moved(r, f, i, data, n, at)
<1>1. /\ pc[r] = "transfer" /\ Running(r, "transfer")
      /\ program' = program /\ job' = job /\ dir' = dir /\ var' = var
  BY DEF Transfer, Running
<1>2. f \in DOMAIN fds[r] /\ fds[r][f] \in Files /\ IsFile(i)
  BY <1>1 DEF RankInv, AtStatement, IsTable, RefersToFiles
<1>3. lSize[r] \in Nat /\ inodes \in Seq(Inodes)
  BY DEF Types, RankTypes, FileTypes
<1>4. data \in Datas
  <2>1. inodes[i] \in Inodes
    BY <1>2, <1>3 DEF IsFile
  <2>. QED BY <2>1 DEF Inodes
<1>5. Eof(data) \in Nat /\ \A b \in DOMAIN data : data[b] \in Bytes
  BY <1>4, DataKnown
<1> DEFINE file == File(r)
           bytesNow == inodes[file.inode].data
           writes == Op(r) \in {"write", "append", "fwrite"}
           start == IF writes /\ file.flags.append THEN Eof(bytesNow) ELSE file.pos
           possible == {n \in 0 .. lSize[r] :
             n > 0 => IF writes THEN file.flags.write ELSE file.flags.read /\ start + n <= Eof(bytesNow)}
           most == CHOOSE n \in possible : \A m \in possible : m <= n
<1>6. PICK n \in IF program.faulty THEN possible ELSE {most} :
        /\ inodes' = IF ~writes THEN inodes
                     ELSE [inodes EXCEPT ![file.inode].data = Stored(r, bytesNow, start, n)]
        /\ fds' = [fds EXCEPT ![r] = IF OneShot(r) THEN Without(fds[r], fd[r])
                                     ELSE Sought(fds[r], fd[r], start + n)]
        /\ Return(r, n = lSize[r],
                  IF writes THEN << >> ELSE [k \in 1 .. n |-> ByteAt(bytesNow, start + k - 1)])
  BY DEF Transfer
<1>7. n \in Nat /\ n <= lSize[r]
  <2>1. possible \in SUBSET Nat /\ 0 \in possible /\ \A m \in possible : m <= lSize[r]
    BY <1>3
  <2> HIDE DEF possible
  <2>2. PICK T : T = possible
    OBVIOUS
  <2>3. PICK top \in Nat : top = lSize[r]
    BY <1>3
  <2>4. \E m \in T : \A k \in T : k <= m
    BY <2>1, <2>2, <2>3, GreatestNatural
  <2>5. most \in possible
    BY <2>2, <2>4
  <2> HIDE DEF most
  <2>6. n \in possible
    BY <2>5
  <2>. QED BY <2>1, <2>6
<1> HIDE DEF possible, most
<1>8. PICK at \in Nat : at = start
  BY <1>2, <1>5 DEF File, Files
<1>9. /\ file = fds[r][f] /\ bytesNow = data /\ (Writes(r) <=> writes)
      /\ at = IF Writes(r) /\ fds[r][f].flags.append THEN Eof(data) ELSE fds[r][f].pos
  BY <1>8 DEF Writes, File
<1> HIDE DEF file, bytesNow, start, writes
<1>10. PICK bytes : bytes = IF Writes(r) THEN << >> ELSE [k \in 1 .. n |-> ByteAt(data, at + k - 1)]
  OBVIOUS
<1>11. bytes \in Seq(Bytes)
  <2>1. \A k \in 1 .. n : ByteAt(data, at + k - 1) \in Bytes
    <3>1. Hole \in Bytes
      BY DEF Hole, Bytes
    <3>. QED BY <1>5, <3>1 DEF ByteAt
  <2>2. [k \in 1 .. n |-> ByteAt(data, at + k - 1)] \in Seq(Bytes)
    BY <1>7, <2>1
  <2>3. << >> \in Seq(Bytes)
    OBVIOUS
  <2>. QED BY <1>10, <2>2, <2>3
<1>12. Return(r, n = lSize[r], bytes)
  <2>1. bytes = IF writes THEN << >> ELSE [k \in 1 .. n |-> ByteAt(bytesNow, start + k - 1)]
    BY <1>8, <1>10, <1>9
  <2>. QED BY <1>6, <2>1
<1>13. \E b \in Seq(Bytes) : Return(r, n = lSize[r], b)
  BY <1>11, <1>12
<1>14. /\ inodes' = IF ~Writes(r) THEN inodes ELSE [inodes EXCEPT ![i].data = Stored(r, data, at, n)]
       /\ fds' = [fds EXCEPT ![r] = IF OneShot(r) THEN Without(fds[r], f) ELSE Sought(fds[r], f, at + n)]
  BY <1>6, <1>8, <1>9
<1>15. at = IF Writes(r) /\ fds[r][f].flags.append THEN Eof(data) ELSE fds[r][f].pos
  BY <1>9
<1>16. Moved(r, f, i, data, n, at)
  BY <1>7, <1>13, <1>14, <1>15 DEF Moved
<1>. QED BY <1>1, <1>2, <1>3, <1>4, <1>7, <1>16

LEMMA TransferStep ==
  ASSUME Types, NEW r \in Ranks, RankInv(r), Transfer(r)
  PROVE  Step(r)
<1>1. PICK f : f = fd[r]
  OBVIOUS
<1>2. PICK i : i = fds[r][f].inode
  OBVIOUS
<1>3. PICK data : data = inodes[i].data
  OBVIOUS
<1>4. /\ pc[r] = "transfer" /\ Running(r, "transfer") /\ f \in DOMAIN fds[r] /\ fds[r][f] \in Files
      /\ IsFile(i) /\ data \in Datas /\ lSize[r] \in Nat
      /\ program' = program /\ job' = job /\ dir' = dir /\ var' = var
  BY <1>1, <1>2, <1>3, Transferred
<1>5. PICK n, at \in Nat : Moved(r, f, i, data, n, at)
  BY <1>1, <1>2, <1>3, Transferred
<1>6. PICK bytes \in Seq(Bytes) : Return(r, n = lSize[r], bytes)
  BY <1>5 DEF Moved
<1>7. PICK success \in BOOLEAN : Return(r, success, bytes)
  BY <1>6
<1>8. /\ program \in Programs /\ ip[r] \in DOMAIN program.stmts[r] /\ RankTypes /\ ip[r] \in Nat
      /\ FileTypes /\ dir \in [Paths -> Nat] /\ \A q \in Paths : dir[q] <= Len(inodes)
  BY <1>4, Going DEF Types, Running, FileTypes, RankTypes
<1>9. FileTypes' /\ FilesStay
  <2>1. CASE ~Writes(r)
    BY <1>4, <1>5, <1>8, <2>1, FilesSame DEF Moved
  <2>2. CASE Writes(r)
    <3>1. PICK stored : stored = Stored(r, data, at, n)
      OBVIOUS
    <3>2. stored \in Datas
      BY <1>4, <1>8, <3>1, StoredData
    <3>3. inodes' = [inodes EXCEPT ![i].data = stored]
      BY <1>5, <2>2, <3>1 DEF Moved
    <3>4. dir' \in [Paths -> Nat] /\ \A q \in Paths : dir'[q] <= Len(inodes)
      BY <1>4, <1>8
    <3>. QED BY <1>4, <1>8, <3>2, <3>3, <3>4, DataReplaced
  <2>. QED BY <2>1, <2>2
<1>10. PICK before : before = fds[r]
  OBVIOUS
<1>11. IsTable(before) /\ f \in DOMAIN before
  BY <1>4, <1>10 DEF RankInv, IsTable
<1>12. PICK open : open = IF OneShot(r) THEN Without(before, f) ELSE Sought(before, f, at + n)
  OBVIOUS
<1>13. /\ IsTable(open)
       /\ DOMAIN open = DOMAIN before \ (IF OneShot(r) THEN {f} ELSE {})
       /\ \A m \in DOMAIN open : open[m].inode = before[m].inode /\ open[m].flags = before[m].flags
  <2>1. CASE OneShot(r)
    <3>1. /\ IsTable(Without(before, f)) /\ DOMAIN Without(before, f) = DOMAIN before \ {f}
          /\ \A m \in DOMAIN before : m # f => Without(before, f)[m] = before[m]
      BY <1>11, WithoutTable
    <3>2. open = Without(before, f)
      BY <1>12, <2>1
    <3>. QED BY <2>1, <3>1, <3>2
  <2>2. CASE ~OneShot(r)
    <3>1. PICK pos \in Nat : pos = at + n
      OBVIOUS
    <3>2. /\ IsTable(Sought(before, f, pos)) /\ DOMAIN Sought(before, f, pos) = DOMAIN before
          /\ \A m \in DOMAIN before : /\ Sought(before, f, pos)[m].inode = before[m].inode
                                      /\ Sought(before, f, pos)[m].flags = before[m].flags
      BY <1>11, SoughtTable
    <3>3. open = Sought(before, f, pos)
      BY <1>12, <2>2, <3>1
    <3>. QED BY <2>2, <3>2, <3>3
  <2>. QED BY <2>1, <2>2
<1>14. /\ fds'[r] = open /\ DOMAIN fds' = Ranks
       /\ \A q \in Ranks : q # r => fds'[q] = fds[q] /\ var'[q] = var[q]
  BY <1>4, <1>5, <1>8, <1>10, <1>12 DEF RankTypes, Moved
<1>15. \A m \in DOMAIN open : IsFile(open[m].inode)'
  BY <1>9, <1>10, <1>13 DEF RankInv, RefersToFiles, FilesStay, IsFile
<1>16. Kept(r) = DOMAIN open
  BY <1>1, <1>4, <1>10, <1>13 DEF Kept
<1>17. var'[r] # None /\ ~program.faulty => var'[r] \in DOMAIN open
  BY <1>4, <1>16 DEF RankInv
<1>18. /\ RankInv(r)' /\ Typed' /\ OnlyRank(r) /\ Outcome(r)
       /\ Kept(r)' = DOMAIN open /\ ip'[r] = ip[r] + 1 /\ pc'[r] = "begin"
  BY <1>4, <1>7, <1>8, <1>13, <1>14, <1>15, <1>17, Ends
<1>19. Keeping(r)
  <2>1. Op(r) # "fclose"
    BY <1>4 DEF RankInv, AtStatement, OneShot
  <2>. QED BY <1>4, <1>16, <1>18, <2>1 DEF Keeping
<1>20. Descriptors(r)
  BY <1>1, <1>10, <1>13, <1>14, <1>18 DEF Descriptors, Carried
<1>. QED BY <1>4, <1>8, <1>9, <1>18, <1>19, <1>20 DEF Step, RankTypes, Types

-------------------------------------------------------------------------------
(* Every step keeps the types and every rank's invariant.                        *)

TypeInv == Types /\ \A r \in Ranks : RankInv(r)

LEMMA TypeInvInit ==
  ASSUME Init
  PROVE  TypeInv
<1>1. Types
  BY DEF Init, Types, FileTypes, RankTypes, None
<1>2. ASSUME NEW r \in Ranks
      PROVE  RankInv(r)
  <2>1. IsTable(fds[r]) /\ RefersToFiles(r)
    BY FS_EmptySet DEF Init, IsTable, RefersToFiles
  <2>2. AtStatement(r)
    BY <1>2 DEF Init, AtStatement, None
  <2>3. Len(program.stmts[r]) \in Nat
    BY <1>1, <1>2, ProgramTyped DEF Types
  <2>. QED BY <1>2, <2>1, <2>2, <2>3 DEF Init, RankInv
<1>. QED BY <1>1, <1>2 DEF TypeInv

LEMMA RankStep ==
  ASSUME TypeInv, NEW r \in Ranks,
         \/ OpenFile(r) \/ HandleError(r) \/ HandleTransfer(r) \/ Measure(r) \/ MeasureFails(r)
         \/ SeekOrSync(r) \/ FClose(r) \/ Transfer(r) \/ PathStatement(r)
  PROVE  Step(r)
<1>1. Types /\ RankInv(r)
  BY DEF TypeInv
<1>. QED BY <1>1, OpenFileStep, HandleErrorStep, HandleTransferStep, MeasureStep, MeasureFailsStep,
            SeekOrSyncStep, FCloseStep, TransferStep, PathStatementStep

\* The other ranks.
LEMMA OthersSame ==
  ASSUME TypeInv, NEW r \in Ranks, Step(r), NEW q \in Ranks, q # r
  PROVE  RankInv(q)' /\ Kept(q)' = Kept(q)
BY RankFrame DEF TypeInv, Step, OnlyRank

LEMMA TypeInvNext ==
  ASSUME TypeInv, [Next]_vars
  PROVE  TypeInv'
<1>1. CASE UNCHANGED vars
  <2>1. Types'
    BY <1>1 DEF TypeInv, Types, FileTypes, RankTypes, vars
  <2>2. ASSUME NEW r \in Ranks PROVE RankInv(r)'
    <3>1. FilesStay
      BY <1>1 DEF FilesStay, vars
    <3>. QED BY <1>1, <3>1, RankFrame DEF TypeInv, vars
  <2>. QED BY <2>1, <2>2 DEF TypeInv
<1>2. ASSUME NEW r \in Ranks, Step(r)
      PROVE  TypeInv'
  <2>1. Types'
    BY <1>2 DEF Step, TypeInv, Types, Typed, RankTypes
  <2>2. RankInv(r)'
    BY <1>2 DEF Step
  <2>. QED BY <1>2, <2>1, <2>2, OthersSame DEF TypeInv
<1>. QED BY <1>1, <1>2, RankStep DEF Next, Terminated

LEMMA TypeInvAlways == Spec => []TypeInv
<1>1. Init => TypeInv
  BY TypeInvInit
<1>2. TypeInv /\ [Next]_vars => TypeInv'
  BY TypeInvNext
<1>. QED BY <1>1, <1>2, PTL DEF Spec

\* Names stand for files or directories or for nothing, descriptors for files, a
\* transfer has a descriptor that is open and bytes to move, and the file variable holds a
\* descriptor that is open, whatever the other ranks do to the files and their names.
THEOREM TypeCorrect == Spec => []TypeOK
<1>1. TypeInv => TypeOK
  <2>. SUFFICES ASSUME TypeInv PROVE TypeOK
    OBVIOUS
  <2>1. job \in {"running", "aborted"} /\ \A i \in DOMAIN inodes : inodes[i].kind = "dir" => inodes[i].data = << >>
    BY DEF TypeInv, Types, FileTypes
  <2>2. \A p \in Paths : dir[p] \in 0 .. Len(inodes)
    BY DEF TypeInv, Types, FileTypes
  <2>3. ASSUME NEW r \in Ranks
        PROVE  /\ ip[r] \in 1 .. Len(program.stmts[r]) + 1 /\ Len(result[r]) = ip[r] - 1
               /\ \A n \in DOMAIN fds[r] : /\ inodes[fds[r][n].inode].kind = "file"
                                          /\ fds[r][n].pos \in Nat
               /\ pc[r] = "begin" <=> fd[r] = None
               /\ pc[r] # "begin" => fd[r] \in DOMAIN fds[r]
               /\ pc[r] = "transfer" <=> lSize[r] > 0
               /\ var[r] # None /\ ~program.faulty => var[r] \in DOMAIN fds[r]
    <3>1. RankInv(r)
      BY DEF TypeInv
    <3>2. \A n \in DOMAIN fds[r] : inodes[fds[r][n].inode].kind = "file" /\ fds[r][n].pos \in Nat
      BY <3>1 DEF RankInv, RefersToFiles, IsFile, IsTable, Files
    <3>. QED BY <3>1, <3>2 DEF RankInv, AtStatement, Kept
  <2>. QED BY <2>1, <2>2, <2>3 DEF TypeOK
<1>. QED BY <1>1, TypeInvAlways, PTL

-------------------------------------------------------------------------------
(***************************************************************************)
(* No descriptor is left open.  What has to be shown is that an fopen finds *)
(* its rank without one: if the variable's descriptor is open, there was an *)
(* fopen and no fclose since, and a tidy program does not open a second     *)
(* file then.                                                              *)
(***************************************************************************)

Opens(r, k) == program.stmts[r][k].op \in {"fopen", "fcreat"}
Closes(r, k) == program.stmts[r][k].op = "fclose"
Tidy(r) == \A j, k \in DOMAIN program.stmts[r] :
             j < k /\ Opens(r, j) /\ Opens(r, k) => \E l \in j .. k : Closes(r, l)

LeakInv(r) ==
  /\ var[r] \in Kept(r) => \E j \in 1 .. ip[r] - 1 : /\ Opens(r, j)
                                                     /\ \A l \in j .. ip[r] - 1 : ~Closes(r, l)
  /\ Tidy(r) => Kept(r) \subseteq {var[r]}

LEMMA LeakInvStep ==
  ASSUME TypeInv, NEW r \in Ranks, LeakInv(r), ip[r] \in DOMAIN program.stmts[r], Step(r)
  PROVE  LeakInv(r)'
<1>1. program' = program /\ ip[r] \in Nat
  BY DEF Step, TypeInv, Types, RankTypes
<1>2. /\ DOMAIN program.stmts[r] = 1 .. Len(program.stmts[r]) /\ Len(program.stmts[r]) \in Nat
  BY ProgramTyped DEF TypeInv, Types
<1>3. PICK k \in Nat : k = ip[r]
  BY <1>1
<1>4. (Tidy(r)' <=> Tidy(r)) /\ \A j : (Opens(r, j)' <=> Opens(r, j)) /\ (Closes(r, j)' <=> Closes(r, j))
  BY <1>1 DEF Tidy, Opens, Closes
<1>5. None \notin Kept(r)
  BY DEF TypeInv, RankInv, IsTable, Kept
<1>6. Op(r) = program.stmts[r][k].op
  BY <1>3 DEF Op, Stmt
<1>7. CASE Keeping(r)
  <2>1. Kept(r)' = Kept(r) /\ var'[r] = var[r]
    BY <1>7 DEF Keeping
  <2>2. CASE ip'[r] = ip[r]
    BY <1>1, <1>4, <2>1, <2>2 DEF LeakInv
  <2>3. CASE ip'[r] = ip[r] + 1 /\ Op(r) # "fclose"
    <3>1. ~Closes(r, k) /\ ip'[r] - 1 = k
      BY <1>3, <1>6, <2>3 DEF Closes
    <3>2. ASSUME var[r] \in Kept(r)
          PROVE  \E j \in 1 .. k : Opens(r, j) /\ \A l \in j .. k : ~Closes(r, l)
      <4>1. PICK j \in 1 .. k - 1 : Opens(r, j) /\ \A l \in j .. k - 1 : ~Closes(r, l)
        BY <1>3, <3>2 DEF LeakInv
      <4>2. j \in 1 .. k /\ \A l \in j .. k : l \in j .. k - 1 \/ l = k
        OBVIOUS
      <4>. QED BY <3>1, <4>1, <4>2
    <3>. QED BY <1>4, <2>1, <3>1, <3>2 DEF LeakInv
  <2>. QED BY <1>7, <2>2, <2>3 DEF Keeping
<1>8. CASE Opening(r)
  <2>1. /\ Kept(r)' = Kept(r) \cup {var'[r]} /\ ip'[r] - 1 = k
        /\ Opens(r, k) /\ ~Closes(r, k) /\ k \in 1 .. k
    <3>1. k \in DOMAIN program.stmts[r]
      BY <1>3
    <3>2. 1 <= k
      BY <1>2, <3>1
    <3>3. Opens(r, k) /\ ~Closes(r, k)
      BY <1>6, <1>8 DEF Opening, Opens, Closes
    <3>. QED BY <1>3, <1>8, <3>2, <3>3 DEF Opening
  <2>2. \A l \in k .. k : l = k
    OBVIOUS
  <2>3. \E j \in 1 .. k : Opens(r, j) /\ \A l \in j .. k : ~Closes(r, l)
    BY <2>1, <2>2
  <2>4. ASSUME Tidy(r)
        PROVE  var[r] \notin Kept(r)
    <3>1. SUFFICES ASSUME var[r] \in Kept(r) PROVE FALSE
      OBVIOUS
    <3>2. PICK j \in 1 .. k - 1 : Opens(r, j) /\ \A l \in j .. k - 1 : ~Closes(r, l)
      BY <1>3, <3>1 DEF LeakInv
    <3>3. j \in DOMAIN program.stmts[r] /\ k \in DOMAIN program.stmts[r] /\ j < k
      BY <1>2, <1>3
    <3>4. PICK l \in j .. k : Closes(r, l)
      BY <2>1, <2>4, <3>2, <3>3 DEF Tidy
    <3>5. l \in j .. k - 1 \/ l = k
      OBVIOUS
    <3>. QED BY <2>1, <3>2, <3>4, <3>5
  <2>. QED BY <1>4, <2>1, <2>3, <2>4 DEF LeakInv
<1>9. CASE Closing(r)
  <2>1. var'[r] \notin Kept(r)'
    BY <1>5, <1>9 DEF Closing
  <2>2. Tidy(r) => Kept(r)' = {}
    BY <1>9 DEF Closing, LeakInv
  <2>. QED BY <1>4, <2>1, <2>2 DEF LeakInv
<1>. QED BY <1>7, <1>8, <1>9 DEF Step

\* Steps are taken by a rank that is not done.
LEMMA StepsGo ==
  ASSUME TypeInv, NEW r \in Ranks,
         \/ OpenFile(r) \/ HandleError(r) \/ HandleTransfer(r) \/ Measure(r) \/ MeasureFails(r)
         \/ SeekOrSync(r) \/ FClose(r) \/ Transfer(r) \/ PathStatement(r)
  PROVE  ip[r] \in DOMAIN program.stmts[r]
<1>1. ~Finished(r)
  BY DEF OpenFile, HandleError, HandleTransfer, Measure, MeasureFails, SeekOrSync, FClose, Transfer,
         PathStatement, Running
<1>. QED BY <1>1, Going DEF TypeInv, Types

LEMMA LeakInvNext ==
  ASSUME TypeInv, \A r \in Ranks : LeakInv(r), [Next]_vars
  PROVE  \A r \in Ranks : LeakInv(r)'
<1>1. CASE UNCHANGED vars
  BY <1>1 DEF vars, LeakInv, Kept, OneShot, Op, Stmt, Tidy, Opens, Closes
<1>2. ASSUME NEW r \in Ranks, Step(r), ip[r] \in DOMAIN program.stmts[r]
      PROVE  \A q \in Ranks : LeakInv(q)'
  <2>1. LeakInv(r)'
    BY <1>2, LeakInvStep
  <2>2. ASSUME NEW q \in Ranks, q # r
        PROVE  LeakInv(q)'
    <3>1. program' = program /\ var'[q] = var[q] /\ ip'[q] = ip[q] /\ Kept(q)' = Kept(q)
      BY <1>2, <2>2, OthersSame DEF Step, OnlyRank
    <3>2. (Tidy(q)' <=> Tidy(q)) /\ \A j : (Opens(q, j)' <=> Opens(q, j)) /\ (Closes(q, j)' <=> Closes(q, j))
      BY <3>1 DEF Tidy, Opens, Closes
    <3>. QED BY <3>1, <3>2 DEF LeakInv
  <2>. QED BY <2>1, <2>2
<1>. QED BY <1>1, <1>2, RankStep, StepsGo DEF Next, Terminated

\* Whatever fails, a rank that closes a file before it opens the next has no descriptor
\* open between statements but that of its file variable: write, append and read close
\* theirs on each of their ways out.
THEOREM DescriptorsKept == Spec => []NoLeak
<1>1. Init => \A r \in Ranks : LeakInv(r)
  BY DEF Init, LeakInv, Kept
<1>2. TypeInv /\ (\A r \in Ranks : LeakInv(r)) /\ [Next]_vars => (\A r \in Ranks : LeakInv(r))'
  BY LeakInvNext
<1>3. TypeInv /\ (\A r \in Ranks : LeakInv(r)) => NoLeak
  BY DEF NoLeak, LeakInv, Tidy, Opens, Closes, Kept
<1>. QED BY <1>1, <1>2, <1>3, TypeInvAlways, PTL DEF Spec

-------------------------------------------------------------------------------
(***************************************************************************)
(* Appends to a shared file.  The invariant says why nobody else can write *)
(* to it or put the end elsewhere between an append's opening and its      *)
(* write: the file has one name, it is only open in one-shot statements on *)
(* that name, they opened it without truncating, and it has no holes.      *)
(***************************************************************************)

QuietFor(r, p) == \A k \in DOMAIN program.stmts[r] :
                    LET s == program.stmts[r][k] IN
                    \/ s.op \in HandleOps \/ ~Mentions(s, p)
                    \/ s.op \in {"append", "read", "lookup", "stat"}
Quiet(p) == \A r \in Ranks : QuietFor(r, p)

Appends(r, k, p) == /\ program.stmts[r][k].op = "append" /\ program.stmts[r][k].path = p
                    /\ result[r][k].success
InOnePiece(data, r, k) ==
  \E b \in DOMAIN data : \A v \in 0 .. program.stmts[r][k].amount - 1 :
    b + v \in DOMAIN data /\ data[b + v] = [writer |-> r, stmt |-> k, at |-> v]

\* A one-shot statement on p is between its system calls.
AtWork(r, p) == pc[r] # "begin" /\ OneShot(r) /\ Stmt(r).path = p

OneName(p) == \A q \in Paths : q # p /\ dir[q] = dir[p] => dir[p] = None
OnlyAtWork(r, p) ==
  /\ \A n \in DOMAIN fds[r] : fds[r][n].inode = dir[p] => AtWork(r, p) /\ n = fd[r]
  /\ AtWork(r, p) => /\ fds[r][fd[r]].inode = dir[p]
                     /\ fds[r][fd[r]].flags = OpenFlags(Stmt(r))
Whole(p) == dir[p] # None => \E e \in Nat : DOMAIN inodes[dir[p]].data = 0 .. e - 1
AllThere(r, p) == \A k \in DOMAIN result[r] :
                    Appends(r, k, p) => dir[p] # None /\ InOnePiece(inodes[dir[p]].data, r, k)

AppendInv(p) ==
  OneName(p) /\ Whole(p) /\ \A r \in Ranks : OnlyAtWork(r, p) /\ AllThere(r, p)

LEMMA StoredAtEnd ==
  ASSUME NEW r \in Ranks, NEW data \in Datas, NEW e \in Nat, DOMAIN data = 0 .. e - 1,
         NEW n \in Nat, NEW after, after = Stored(r, data, e, n)
  PROVE  /\ DOMAIN after = 0 .. (e + n) - 1 /\ \A b \in 0 .. e - 1 : after[b] = data[b]
         /\ \A v \in 0 .. n - 1 : /\ e + v \in DOMAIN after
                                  /\ after[e + v] = [writer |-> r, stmt |-> ip[r], at |-> v]
<1>1. DOMAIN after = DOMAIN data \cup e .. e + n - 1
  BY DEF Stored
<1>2. \A b : b \in 0 .. (e + n) - 1 <=> b \in 0 .. e - 1 \/ b \in e .. e + n - 1
  OBVIOUS
<1>3. DOMAIN after = 0 .. (e + n) - 1
  BY <1>1, <1>2
<1>4. \A b \in DOMAIN data : b \in DOMAIN after /\ ~(b \in e .. e + n - 1)
  BY <1>1
<1>5. \A b \in DOMAIN data : after[b] = data[b]
  BY <1>1, <1>4 DEF Stored
<1>6. ASSUME NEW v \in 0 .. n - 1
      PROVE  e + v \in DOMAIN after /\ after[e + v] = [writer |-> r, stmt |-> ip[r], at |-> v]
  <2>1. e + v \in e .. e + n - 1 /\ (e + v) - e = v
    OBVIOUS
  <2>2. after[e + v] = [writer |-> r, stmt |-> ip[r], at |-> (e + v) - e]
    BY <1>1, <2>1 DEF Stored
  <2>. QED BY <1>1, <2>1, <2>2
<1>. QED BY <1>3, <1>5, <1>6

\* How a step of r may change the file p.
Untouched(p) == dir'[p] = dir[p] /\ (dir[p] # None => inodes'[dir[p]].data = inodes[dir[p]].data)
Made(r, p) == /\ Stmt(r).path = p /\ dir[p] = None /\ dir'[p] = Len(inodes) + 1
              /\ inodes'[Len(inodes) + 1].data = << >>
Appended(r, p) ==
  /\ AtWork(r, p) /\ Op(r) = "append" /\ dir[p] # None /\ dir'[p] = dir[p]
  /\ \E n \in Nat :
       /\ inodes'[dir[p]].data = Stored(r, inodes[dir[p]].data, Eof(inodes[dir[p]].data), n)
       /\ \E bytes \in Seq(Bytes) : Return(r, n = lSize[r], bytes)
FileStep(r, p) ==
  /\ OneName(p)'
  /\ Untouched(p) \/ Made(r, p) \/ Appended(r, p)
  /\ pc[r] = "transfer" /\ AtWork(r, p) /\ Op(r) = "append" => Appended(r, p)

LEMMA QuietStmt ==
  ASSUME TypeInv, NEW p \in Paths, NEW r \in Ranks, QuietFor(r, p), ip[r] \in DOMAIN program.stmts[r],
         Op(r) \notin HandleOps, Stmt(r).path = p \/ (Op(r) = "rename" /\ Stmt(r).to = p)
  PROVE  Op(r) \in {"append", "read", "lookup", "stat"}
BY DEF QuietFor, Mentions, Op, Stmt

LEMMA FilesSameStep ==
  ASSUME NEW p \in Paths, OneName(p), NEW r \in Ranks, dir' = dir, inodes' = inodes, pc[r] # "transfer"
  PROVE  FileStep(r, p)
BY DEF FileStep, Untouched, OneName

LEMMA OpenFileFiles ==
  ASSUME TypeInv, NEW p \in Paths, OneName(p), NEW r \in Ranks, QuietFor(r, p), OpenFile(r)
  PROVE  FileStep(r, p)
<1>1. PICK n : n = NewFd(r)
  OBVIOUS
<1>2. Types /\ RankInv(r)
  BY DEF TypeInv
<1>3. Running(r, "begin") /\ pc[r] = "begin" /\ Op(r) \in OpenOps /\ Stmt(r).path \in Paths
  BY <1>1, <1>2, OpenFiles DEF Running
<1>4. PICK x \in Paths : x = Stmt(r).path
  BY <1>3
<1>5. /\ dir \in [Paths -> Nat] /\ (\A q \in Paths : dir[q] <= Len(inodes)) /\ inodes \in Seq(Inodes)
      /\ FileTypes /\ DOMAIN inodes = 1 .. Len(inodes) /\ Len(inodes) \in Nat
  BY <1>2 DEF Types, FileTypes
<1>6. CASE dir' = dir /\ inodes' = inodes
  BY <1>3, <1>6, FilesSameStep
<1>7. CASE FilesOpened(r) /\ IsFile(dir[x]) /\ dir' = dir
           /\ inodes' = [inodes EXCEPT ![dir[x]].data = << >>] /\ OpenFlags(Stmt(r)).trunc
  <2>1. x # p
    <3>1. SUFFICES ASSUME x = p PROVE FALSE
      OBVIOUS
    <3>2. ip[r] \in DOMAIN program.stmts[r] /\ Op(r) \notin HandleOps
      BY <1>2, <1>3, Going DEF Types, Running, OpenOps, HandleOps
    <3>3. Op(r) \in {"append", "read"}
      BY <1>3, <1>4, <3>1, <3>2, QuietStmt DEF OpenOps
    <3>4. ~OpenFlags(Stmt(r)).trunc
      BY <3>3 DEF OpenFlags, ModeFlags, Flags, Op
    <3>. QED BY <1>7, <3>4
  <2>2. PICK i \in Nat : i = dir[x]
    BY <1>5
  <2>3. i # 0 /\ dir[p] # i
    BY <1>5, <1>7, <2>1, <2>2 DEF OneName, None, IsFile
  <2>4. IsFile(i) /\ inodes' = [inodes EXCEPT ![i].data = << >>]
    BY <1>7, <2>2
  <2>5. dir' \in [Paths -> Nat] /\ \A q \in Paths : dir'[q] <= Len(inodes)
    BY <1>5, <1>7
  <2>6. \A j \in DOMAIN inodes : j # i => inodes'[j] = inodes[j]
    BY <1>5, <2>4, <2>5, NoData, DataReplaced
  <2>7. dir[p] # None => dir[p] \in DOMAIN inodes
    BY <1>5 DEF None
  <2>8. Untouched(p)
    BY <1>7, <2>3, <2>6, <2>7 DEF Untouched
  <2>. QED BY <1>3, <1>7, <2>8 DEF FileStep, OneName
<1>8. CASE FilesOpened(r) /\ dir[x] = None /\ dir' = [dir EXCEPT ![x] = Len(inodes) + 1]
           /\ inodes' = Append(inodes, [kind |-> "file", data |-> << >>])
  <2>1. PICK made : made = [kind |-> "file", data |-> << >>]
    OBVIOUS
  <2>2. made \in Inodes /\ made.data = << >> /\ inodes' = Append(inodes, made)
    BY <1>8, <2>1, NoData DEF Inodes
  <2>3. inodes'[Len(inodes) + 1] = made /\ \A j \in DOMAIN inodes : inodes'[j] = inodes[j]
    BY <1>5, <2>2
  <2>4. /\ dir'[x] = Len(inodes) + 1 /\ \A q \in Paths : q # x => dir'[q] = dir[q]
    BY <1>5, <1>8
  <2>5. OneName(p)'
    BY <1>5, <2>4 DEF OneName
  <2>6. CASE x = p
    BY <1>3, <1>4, <1>8, <2>2, <2>3, <2>4, <2>5, <2>6 DEF FileStep, Made
  <2>7. CASE x # p
    <3>1. dir'[p] = dir[p] /\ (dir[p] # None => dir[p] \in DOMAIN inodes)
      BY <1>5, <2>4, <2>7 DEF None
    <3>. QED BY <1>3, <2>3, <2>5, <3>1 DEF FileStep, Untouched
  <2>. QED BY <2>6, <2>7
<1>9. (dir' = dir /\ inodes' = inodes) \/ FilesOpened(r)
  BY <1>1, <1>2, OpenFiles
<1>. QED BY <1>4, <1>6, <1>7, <1>8, <1>9 DEF FilesOpened

LEMMA PathStatementFiles ==
  ASSUME TypeInv, NEW p \in Paths, OneName(p), NEW r \in Ranks, QuietFor(r, p), PathStatement(r)
  PROVE  FileStep(r, p)
<1>1. Running(r, "begin") /\ pc[r] = "begin" /\ Op(r) \in PathOps
  BY PathFiles DEF Running
<1>2. /\ dir \in [Paths -> Nat] /\ (\A q \in Paths : dir[q] <= Len(inodes)) /\ inodes \in Seq(Inodes)
      /\ DOMAIN inodes = 1 .. Len(inodes) /\ Len(inodes) \in Nat /\ program \in Programs
  BY DEF TypeInv, Types, FileTypes
<1>3. ip[r] \in DOMAIN program.stmts[r]
  BY <1>1, <1>2, Going DEF TypeInv, Running
<1>4. PICK x, y \in Paths : x = Stmt(r).path /\ y = Stmt(r).to
  <2>1. Stmt(r) \in Statements
    BY <1>2, <1>3, StmtTyped
  <2>. QED BY <2>1 DEF Statements
<1>5. Op(r) \notin {"lookup", "stat"} => x # p /\ (Op(r) = "rename" => y # p)
  <2>1. Op(r) \notin HandleOps /\ Op(r) \notin {"append", "read"}
    BY <1>1 DEF PathOps, HandleOps
  <2>. QED BY <1>3, <1>4, <2>1, QuietStmt
<1>6. CASE dir' = dir /\ inodes' = inodes
  BY <1>1, <1>6, FilesSameStep
<1>7. CASE Op(r) \in {"delete", "rmdir"} /\ inodes' = inodes /\ dir' = [dir EXCEPT ![x] = None]
  <2>1. dir'[x] = None /\ x # p /\ \A q \in Paths : q # x => dir'[q] = dir[q]
    BY <1>2, <1>5, <1>7
  <2>2. OneName(p)' /\ Untouched(p)
    BY <1>7, <2>1 DEF OneName, Untouched
  <2>. QED BY <1>1, <2>2 DEF FileStep
<1>8. CASE Op(r) = "mkdir" /\ dir' = [dir EXCEPT ![x] = Len(inodes) + 1]
           /\ inodes' = Append(inodes, [kind |-> "dir", data |-> << >>])
  <2>1. PICK made : made = [kind |-> "dir", data |-> << >>]
    OBVIOUS
  <2>2. made \in Inodes /\ inodes' = Append(inodes, made)
    BY <1>8, <2>1, NoData DEF Inodes
  <2>3. \A j \in DOMAIN inodes : inodes'[j] = inodes[j]
    BY <1>2, <2>2
  <2>4. dir'[x] = Len(inodes) + 1 /\ x # p /\ \A q \in Paths : q # x => dir'[q] = dir[q]
    BY <1>2, <1>5, <1>8
  <2>5. OneName(p)'
    BY <1>2, <2>4 DEF OneName
  <2>6. Untouched(p)
    BY <1>2, <2>3, <2>4 DEF Untouched, None
  <2>. QED BY <1>1, <2>5, <2>6 DEF FileStep
<1>9. CASE Op(r) = "rename" /\ inodes' = inodes
           /\ dir' = [[dir EXCEPT ![x] = None] EXCEPT ![y] = dir[x]]
  <2>1. x # p /\ y # p
    BY <1>5, <1>9
  <2>2. /\ dir'[y] = dir[x] /\ (x # y => dir'[x] = None)
        /\ \A q \in Paths : q # x /\ q # y => dir'[q] = dir[q]
    BY <1>2, <1>9
  <2>3. OneName(p)' /\ Untouched(p)
    BY <1>9, <2>1, <2>2 DEF OneName, Untouched
  <2>. QED BY <1>1, <2>3 DEF FileStep
<1>. QED BY <1>4, <1>6, <1>7, <1>8, <1>9, PathFiles

LEMMA TransferFiles ==
  ASSUME TypeInv, NEW p \in Paths, OneName(p), NEW r \in Ranks, QuietFor(r, p), OnlyAtWork(r, p), Transfer(r)
  PROVE  FileStep(r, p)
<1>1. Types /\ RankInv(r)
  BY DEF TypeInv
<1>2. PICK f : f = fd[r]
  OBVIOUS
<1>3. PICK i : i = fds[r][f].inode
  OBVIOUS
<1>4. PICK data : data = inodes[i].data
  OBVIOUS
<1>5. /\ pc[r] = "transfer" /\ Running(r, "transfer") /\ f \in DOMAIN fds[r] /\ fds[r][f] \in Files
      /\ IsFile(i) /\ data \in Datas /\ dir' = dir
  BY <1>1, <1>2, <1>3, <1>4, Transferred
<1>6. PICK n, at \in Nat : Moved(r, f, i, data, n, at)
  BY <1>1, <1>2, <1>3, <1>4, Transferred
<1>7. /\ dir \in [Paths -> Nat] /\ (\A q \in Paths : dir[q] <= Len(inodes)) /\ FileTypes
      /\ DOMAIN inodes = 1 .. Len(inodes) /\ Len(inodes) \in Nat /\ program \in Programs
      /\ ip[r] \in DOMAIN program.stmts[r] /\ ip[r] \in Nat
  BY <1>1, <1>5, Going DEF Types, FileTypes, Running, RankTypes
<1>8. OneName(p)'
  BY <1>5 DEF OneName
<1>9. CASE Writes(r) /\ i = dir[p]
  <2>1. AtWork(r, p) /\ OneShot(r) /\ Op(r) = "append"
    <3>1. AtWork(r, p) /\ OneShot(r)
      BY <1>3, <1>5, <1>9 DEF OnlyAtWork, AtWork
    <3>2. Op(r) \notin HandleOps /\ Stmt(r).path = p
      BY <3>1 DEF OneShot, HandleOps, AtWork
    <3>3. Op(r) \in {"append", "read", "lookup", "stat"}
      BY <1>7, <3>2, QuietStmt
    <3>. QED BY <1>9, <3>1, <3>3 DEF Writes
  <2>2. fds[r][f].flags.append
    <3>1. fds[r][f].flags = OpenFlags(Stmt(r))
      BY <1>2, <2>1 DEF OnlyAtWork
    <3>. QED BY <2>1, <3>1 DEF OpenFlags, ModeFlags, Flags, Op
  <2>3. at = Eof(data)
    BY <1>6, <1>9, <2>2 DEF Moved
  <2>4. PICK stored : stored = Stored(r, data, at, n)
    OBVIOUS
  <2>5. stored \in Datas
    BY <1>5, <1>7, <2>4, StoredData
  <2>6. inodes' = [inodes EXCEPT ![i].data = stored]
    BY <1>6, <1>9, <2>4 DEF Moved
  <2>7. inodes'[i].data = stored
    BY <1>5, <1>7, <2>5, <2>6, DataReplaced
  <2>8. dir[p] # None
    BY <1>5, <1>7, <1>9 DEF IsFile, None
  <2>9. \E bytes \in Seq(Bytes) : Return(r, n = lSize[r], bytes)
    BY <1>6 DEF Moved
  <2>10. inodes'[dir[p]].data = Stored(r, inodes[dir[p]].data, Eof(inodes[dir[p]].data), n)
    BY <1>4, <1>9, <2>3, <2>4, <2>7
  <2>11. Appended(r, p)
    BY <1>5, <2>1, <2>8, <2>9, <2>10 DEF Appended
  <2>. QED BY <1>8, <2>11 DEF FileStep
<1>10. CASE ~(Writes(r) /\ i = dir[p])
  <2>1. AtWork(r, p) /\ Op(r) = "append" => FALSE
    BY <1>2, <1>3, <1>10 DEF OnlyAtWork, Writes
  <2>2. Untouched(p)
    <3>1. CASE ~Writes(r)
      BY <1>5, <1>6, <3>1 DEF Moved, Untouched
    <3>2. CASE Writes(r)
      <4>1. PICK stored : stored = Stored(r, data, at, n)
        OBVIOUS
      <4>2. stored \in Datas
        BY <1>5, <1>7, <4>1, StoredData
      <4>3. inodes' = [inodes EXCEPT ![i].data = stored]
        BY <1>6, <3>2, <4>1 DEF Moved
      <4>4. dir' \in [Paths -> Nat] /\ \A q \in Paths : dir'[q] <= Len(inodes)
        BY <1>5, <1>7
      <4>5. \A j \in DOMAIN inodes : j # i => inodes'[j] = inodes[j]
        BY <1>5, <1>7, <4>2, <4>3, <4>4, DataReplaced
      <4>6. dir[p] # None => dir[p] \in DOMAIN inodes /\ dir[p] # i
        BY <1>7, <1>10, <3>2 DEF None
      <4>. QED BY <1>5, <4>5, <4>6 DEF Untouched
    <3>. QED BY <3>1, <3>2
  <2>. QED BY <1>8, <2>1, <2>2 DEF FileStep
<1>. QED BY <1>9, <1>10

LEMMA FilesStep ==
  ASSUME TypeInv, NEW p \in Paths, OneName(p), NEW r \in Ranks, QuietFor(r, p), OnlyAtWork(r, p),
         \/ OpenFile(r) \/ HandleError(r) \/ HandleTransfer(r) \/ Measure(r) \/ MeasureFails(r)
         \/ SeekOrSync(r) \/ FClose(r) \/ Transfer(r) \/ PathStatement(r)
  PROVE  FileStep(r, p)
<1>1. CASE OpenFile(r)
  BY <1>1, OpenFileFiles
<1>2. CASE \/ HandleError(r) \/ HandleTransfer(r) \/ Measure(r) \/ MeasureFails(r)
           \/ SeekOrSync(r) \/ FClose(r)
  <2>1. dir' = dir /\ inodes' = inodes /\ pc[r] # "transfer"
    BY <1>2 DEF HandleError, HandleTransfer, Measure, MeasureFails, SeekOrSync, FClose, Running
  <2>. QED BY <2>1, FilesSameStep
<1>3. CASE Transfer(r)
  BY <1>3, TransferFiles
<1>4. CASE PathStatement(r)
  BY <1>4, PathStatementFiles
<1>. QED BY <1>1, <1>2, <1>3, <1>4

\* No descriptor stands for a file that is only now made.
LEMMA OnlyOld ==
  ASSUME TypeInv, NEW q \in Ranks, NEW n \in DOMAIN fds[q]
  PROVE  fds[q][n].inode # Len(inodes) + 1 /\ fds[q][n].inode # None
<1>1. fds[q][n].inode \in DOMAIN inodes /\ inodes \in Seq(Inodes)
  BY DEF TypeInv, RankInv, RefersToFiles, IsFile, Types, FileTypes
<1>. QED BY <1>1 DEF None

\* What becomes of the file's name.
LEMMA NameStays ==
  ASSUME NEW r \in Ranks, NEW p \in Paths, FileStep(r, p)
  PROVE  \/ dir'[p] = dir[p]
         \/ dir[p] = None /\ dir'[p] = Len(inodes) + 1
BY DEF FileStep, Untouched, Made, Appended

LEMMA OnlyAtWorkOthers ==
  ASSUME TypeInv, NEW p \in Paths, NEW r \in Ranks, Step(r), FileStep(r, p),
         NEW q \in Ranks, q # r, OnlyAtWork(q, p)
  PROVE  OnlyAtWork(q, p)'
<1>1. /\ program' = program /\ fds'[q] = fds[q] /\ ip'[q] = ip[q] /\ pc'[q] = pc[q] /\ fd'[q] = fd[q]
  BY DEF Step, OnlyRank
<1>2. Stmt(q)' = Stmt(q) /\ (AtWork(q, p)' <=> AtWork(q, p))
  BY <1>1 DEF Stmt, AtWork, OneShot, Op
<1>3. ASSUME NEW n \in DOMAIN fds'[q], fds'[q][n].inode = dir'[p]
      PROVE  AtWork(q, p)' /\ n = fd'[q]
  <2>1. n \in DOMAIN fds[q] /\ fds[q][n].inode = dir'[p]
    BY <1>1, <1>3
  <2>2. dir'[p] = dir[p]
    BY <2>1, OnlyOld, NameStays
  <2>. QED BY <1>1, <1>2, <2>1, <2>2 DEF OnlyAtWork
<1>4. ASSUME AtWork(q, p)
      PROVE  fds'[q][fd'[q]].inode = dir'[p] /\ fds'[q][fd'[q]].flags = OpenFlags(Stmt(q))'
  <2>1. fd[q] \in DOMAIN fds[q] /\ fds[q][fd[q]].inode = dir[p]
    BY <1>4 DEF OnlyAtWork, AtWork, TypeInv, RankInv, AtStatement
  <2>2. dir'[p] = dir[p]
    BY <2>1, OnlyOld, NameStays
  <2>. QED BY <1>1, <1>2, <1>4, <2>2 DEF OnlyAtWork
<1>. QED BY <1>2, <1>3, <1>4 DEF OnlyAtWork

LEMMA OnlyAtWorkOwn ==
  ASSUME TypeInv, NEW p \in Paths, NEW r \in Ranks, QuietFor(r, p), Step(r), FileStep(r, p),
         ip[r] \in DOMAIN program.stmts[r], Stmt(r).path \in Paths, OnlyAtWork(r, p)
  PROVE  OnlyAtWork(r, p)'
<1>1. program' = program /\ Descriptors(r) /\ RankInv(r)' /\ OneName(p)'
  BY DEF Step, FileStep
<1>2. ASSUME pc'[r] # "begin"
      PROVE  ip'[r] = ip[r] /\ Stmt(r)' = Stmt(r) /\ (OneShot(r)' <=> OneShot(r)) /\ Op(r)' = Op(r)
  BY <1>1, <1>2 DEF Descriptors, Stmt, OneShot, Op
<1>3. ASSUME NEW n \in DOMAIN fds'[r], fds'[r][n].inode = dir'[p]
      PROVE  AtWork(r, p)' /\ n = fd'[r]
  <2>1. CASE Carried(r, n)
    <3>1. n \in DOMAIN fds[r] /\ fds[r][n].inode = dir'[p]
      BY <1>3, <2>1 DEF Carried
    <3>2. dir'[p] = dir[p]
      BY <3>1, OnlyOld, NameStays
    <3>3. AtWork(r, p) /\ n = fd[r]
      BY <3>1, <3>2 DEF OnlyAtWork
    <3>4. pc'[r] # "begin" /\ fd'[r] = fd[r]
      BY <2>1, <3>3 DEF Carried, AtWork
    <3>. QED BY <1>2, <3>3, <3>4 DEF AtWork
  <2>2. CASE Fresh(r, n)
    <3>1. dir'[Stmt(r).path] = dir'[p] /\ Op(r) \in OpenOps
      BY <1>3, <2>2 DEF Fresh
    <3>2. dir'[p] # None
      BY <1>1, <1>3 DEF RankInv, RefersToFiles, IsFile, Step, FileTypes, None
    <3>3. Stmt(r).path = p
      BY <1>1, <3>1, <3>2 DEF OneName
    <3>4. Op(r) \in {"append", "read"}
      BY <3>1, <3>3, QuietStmt DEF OpenOps, HandleOps
    <3>5. OneShot(r) /\ pc'[r] # "begin" /\ fd'[r] = n
      BY <2>2, <3>4 DEF Fresh, OneShot
    <3>. QED BY <1>2, <3>3, <3>5 DEF AtWork
  <2>. QED BY <1>1, <2>1, <2>2 DEF Descriptors
<1>4. ASSUME AtWork(r, p)'
      PROVE  fds'[r][fd'[r]].inode = dir'[p] /\ fds'[r][fd'[r]].flags = OpenFlags(Stmt(r))'
  <2>1. pc'[r] # "begin" /\ OneShot(r) /\ Stmt(r).path = p /\ Stmt(r)' = Stmt(r)
    BY <1>2, <1>4 DEF AtWork
  <2>2. CASE Fresh(r, fd'[r])
    BY <2>1, <2>2 DEF Fresh
  <2>3. CASE pc[r] # "begin" /\ fd'[r] = fd[r]
    <3>1. AtWork(r, p)
      BY <2>1, <2>3 DEF AtWork
    <3>2. fd[r] \in DOMAIN fds'[r]
      BY <1>1, <2>1, <2>3 DEF RankInv, AtStatement
    <3>3. Carried(r, fd[r])
      BY <1>1, <2>3, <3>2 DEF Descriptors, Fresh
    <3>4. fd[r] \in DOMAIN fds[r] /\ fds[r][fd[r]].inode = dir[p] /\ fds[r][fd[r]].flags = OpenFlags(Stmt(r))
      BY <3>1, <3>3 DEF OnlyAtWork, Carried
    <3>5. dir'[p] = dir[p]
      BY <3>4, OnlyOld, NameStays
    <3>. QED BY <2>1, <2>3, <3>3, <3>4, <3>5 DEF Carried
  <2>. QED BY <1>1, <2>1, <2>2, <2>3 DEF Descriptors
<1>. QED BY <1>3, <1>4 DEF OnlyAtWork

\* The bytes of the file, and what a step adds to them.
LEMMA FileData ==
  ASSUME TypeInv, NEW p \in Paths, dir[p] # None
  PROVE  dir[p] \in DOMAIN inodes /\ inodes[dir[p]].data \in Datas
<1>1. dir[p] \in DOMAIN inodes /\ inodes \in Seq(Inodes)
  BY DEF TypeInv, Types, FileTypes, None
<1>2. inodes[dir[p]] \in Inodes
  BY <1>1
<1>. QED BY <1>1, <1>2 DEF Inodes

LEMMA DataGrows ==
  ASSUME TypeInv, NEW p \in Paths, Whole(p), NEW r \in Ranks, FileStep(r, p), dir[p] # None
  PROVE  /\ dir'[p] = dir[p] /\ \E e \in Nat : DOMAIN inodes'[dir'[p]].data = 0 .. e - 1
         /\ \A b \in DOMAIN inodes[dir[p]].data :
              /\ b \in DOMAIN inodes'[dir'[p]].data
              /\ inodes'[dir'[p]].data[b] = inodes[dir[p]].data[b]
<1>1. PICK before : before = inodes[dir[p]].data
  OBVIOUS
<1>2. PICK after : after = inodes'[dir'[p]].data
  OBVIOUS
<1>3. PICK e \in Nat : DOMAIN before = 0 .. e - 1
  BY <1>1 DEF Whole
<1>4. before \in Datas
  BY <1>1, FileData
<1>5. CASE Untouched(p)
  BY <1>3, <1>1, <1>5 DEF Untouched
<1>6. CASE Appended(r, p)
  <2>1. PICK n \in Nat : after = Stored(r, before, Eof(before), n)
    BY <1>1, <1>2, <1>6 DEF Appended
  <2>2. Eof(before) = e
    BY <1>3, EofOfWhole
  <2>3. after = Stored(r, before, e, n)
    BY <2>1, <2>2
  <2>4. DOMAIN after = 0 .. (e + n) - 1 /\ \A b \in 0 .. e - 1 : after[b] = before[b]
    <3>1. /\ before \in Datas /\ e \in Nat /\ DOMAIN before = 0 .. e - 1
          /\ n \in Nat /\ after = Stored(r, before, e, n)
      BY <1>3, <1>4, <2>3
    <3>. QED BY ONLY <3>1, StoredAtEnd, r \in Ranks
  <2>5. e + n \in Nat /\ \A b \in DOMAIN before : b \in DOMAIN after /\ after[b] = before[b]
    BY <1>3, <2>4
  <2>6. dir'[p] = dir[p] /\ \E end \in Nat : DOMAIN after = 0 .. end - 1
    BY <1>6, <2>4, <2>5 DEF Appended
  <2>. QED BY <1>1, <1>2, <2>5, <2>6
<1>. QED BY <1>5, <1>6 DEF FileStep, Made

LEMMA WholeStep ==
  ASSUME TypeInv, NEW p \in Paths, Whole(p), NEW r \in Ranks, FileStep(r, p)
  PROVE  Whole(p)'
<1>1. CASE dir[p] # None
  <2>1. \E e \in Nat : DOMAIN inodes'[dir'[p]].data = 0 .. e - 1
    BY <1>1, DataGrows
  <2>. QED BY <2>1 DEF Whole
<1>2. CASE dir[p] = None /\ dir'[p] = dir[p]
  BY <1>2 DEF Whole
<1>3. CASE Made(r, p)
  <2>1. inodes'[dir'[p]].data = << >>
    BY <1>3 DEF Made
  <2>2. DOMAIN << >> = 0 .. 0 - 1
    OBVIOUS
  <2>. QED BY <2>1, <2>2 DEF Whole
<1>. QED BY <1>1, <1>2, <1>3 DEF FileStep, Untouched, Appended

\* What was there stays there.
LEMMA StillThere ==
  ASSUME TypeInv, NEW p \in Paths, Whole(p), NEW r \in Ranks, FileStep(r, p), program' = program,
         NEW q \in Ranks, NEW k, dir[p] # None, InOnePiece(inodes[dir[p]].data, q, k)
  PROVE  dir'[p] # None /\ InOnePiece(inodes[dir[p]].data, q, k)'
<1>1. PICK before : before = inodes[dir[p]].data
  OBVIOUS
<1>2. PICK after : after = inodes'[dir'[p]].data
  OBVIOUS
<1>3. /\ dir'[p] = dir[p] /\ \A b \in DOMAIN before : b \in DOMAIN after /\ after[b] = before[b]
  BY <1>1, <1>2, DataGrows
<1>4. PICK b \in DOMAIN before : \A v \in 0 .. program.stmts[q][k].amount - 1 :
        b + v \in DOMAIN before /\ before[b + v] = [writer |-> q, stmt |-> k, at |-> v]
  BY <1>1 DEF InOnePiece
<1>5. b \in DOMAIN after /\ \A v \in 0 .. program.stmts[q][k].amount - 1 :
        b + v \in DOMAIN after /\ after[b + v] = [writer |-> q, stmt |-> k, at |-> v]
  BY <1>3, <1>4
<1>. QED BY <1>2, <1>3, <1>5 DEF InOnePiece

\* The append that has just succeeded is there too.
LEMMA NowThere ==
  ASSUME TypeInv, NEW p \in Paths, Whole(p), NEW r \in Ranks, Appended(r, p), program' = program,
         pc[r] = "transfer", ip[r] \in DOMAIN program.stmts[r],
         NEW k, k = ip[r], result'[r][Len(result[r]) + 1].success
  PROVE  InOnePiece(inodes[dir[p]].data, r, k)'
<1>1. PICK before : before = inodes[dir[p]].data
  OBVIOUS
<1>2. PICK after : after = inodes'[dir'[p]].data
  OBVIOUS
<1>3. before \in Datas /\ dir[p] # None /\ Op(r) = "append" /\ OneShot(r)
  BY <1>1, FileData DEF Appended, AtWork
<1>4. PICK e \in Nat : DOMAIN before = 0 .. e - 1
  BY <1>1, <1>3 DEF Whole
<1>5. PICK n \in Nat : /\ after = Stored(r, before, Eof(before), n)
                       /\ \E bytes \in Seq(Bytes) : Return(r, n = lSize[r], bytes)
  BY <1>1, <1>2 DEF Appended
<1>6. Eof(before) = e
  BY <1>4, EofOfWhole
<1>7. after = Stored(r, before, e, n)
  BY <1>5, <1>6
<1>8. DOMAIN after = 0 .. (e + n) - 1 /\ \A v \in 0 .. n - 1 :
        e + v \in DOMAIN after /\ after[e + v] = [writer |-> r, stmt |-> ip[r], at |-> v]
  BY <1>3, <1>4, <1>7, StoredAtEnd
<1>9. n = lSize[r]
  <2>1. PICK bytes \in Seq(Bytes) : Return(r, n = lSize[r], bytes)
    BY <1>5
  <2>2. PICK success \in BOOLEAN : success = (n = lSize[r]) /\ Return(r, success, bytes)
    BY <2>1
  <2>3. PICK res : res = [success |-> success, read |-> bytes]
    OBVIOUS
  <2>4. res \in Results /\ res.success = success
    BY <2>3 DEF Results
  <2>5. result \in [Ranks -> Seq(Results)]
    BY DEF TypeInv, Types, RankTypes
  <2>6. result'[r] = Append(result[r], res) /\ result[r] \in Seq(Results)
    BY <2>2, <2>3, <2>5 DEF Return
  <2>7. result'[r][Len(result[r]) + 1] = res
    BY <2>4, <2>6
  <2>. QED BY <2>2, <2>4, <2>7
<1>10. lSize[r] > 0 /\ lSize[r] \in Nat /\ Stmt(r).amount = lSize[r]
  <2>1. lSize[r] > 0 /\ lSize[r] \in Nat /\ Stmt(r).amount \in {READALL, lSize[r]}
    BY DEF TypeInv, RankInv, AtStatement, Types, RankTypes
  <2>2. Stmt(r).amount = READALL => FALSE
    BY <1>3, ProgramsAssumption DEF Stmt, Op, TypeInv, Types
  <2>. QED BY <2>1, <2>2
<1>11. program.stmts[r][k].amount = n
  BY <1>9, <1>10 DEF Stmt
<1>12. e \in DOMAIN after
  BY <1>8, <1>9, <1>10
<1>. QED BY <1>2, <1>8, <1>11, <1>12 DEF InOnePiece

LEMMA AllThereStep ==
  ASSUME TypeInv, NEW p \in Paths, Whole(p), NEW r \in Ranks, Step(r), FileStep(r, p),
         ip[r] \in DOMAIN program.stmts[r], OnlyAtWork(r, p), NEW q \in Ranks, AllThere(q, p)
  PROVE  AllThere(q, p)'
<1>1. program' = program
  BY DEF Step
<1>2. ASSUME NEW k \in DOMAIN result[q], result'[q][k] = result[q][k], Appends(q, k, p)'
      PROVE  dir'[p] # None /\ InOnePiece(inodes[dir[p]].data, q, k)'
  <2>1. Appends(q, k, p)
    BY <1>1, <1>2 DEF Appends
  <2>2. dir[p] # None /\ InOnePiece(inodes[dir[p]].data, q, k)
    BY <2>1 DEF AllThere
  <2>. QED BY <1>1, <2>2, StillThere
<1>3. CASE result'[q] = result[q]
  BY <1>2, <1>3 DEF AllThere
<1>4. CASE q = r /\ \E res \in Results : /\ result'[r] = Append(result[r], res)
                                         /\ Op(r) = "append" /\ res.success => pc[r] = "transfer"
  <2>1. PICK res \in Results : /\ result'[r] = Append(result[r], res)
                               /\ Op(r) = "append" /\ res.success => pc[r] = "transfer"
    BY <1>4
  <2>2. result[r] \in Seq(Results) /\ ip[r] \in Nat /\ Len(result[r]) = ip[r] - 1
    BY DEF TypeInv, Types, RankTypes, RankInv
  <2>3. PICK last \in Nat : last = ip[r] /\ last = Len(result[r]) + 1
    BY <2>2
  <2>4. /\ DOMAIN result'[r] = DOMAIN result[r] \cup {last} /\ result'[r][last] = res
        /\ \A k \in DOMAIN result[r] : result'[r][k] = result[r][k]
    BY <2>1, <2>2, <2>3
  <2>5. ASSUME Appends(r, last, p)'
        PROVE  dir'[p] # None /\ InOnePiece(inodes[dir[p]].data, r, last)'
    <3>1. Op(r) = "append" /\ Stmt(r).path = p /\ res.success
      BY <1>1, <2>3, <2>4, <2>5 DEF Appends, Op, Stmt
    <3>2. pc[r] = "transfer" /\ AtWork(r, p)
      BY <2>1, <3>1 DEF AtWork, OneShot
    <3>3. Appended(r, p)
      BY <3>1, <3>2 DEF FileStep
    <3>4. InOnePiece(inodes[dir[p]].data, r, last)'
      BY <1>1, <2>3, <2>4, <3>1, <3>2, <3>3, NowThere
    <3>. QED BY <3>3, <3>4 DEF Appended
  <2>. QED BY <1>2, <1>4, <2>4, <2>5 DEF AllThere
<1>5. q # r => result'[q] = result[q]
  BY DEF Step, OnlyRank
<1>. QED BY <1>3, <1>4, <1>5 DEF Step, Outcome

AppendsInv == \A p \in Paths : Quiet(p) => AppendInv(p)

LEMMA AppendsInvInit ==
  ASSUME Init
  PROVE  AppendsInv
<1>1. ASSUME NEW p \in Paths
      PROVE  OneName(p) /\ Whole(p)
  BY <1>1 DEF Init, OneName, Whole
<1>2. ASSUME NEW p \in Paths, NEW r \in Ranks
      PROVE  OnlyAtWork(r, p) /\ AllThere(r, p)
  BY <1>2 DEF Init, OnlyAtWork, AtWork, AllThere
<1>. QED BY <1>1, <1>2 DEF AppendsInv, AppendInv

LEMMA AppendInvStep ==
  ASSUME TypeInv, NEW p \in Paths, Quiet(p), AppendInv(p), NEW r \in Ranks,
         ip[r] \in DOMAIN program.stmts[r], Step(r), FileStep(r, p)
  PROVE  AppendInv(p)'
<1>1. OneName(p)'
  BY DEF FileStep
<1>2. Whole(p)'
  BY WholeStep DEF AppendInv
<1>3. Stmt(r).path \in Paths
  <2>1. Stmt(r) \in Statements
    BY StmtTyped DEF TypeInv, Types
  <2>. QED BY <2>1 DEF Statements
<1>4. ASSUME NEW q \in Ranks
      PROVE  OnlyAtWork(q, p)' /\ AllThere(q, p)'
  <2>1. OnlyAtWork(q, p) /\ OnlyAtWork(r, p) /\ AllThere(q, p) /\ Whole(p)
    BY DEF AppendInv
  <2>2. OnlyAtWork(q, p)'
    <3>1. QuietFor(r, p)
      BY DEF Quiet
    <3>. QED BY <1>3, <2>1, <3>1, OnlyAtWorkOwn, OnlyAtWorkOthers
  <2>3. AllThere(q, p)'
    BY <2>1, AllThereStep
  <2>. QED BY <2>2, <2>3
<1>. QED BY <1>1, <1>2, <1>4 DEF AppendInv

LEMMA AppendsInvNext ==
  ASSUME TypeInv, AppendsInv, [Next]_vars
  PROVE  AppendsInv'
<1>1. CASE UNCHANGED vars
  <2>1. ASSUME NEW p \in Paths, Quiet(p)'
        PROVE  AppendInv(p)'
    <3>1. AppendInv(p)
      BY <1>1, <2>1 DEF AppendsInv, Quiet, QuietFor, vars
    <3>2. OneName(p)' /\ Whole(p)'
      BY <1>1, <3>1 DEF AppendInv, OneName, Whole, vars
    <3>3. ASSUME NEW r \in Ranks
          PROVE  OnlyAtWork(r, p)' /\ AllThere(r, p)'
      BY <1>1, <3>1 DEF AppendInv, OnlyAtWork, AtWork, OneShot, Op, Stmt, AllThere, Appends, InOnePiece, vars
    <3>. QED BY <3>2, <3>3 DEF AppendInv
  <2>. QED BY <2>1 DEF AppendsInv
<1>2. ASSUME NEW r \in Ranks,
             \/ OpenFile(r) \/ HandleError(r) \/ HandleTransfer(r) \/ Measure(r) \/ MeasureFails(r)
             \/ SeekOrSync(r) \/ FClose(r) \/ Transfer(r) \/ PathStatement(r)
      PROVE  AppendsInv'
  <2>1. Step(r) /\ ip[r] \in DOMAIN program.stmts[r]
    BY <1>2, RankStep, StepsGo
  <2>2. program' = program
    BY <2>1 DEF Step
  <2>3. ASSUME NEW p \in Paths, Quiet(p)'
        PROVE  AppendInv(p)'
    <3>1. Quiet(p)
      BY <2>2, <2>3 DEF Quiet, QuietFor
    <3>2. AppendInv(p)
      BY <3>1 DEF AppendsInv
    <3>3. FileStep(r, p)
      BY <1>2, <3>1, <3>2, FilesStep DEF AppendInv, Quiet
    <3>. QED BY <2>1, <3>1, <3>2, <3>3, AppendInvStep
  <2>. QED BY <2>3 DEF AppendsInv
<1>. QED BY <1>1, <1>2 DEF Next, Terminated

\* Appends of any number of ranks to one file that nobody truncates, renames or removes
\* never overwrite or mix with each other, however their opening and writing interleaves:
\* each one counted as successful is in the file in one piece, and it has no holes.
THEOREM AppendsStayWhole == Spec => []AppendsIntact
<1>1. Init => AppendsInv
  BY AppendsInvInit
<1>2. TypeInv /\ AppendsInv /\ [Next]_vars => AppendsInv'
  BY AppendsInvNext
<1>3. TypeInv /\ AppendsInv => AppendsIntact
  <2>1. ASSUME TypeInv, AppendsInv, NEW p \in Paths, dir[p] # None, Quiet(p)
        PROVE  /\ DOMAIN inodes[dir[p]].data = 0 .. Eof(inodes[dir[p]].data) - 1
               /\ \A r \in Ranks : \A k \in DOMAIN result[r] :
                    Appends(r, k, p) => InOnePiece(inodes[dir[p]].data, r, k)
    <3>1. AppendInv(p)
      BY <2>1 DEF AppendsInv
    <3>2. PICK data : data = inodes[dir[p]].data
      OBVIOUS
    <3>3. PICK e \in Nat : DOMAIN data = 0 .. e - 1
      BY <2>1, <3>1, <3>2 DEF AppendInv, Whole
    <3>4. Eof(data) = e
      BY <3>3, EofOfWhole
    <3>. QED BY <3>1, <3>2, <3>3, <3>4 DEF AppendInv, AllThere
  <2>. QED BY <2>1 DEF AppendsIntact, Quiet, QuietFor, Appends, InOnePiece
<1>. QED BY <1>1, <1>2, <1>3, TypeInvAlways, PTL DEF Spec

-------------------------------------------------------------------------------
(***************************************************************************)
(* A rank with a file of its own.  The invariant relates the file, the     *)
(* file pointer and the answers to the reference, also between the system  *)
(* calls of a statement: how much is to be transferred, and from where.    *)
(***************************************************************************)

Own(r) == program.stmts[r][1].path
\* What the rank's statements would find and return alone.
Reference(r) == Alone(r, program.stmts[r])
Before(r) == Reference(r)[ip[r] - 1]

\* A file's bytes are those of a sequence.
Holds(data, bytes) ==
  Eof(data) = Len(bytes) /\ \A b \in 0 .. Len(bytes) - 1 : ByteAt(data, b) = bytes[b + 1]

\* A write empties the file when it opens it.
Contents(r) == IF pc[r] # "begin" /\ Op(r) = "write" THEN << >> ELSE Before(r).data

OwnFile(r) ==
  /\ OneName(Own(r))
  /\ \A q \in Ranks \ {r} : \A n \in DOMAIN fds[q] : fds[q][n].inode # dir[Own(r)]
  /\ \A n \in DOMAIN fds[r] : fds[r][n].inode = dir[Own(r)]
  /\ dir[Own(r)] = None => ip[r] = 1 /\ pc[r] = "begin"
  /\ dir[Own(r)] # None => IsFile(dir[Own(r)]) /\ Holds(inodes[dir[Own(r)]].data, Contents(r))

Pointer(r) ==
  var[r] # None =>
    /\ fds[r][var[r]].flags \in {ModeFlags("r+"), ModeFlags("w+")}
    /\ pc[r] = "begin" \/ OneShot(r) => fds[r][var[r]].pos = Before(r).pos

Underway(r) ==
  /\ pc[r] # "begin" /\ OneShot(r) => fds[r][fd[r]].flags = OpenFlags(Stmt(r))
  /\ pc[r] = "transfer" => /\ lSize[r] = AmountOf(Stmt(r), Before(r))
                           /\ Op(r) # "append" => fds[r][fd[r]].pos = StartOf(Stmt(r), Before(r))

Answers(r) == \A k \in DOMAIN result[r] :
                result[r][k] = [success |-> Reference(r)[k].success, read |-> Reference(r)[k].read]

AloneInv(r) == OwnFile(r) /\ Pointer(r) /\ Underway(r) /\ Answers(r)
AllAlone == \A r \in Ranks : HasOwnFile(r) => AloneInv(r)

-------------------------------------------------------------------------------
(* The reference.                                                               *)

LEMMA PutKnown ==
  ASSUME NEW data \in Seq(Bytes), NEW at \in Nat, NEW bytes \in Seq(Bytes),
         NEW after, after = Put(data, at, bytes)
  PROVE  /\ after \in Seq(Bytes)
         /\ Len(after) = IF at + Len(bytes) > Len(data) THEN at + Len(bytes) ELSE Len(data)
         /\ \A i \in 1 .. Len(after) :
              after[i] = IF i \in at + 1 .. at + Len(bytes) THEN bytes[i - at]
                         ELSE IF i \in DOMAIN data THEN data[i] ELSE Hole
<1>1. PICK length : length = IF at + Len(bytes) > Len(data) THEN at + Len(bytes) ELSE Len(data)
  OBVIOUS
<1>2. length \in Nat
  BY <1>1
<1>3. Hole \in Bytes
  BY DEF Hole, Bytes, None
<1>4. after = [i \in 1 .. length |-> IF i \in at + 1 .. at + Len(bytes) THEN bytes[i - at]
                                     ELSE IF i \in DOMAIN data THEN data[i] ELSE Hole]
  BY <1>1 DEF Put
<1>5. ASSUME NEW i \in 1 .. length
      PROVE  /\ after[i] = IF i \in at + 1 .. at + Len(bytes) THEN bytes[i - at]
                           ELSE IF i \in DOMAIN data THEN data[i] ELSE Hole
             /\ after[i] \in Bytes
  <2>1. after[i] = IF i \in at + 1 .. at + Len(bytes) THEN bytes[i - at]
                   ELSE IF i \in DOMAIN data THEN data[i] ELSE Hole
    BY <1>4
  <2>2. i \in at + 1 .. at + Len(bytes) => i - at \in 1 .. Len(bytes)
    OBVIOUS
  <2>. QED BY <1>3, <2>1, <2>2
<1>6. DOMAIN after = 1 .. length
  BY <1>4
<1>7. after = [i \in 1 .. length |-> after[i]]
  BY <1>4
<1>8. after \in Seq(Bytes) /\ Len(after) = length
  <2>1. after \in [1 .. length -> Bytes]
    BY <1>5, <1>7
  <2>. QED BY <1>2, <2>1
<1>. QED BY <1>1, <1>5, <1>8

LEMMA PutAtEnd ==
  ASSUME NEW data \in Seq(Bytes), NEW bytes \in Seq(Bytes)
  PROVE  Put(data, Len(data), bytes) = data \o bytes
<1>1. PICK after : after = Put(data, Len(data), bytes)
  OBVIOUS
<1>2. PICK joined : joined = data \o bytes
  OBVIOUS
<1>3. /\ joined \in Seq(Bytes) /\ Len(joined) = Len(data) + Len(bytes)
      /\ \A i \in 1 .. Len(joined) : joined[i] = IF i <= Len(data) THEN data[i] ELSE bytes[i - Len(data)]
  BY <1>2
<1>4. Len(data) \in Nat /\ Len(bytes) \in Nat /\ DOMAIN data = 1 .. Len(data)
  OBVIOUS
<1>5. /\ after \in Seq(Bytes)
      /\ Len(after) = IF Len(data) + Len(bytes) > Len(data) THEN Len(data) + Len(bytes) ELSE Len(data)
      /\ \A i \in 1 .. Len(after) :
           after[i] = IF i \in Len(data) + 1 .. Len(data) + Len(bytes) THEN bytes[i - Len(data)]
                      ELSE IF i \in DOMAIN data THEN data[i] ELSE Hole
  BY <1>1, <1>4, PutKnown
<1>6. Len(after) = Len(joined)
  BY <1>3, <1>4, <1>5
<1>7. ASSUME NEW i \in 1 .. Len(joined)
      PROVE  after[i] = joined[i]
  <2>1. i \in Nat /\ i >= 1 /\ i <= Len(data) + Len(bytes)
    BY <1>3, <1>4
  <2>2. after[i] = IF i \in Len(data) + 1 .. Len(data) + Len(bytes) THEN bytes[i - Len(data)]
                   ELSE IF i \in DOMAIN data THEN data[i] ELSE Hole
    BY <1>5, <1>6
  <2>3. CASE i <= Len(data)
    <3>1. i \notin Len(data) + 1 .. Len(data) + Len(bytes) /\ i \in DOMAIN data
      BY <1>4, <2>1, <2>3
    <3>. QED BY <1>3, <2>2, <2>3, <3>1
  <2>4. CASE ~(i <= Len(data))
    <3>1. i \in Len(data) + 1 .. Len(data) + Len(bytes)
      BY <1>4, <2>1, <2>4
    <3>. QED BY <1>3, <2>2, <2>4, <3>1
  <2>. QED BY <2>3, <2>4
<1>8. after = [i \in 1 .. Len(joined) |-> after[i]] /\ joined = [i \in 1 .. Len(joined) |-> joined[i]]
  BY <1>3, <1>5, <1>6
<1>. QED BY <1>1, <1>2, <1>7, <1>8

LEMMA GetKnown ==
  ASSUME NEW data \in Seq(Bytes), NEW start \in Nat, NEW amount \in Nat,
         NEW got, got = Get(data, start, amount)
  PROVE  /\ got \in Seq(Bytes) /\ Len(got) \in 0 .. amount
         /\ Len(got) > 0 => start + Len(got) <= Len(data)
         /\ \A m \in 0 .. amount : (m > 0 => start + m <= Len(data)) => m <= Len(got)
         /\ \A i \in 1 .. Len(got) : got[i] = data[start + i]
<1>1. Len(data) \in Nat /\ DOMAIN data = 1 .. Len(data)
  OBVIOUS
<1>2. PICK there : there = {b \in 1 .. amount : start + b <= Len(data)}
  OBVIOUS
<1>3. PICK n \in 0 .. amount : /\ n > 0 => start + n <= Len(data)
                               /\ n < amount => start + n + 1 > Len(data)
  <2>1. CASE start + amount <= Len(data)
    BY <1>1, <2>1
  <2>2. CASE ~(start + amount <= Len(data)) /\ start <= Len(data)
    <3>1. Len(data) - start \in 0 .. amount
      BY <1>1, <2>2
    <3>2. PICK k \in 0 .. amount : k = Len(data) - start
      BY <3>1
    <3>3. start + k <= Len(data) /\ start + k + 1 > Len(data)
      BY <1>1, <3>2
    <3>. QED BY <3>3
  <2>3. CASE start > Len(data)
    <3>1. 0 \in 0 .. amount /\ ~(0 > 0) /\ start + 0 + 1 > Len(data)
      BY <1>1, <2>3
    <3>. QED BY <3>1
  <2>. QED BY <1>1, <2>1, <2>2, <2>3
<1>4. \A b \in 1 .. amount : start + b <= Len(data) <=> b <= n
  BY <1>1, <1>3
<1>5. there = 1 .. n
  BY <1>2, <1>3, <1>4
<1>6. Cardinality(there) = n
  <2>1. Cardinality(1 .. n) = IF 1 > n THEN 0 ELSE n - 1 + 1
    BY <1>3, FS_Interval
  <2>. QED BY <1>3, <1>5, <2>1
<1>7. got = [i \in 1 .. n |-> data[start + i]]
  BY <1>2, <1>6 DEF Get
<1>8. \A i \in 1 .. n : got[i] = data[start + i] /\ data[start + i] \in Bytes
  <2>1. \A i \in 1 .. n : start + i \in DOMAIN data
    BY <1>1, <1>3
  <2>2. \A i \in 1 .. n : data[start + i] \in Bytes
    BY <2>1
  <2>3. \A i \in 1 .. n : got[i] = data[start + i]
    BY <1>7
  <2>. QED BY <2>2, <2>3
<1>9. got \in Seq(Bytes) /\ Len(got) = n
  BY <1>3, <1>7, <1>8
<1>10. \A m \in 0 .. amount : (m > 0 => start + m <= Len(data)) => m <= n
  BY <1>3, <1>4
<1>. QED BY <1>3, <1>8, <1>9, <1>10

Refs == [data: Seq(Bytes), pos: Nat, success: BOOLEAN, read: Seq(Bytes)]

LEMMA OwnStmt ==
  ASSUME program \in Programs, NEW r \in Ranks, HasOwnFile(r), NEW k \in DOMAIN program.stmts[r],
         NEW s, s = program.stmts[r][k]
  PROVE  /\ s.path = Own(r) /\ Own(r) \in Paths /\ ~program.faulty
         /\ s.op \in {"write", "append", "read", "fopen", "lookup", "stat"} \cup HandleOps
         /\ s.amount \in Nat \/ (s.amount = READALL /\ s.op \in {"read", "fread"})
         /\ s.offset \in Nat \/ s.offset = OFFSET_CUR
         /\ s.op = "fopen" => s.mode \in {"w+", "r+"}
         /\ s.op = "fseek" => s.offset \in Nat
         /\ k = 1 => s.op = "write"
<1>1. /\ program.stmts[r] \in Seq(Statements) /\ s \in Statements
      /\ s.amount = READALL => s.op \in {"read", "fread"}
  BY ProgramsAssumption
<1>2. s.path \in Paths /\ s.amount \in Nat \cup {READALL} /\ s.offset \in Nat \cup {OFFSET_CUR}
  BY <1>1 DEF Statements
<1>3. /\ s.op \in {"write", "append", "read", "fopen", "lookup", "stat"} \cup HandleOps
      /\ s.path = program.stmts[r][1].path /\ ~program.faulty
      /\ s.op = "fopen" => s.mode \in {"w+", "r+"}
      /\ s.op = "fseek" => s.offset >= 0
      /\ program.stmts[r][1].op = "write"
  BY DEF HasOwnFile
<1>4. s.op = "fseek" => s.offset \in Nat
  BY <1>2, <1>3 DEF OFFSET_CUR
<1>. QED BY <1>1, <1>2, <1>3, <1>4 DEF Own

LEMMA WrittenKnown ==
  ASSUME NEW r \in Ranks, NEW k \in Nat, NEW n \in Nat, NEW bytes, bytes = Written(r, k, n)
  PROVE  /\ bytes \in Seq(Bytes) /\ Len(bytes) = n
         /\ \A i \in 1 .. n : bytes[i] = [writer |-> r, stmt |-> k, at |-> i - 1]
<1>1. bytes = [i \in 1 .. n |-> [writer |-> r, stmt |-> k, at |-> i - 1]]
  BY DEF Written
<1>2. \A i \in 1 .. n : [writer |-> r, stmt |-> k, at |-> i - 1] \in Bytes
  BY DEF Bytes
<1>3. bytes \in [1 .. n -> Bytes]
  BY <1>1, <1>2
<1>4. bytes \in Seq(Bytes) /\ Len(bytes) = n
  BY <1>3
<1>. QED BY <1>1, <1>4

LEMMA AmountTyped ==
  ASSUME program \in Programs, NEW r \in Ranks, HasOwnFile(r), NEW k \in DOMAIN program.stmts[r],
         NEW s, s = program.stmts[r][k], NEW old \in Refs
  PROVE  AmountOf(s, old) \in Nat /\ StartOf(s, old) \in Nat
<1>1. s.amount \in Nat \/ s.amount = READALL
  BY OwnStmt
<1>2. s.offset \in Nat \/ s.offset = OFFSET_CUR
  BY OwnStmt
<1>3. Len(old.data) \in Nat /\ old.pos \in Nat
  BY DEF Refs
<1>. QED BY <1>1, <1>2, <1>3 DEF AmountOf, StartOf

LEMMA AfterTyped ==
  ASSUME program \in Programs, NEW r \in Ranks, HasOwnFile(r), NEW k \in DOMAIN program.stmts[r],
         NEW s, s = program.stmts[r][k], NEW old \in Refs
  PROVE  AfterOne(r, k, s, old) \in Refs
<1>1. PICK amount \in Nat : amount = AmountOf(s, old)
  BY AmountTyped
<1>2. PICK start \in Nat : start = StartOf(s, old)
  BY AmountTyped
<1>3. PICK data \in Seq(Bytes) : data = old.data
  BY DEF Refs
<1>4. old.pos \in Nat
  BY DEF Refs
<1>5. << >> \in Seq(Bytes) /\ k \in Nat
  BY ProgramTyped
<1>6. \A d \in Seq(Bytes), n \in Nat, success \in BOOLEAN, read \in Seq(Bytes) :
        [data |-> d, pos |-> n, success |-> success, read |-> read] \in Refs
  BY DEF Refs
<1>7. (amount > 0) \in BOOLEAN
  OBVIOUS
<1>8. PICK bytes \in Seq(Bytes) : bytes = Written(r, k, amount)
  BY <1>5, WrittenKnown
<1>9. PICK got \in Seq(Bytes) : got = Get(data, start, amount)
  BY GetKnown
<1>10. CASE s.op \in {"write", "fwrite"}
  <2>1. PICK d : d = IF amount = 0 THEN IF s.op = "write" THEN << >> ELSE data
                     ELSE IF s.op = "write" THEN Put(<< >>, start, bytes) ELSE Put(data, start, bytes)
    OBVIOUS
  <2>2. PICK n : n = IF s.op = "write" THEN old.pos ELSE start + amount
    OBVIOUS
  <2>3. Put(<< >>, start, bytes) \in Seq(Bytes) /\ Put(data, start, bytes) \in Seq(Bytes)
    BY <1>5, PutKnown
  <2>4. d \in Seq(Bytes) /\ n \in Nat
    BY <1>4, <1>5, <2>1, <2>2, <2>3
  <2>5. AfterOne(r, k, s, old) = [data |-> d, pos |-> n, success |-> amount > 0, read |-> << >>]
    <3>1. CASE s.op = "write"
      BY <1>1, <1>2, <1>8, <2>1, <2>2, <3>1 DEF AfterOne
    <3>2. CASE s.op = "fwrite"
      BY <1>1, <1>2, <1>3, <1>8, <2>1, <2>2, <3>2 DEF AfterOne
    <3>. QED BY <1>10, <3>1, <3>2
  <2>. QED BY <1>5, <1>6, <1>7, <2>4, <2>5
<1>11. CASE s.op = "append"
  <2>1. AfterOne(r, k, s, old) =
          [data |-> data \o bytes, pos |-> old.pos, success |-> amount > 0, read |-> << >>]
    BY <1>1, <1>3, <1>8, <1>11 DEF AfterOne
  <2>2. data \o bytes \in Seq(Bytes)
    OBVIOUS
  <2>. QED BY <1>4, <1>5, <1>6, <1>7, <2>1, <2>2
<1>12. CASE s.op \in {"read", "fread"}
  <2>1. PICK n : n = IF s.op = "read" THEN old.pos ELSE start + Len(got)
    OBVIOUS
  <2>2. n \in Nat
    BY <1>4, <2>1
  <2>3. AfterOne(r, k, s, old) =
           [data |-> data, pos |-> n, success |-> amount > 0 /\ Len(got) = amount, read |-> got]
    <3>1. CASE s.op = "read"
      BY <1>1, <1>2, <1>3, <1>9, <2>1, <3>1 DEF AfterOne
    <3>2. CASE s.op = "fread"
      BY <1>1, <1>2, <1>3, <1>9, <2>1, <3>2 DEF AfterOne
    <3>. QED BY <1>12, <3>1, <3>2
  <2>4. (amount > 0 /\ Len(got) = amount) \in BOOLEAN
    OBVIOUS
  <2>. QED BY <1>6, <2>2, <2>3, <2>4
<1>13. CASE s.op \notin {"write", "append", "fwrite", "read", "fread"}
  <2>1. s.op = "fseek" => s.offset \in Nat
    BY OwnStmt
  <2>2. PICK d \in Seq(Bytes) : d = IF s.op = "fopen" /\ s.mode = "w+" THEN << >> ELSE data
    BY <1>5
  <2>3. PICK n \in Nat : n = IF s.op = "fopen" THEN 0 ELSE IF s.op = "fseek" THEN s.offset ELSE old.pos
    BY <1>4, <2>1
  <2>4. AfterOne(r, k, s, old) = [data |-> d, pos |-> n, success |-> TRUE, read |-> << >>]
    <3>1. CASE s.op = "fopen"
      BY <1>3, <2>2, <2>3, <3>1 DEF AfterOne
    <3>2. CASE s.op = "fseek"
      BY <1>3, <2>2, <2>3, <3>2 DEF AfterOne
    <3>3. CASE s.op \notin {"fopen", "fseek"}
      BY <1>3, <1>13, <2>2, <2>3, <3>3 DEF AfterOne
    <3>. QED BY <3>1, <3>2, <3>3
  <2>. QED BY <1>5, <1>6, <2>4
<1>. QED BY <1>10, <1>11, <1>12, <1>13

\* The reference is a function that obeys the recursion.
IsAlone(r, stmts, n, f) ==
  f = [k \in 0 .. n |-> IF k = 0 THEN AtFirst ELSE AfterOne(r, k, stmts[k], f[k - 1])]

LEMMA AloneExists ==
  ASSUME NEW r, NEW stmts, NEW N \in Nat
  PROVE  \E f : IsAlone(r, stmts, N, f)
<1>. DEFINE D == {n \in 0 .. N : ~\E f : IsAlone(r, stmts, n, f)}
<1>1. D = {}
  <2>1. SUFFICES ASSUME D # {} PROVE FALSE
    OBVIOUS
  <2>2. PICK m \in D : \A k \in D : m <= k
    <3>1. D \in SUBSET Nat
      OBVIOUS
    <3>. HIDE DEF D
    <3>. QED BY <2>1, <3>1, LeastNatural
  <2>3. m # 0
    <3>1. PICK f : f = [k \in 0 .. 0 |-> AtFirst]
      OBVIOUS
    <3>2. f = [k \in 0 .. 0 |-> IF k = 0 THEN AtFirst ELSE AfterOne(r, k, stmts[k], f[k - 1])]
      BY <3>1
    <3>. QED BY <3>2 DEF IsAlone
  <2>4. m \in Nat /\ m - 1 \in 0 .. N /\ m - 1 \notin D
    <3>1. m \in Nat /\ m - 1 \in 0 .. N
      BY <2>2, <2>3
    <3>2. ~(m <= m - 1)
      BY <3>1
    <3>. HIDE DEF D
    <3>. QED BY <2>2, <3>1, <3>2
  <2>5. PICK f : IsAlone(r, stmts, m - 1, f)
    BY <2>4
  <2>6. PICK g : g = [k \in 0 .. m |-> IF k = m THEN AfterOne(r, m, stmts[m], f[m - 1]) ELSE f[k]]
    OBVIOUS
  <2>7. \A k \in 0 .. m - 1 : f[k] = IF k = 0 THEN AtFirst ELSE AfterOne(r, k, stmts[k], f[k - 1])
    BY <2>5 DEF IsAlone
  <2>8. \A k \in 0 .. m - 1 : g[k] = f[k]
    BY <2>4, <2>6
  <2>9. ASSUME NEW k \in 0 .. m
        PROVE  g[k] = IF k = 0 THEN AtFirst ELSE AfterOne(r, k, stmts[k], g[k - 1])
    <3>1. CASE k = m
      <4>1. g[k] = AfterOne(r, m, stmts[m], f[m - 1]) /\ m - 1 \in 0 .. m - 1
        BY <2>4, <2>6, <3>1
      <4>2. g[m - 1] = f[m - 1]
        BY <2>8, <4>1
      <4>. QED BY <2>3, <3>1, <4>1, <4>2
    <3>2. CASE k # m /\ k # 0
      <4>1. k \in 0 .. m - 1 /\ k - 1 \in 0 .. m - 1
        BY <2>4, <3>2
      <4>2. g[k] = f[k] /\ g[k - 1] = f[k - 1]
        BY <2>8, <4>1
      <4>. QED BY <2>7, <3>2, <4>1, <4>2
    <3>3. CASE k = 0
      <4>1. k \in 0 .. m - 1
        BY <2>3, <2>4, <3>3
      <4>. QED BY <2>7, <2>8, <3>3, <4>1
    <3>. QED BY <3>1, <3>2, <3>3
  <2>10. DOMAIN g = 0 .. m /\ g = [k \in 0 .. m |-> g[k]]
    BY <2>6
  <2>11. IsAlone(r, stmts, m, g)
    BY <2>9, <2>10 DEF IsAlone
  <2>. QED BY <2>2, <2>11
<1>2. N \notin D
  BY <1>1
<1>. QED BY <1>2

\* The reference's recursion.
LEMMA AloneKnown ==
  ASSUME NEW r, NEW stmts, Len(stmts) \in Nat, NEW k \in 0 .. Len(stmts)
  PROVE  Alone(r, stmts)[k] = IF k = 0 THEN AtFirst ELSE AfterOne(r, k, stmts[k], Alone(r, stmts)[k - 1])
<1>1. \E f : IsAlone(r, stmts, Len(stmts), f)
  BY AloneExists
<1>2. PICK f : f = CHOOSE g : IsAlone(r, stmts, Len(stmts), g)
  OBVIOUS
<1>3. IsAlone(r, stmts, Len(stmts), f)
  BY <1>1, <1>2
<1>4. Alone(r, stmts) = f
  BY <1>2 DEF Alone, IsAlone
<1>. QED BY <1>3, <1>4 DEF IsAlone

LEMMA AloneTyped ==
  ASSUME program \in Programs, NEW r \in Ranks, HasOwnFile(r)
  PROVE  \A k \in 0 .. Len(program.stmts[r]) : Reference(r)[k] \in Refs
<1>. DEFINE N == Len(program.stmts[r])
            D == {k \in 0 .. N : Reference(r)[k] \notin Refs}
<1>1. N \in Nat /\ DOMAIN program.stmts[r] = 1 .. N
  BY ProgramTyped
<1>2. D = {}
  <2>1. SUFFICES ASSUME D # {} PROVE FALSE
    OBVIOUS
  <2>2. PICK m \in D : \A k \in D : m <= k
    <3>1. D \in SUBSET Nat
      BY <1>1
    <3>. HIDE DEF D
    <3>. QED BY <2>1, <3>1, LeastNatural
  <2>3. Reference(r)[m] = IF m = 0 THEN AtFirst ELSE AfterOne(r, m, program.stmts[r][m], Reference(r)[m - 1])
    BY <1>1, <2>2, AloneKnown DEF Reference
  <2>4. AtFirst \in Refs
    BY DEF AtFirst, Refs
  <2>5. CASE m # 0
    <3>1. m \in DOMAIN program.stmts[r] /\ m - 1 \in 0 .. N /\ m - 1 \notin D
      BY <1>1, <2>2, <2>5
    <3>2. PICK old \in Refs : old = Reference(r)[m - 1]
      BY <3>1
    <3>3. AfterOne(r, m, program.stmts[r][m], old) \in Refs
      BY <3>1, AfterTyped
    <3>. QED BY <2>2, <2>3, <2>5, <3>2, <3>3
  <2>. QED BY <2>2, <2>3, <2>4, <2>5
<1>. QED BY <1>2

-------------------------------------------------------------------------------
(* Files and sequences.                                                         *)

LEMMA EofLast ==
  ASSUME NEW data \in Datas
  PROVE  (DOMAIN data = {} /\ Eof(data) = 0) \/ Eof(data) - 1 \in DOMAIN data
<1>1. CASE DOMAIN data = {}
  BY <1>1 DEF Eof
<1>2. CASE DOMAIN data # {}
  <2>1. PICK last : last = CHOOSE b \in DOMAIN data : \A c \in DOMAIN data : c <= b
    OBVIOUS
  <2>2. DOMAIN data \in SUBSET Nat /\ \E top \in Nat : \A b \in DOMAIN data : b <= top
    BY DataKnown
  <2>3. \E b \in DOMAIN data : \A c \in DOMAIN data : c <= b
    BY <1>2, <2>2, GreatestNatural
  <2>4. last \in DOMAIN data
    BY <2>1, <2>3
  <2>5. Eof(data) = 1 + last
    BY <1>2, <2>1 DEF Eof
  <2>. QED BY <2>2, <2>4, <2>5
<1>. QED BY <1>1, <1>2

LEMMA EofIs ==
  ASSUME NEW data \in Datas, NEW e \in Nat, e - 1 \in DOMAIN data, \A b \in DOMAIN data : b < e
  PROVE  Eof(data) = e
<1>1. Eof(data) \in Nat /\ \A b \in DOMAIN data : b < Eof(data)
  BY DataKnown
<1>2. Eof(data) - 1 \in DOMAIN data
  BY EofLast
<1>. QED BY <1>1, <1>2

LEMMA HoldsNothing == Holds(<< >>, << >>)
<1>1. Eof(<< >>) = 0
  BY DEF Eof
<1>. QED BY <1>1 DEF Holds

LEMMA HoldsStored ==
  ASSUME NEW r \in Ranks, ip[r] \in Nat, NEW data \in Datas, NEW seq \in Seq(Bytes), Holds(data, seq),
         NEW at \in Nat, NEW n \in Nat, n > 0, NEW bytes \in Seq(Bytes), Len(bytes) = n,
         \A i \in 1 .. n : bytes[i] = [writer |-> r, stmt |-> ip[r], at |-> i - 1],
         NEW stored, stored = Stored(r, data, at, n), NEW after, after = Put(seq, at, bytes)
  PROVE  Holds(stored, after)
<1>1. Len(seq) \in Nat /\ DOMAIN seq = 1 .. Len(seq)
  OBVIOUS
<1>2. Len(after) = IF at + n > Len(seq) THEN at + n ELSE Len(seq)
  BY PutKnown
<1>3. \A i \in 1 .. Len(after) : after[i] = IF i \in at + 1 .. at + n THEN bytes[i - at]
                                            ELSE IF i \in DOMAIN seq THEN seq[i] ELSE Hole
  BY PutKnown
<1>4. /\ DOMAIN stored = DOMAIN data \cup at .. at + n - 1
      /\ \A b \in DOMAIN stored :
           stored[b] = IF b \in at .. at + n - 1 THEN [writer |-> r, stmt |-> ip[r], at |-> b - at]
                       ELSE data[b]
  BY DEF Stored
<1>5. stored \in Datas
  BY StoredData
<1>6. DOMAIN data \in SUBSET Nat /\ Eof(data) = Len(seq) /\ \A b \in DOMAIN data : b < Len(seq)
  BY DataKnown DEF Holds
<1>7. PICK e \in Nat : e = Len(after)
  <2>1. after \in Seq(Bytes)
    BY PutKnown
  <2>. QED BY <2>1
<1>8. Eof(stored) = e
  <2>1. ASSUME NEW b \in DOMAIN stored
        PROVE  b < e
    <3>1. Len(seq) <= e /\ at + n <= e
      BY <1>1, <1>2, <1>7
    <3>2. CASE b \in DOMAIN data
      BY <1>1, <1>6, <1>7, <3>1, <3>2
    <3>3. CASE b \in at .. at + n - 1
      BY <1>7, <3>1, <3>3
    <3>. QED BY <1>4, <3>2, <3>3
  <2>2. e - 1 \in DOMAIN stored
    <3>1. CASE at + n > Len(seq)
      <4>1. e - 1 = at + n - 1 /\ at + n - 1 \in at .. at + n - 1
        BY <1>2, <1>7, <3>1
      <4>. QED BY <1>4, <4>1
    <3>2. CASE ~(at + n > Len(seq))
      <4>1. e = Len(seq) /\ Len(seq) > 0
        BY <1>1, <1>2, <1>7, <3>2
      <4>2. Eof(data) - 1 \in DOMAIN data
        BY <1>6, <4>1, EofLast
      <4>. QED BY <1>4, <1>6, <4>1, <4>2
    <3>. QED BY <3>1, <3>2
  <2>. QED BY <1>5, <2>1, <2>2, EofIs
<1>9. ASSUME NEW b \in 0 .. e - 1
      PROVE  ByteAt(stored, b) = after[b + 1]
  <2>1. PICK i \in 1 .. Len(after) : i = b + 1
    BY <1>7
  <2>2. b \in Nat /\ i \in Nat
    BY <1>7
  <2>3. after[i] = IF i \in at + 1 .. at + n THEN bytes[i - at]
                   ELSE IF i \in DOMAIN seq THEN seq[i] ELSE Hole
    BY <1>3
  <2>4. CASE b \in at .. at + n - 1
    <3>1. b \in DOMAIN stored /\ stored[b] = [writer |-> r, stmt |-> ip[r], at |-> b - at]
      BY <1>4, <2>4
    <3>2. i \in at + 1 .. at + n /\ i - at \in 1 .. n /\ (i - at) - 1 = b - at
      BY <2>1, <2>2, <2>4
    <3>3. bytes[i - at] = [writer |-> r, stmt |-> ip[r], at |-> b - at]
      BY <3>2
    <3>. QED BY <2>1, <2>3, <3>1, <3>2, <3>3 DEF ByteAt
  <2>5. CASE b \notin at .. at + n - 1
    <3>1. i \notin at + 1 .. at + n
      BY <2>1, <2>2, <2>5
    <3>2. after[i] = IF i \in DOMAIN seq THEN seq[i] ELSE Hole
      BY <2>3, <3>1
    <3>3. ByteAt(stored, b) = ByteAt(data, b)
      BY <1>4, <2>5 DEF ByteAt
    <3>4. CASE i \in DOMAIN seq
      <4>1. b \in 0 .. Len(seq) - 1
        BY <1>1, <2>1, <2>2, <3>4
      <4>2. ByteAt(data, b) = seq[i]
        BY <2>1, <4>1 DEF Holds
      <4>. QED BY <2>1, <3>2, <3>3, <3>4, <4>2
    <3>5. CASE i \notin DOMAIN seq
      <4>1. b \notin DOMAIN data
        BY <1>1, <1>6, <2>1, <2>2, <3>5
      <4>. QED BY <2>1, <3>2, <3>3, <3>5, <4>1 DEF ByteAt
    <3>. QED BY <3>4, <3>5
  <2>. QED BY <2>4, <2>5
<1>. QED BY <1>7, <1>8, <1>9 DEF Holds

-------------------------------------------------------------------------------
(* A statement of the rank, against the reference.                               *)

LEMMA OwnKnown ==
  ASSUME TypeInv, NEW r \in Ranks, HasOwnFile(r), ip[r] \in DOMAIN program.stmts[r]
  PROVE  /\ Before(r) \in Refs
         /\ Reference(r)[ip[r]] = AfterOne(r, ip[r], Stmt(r), Before(r))
         /\ AmountOf(Stmt(r), Before(r)) \in Nat /\ StartOf(Stmt(r), Before(r)) \in Nat
         /\ ip[r] \in Nat /\ Own(r) \in Paths /\ Stmt(r).path = Own(r) /\ ~program.faulty
         /\ var[r] # None => var[r] \in Kept(r)
<1>1. program \in Programs
  BY DEF TypeInv, Types
<1>2. Len(program.stmts[r]) \in Nat /\ DOMAIN program.stmts[r] = 1 .. Len(program.stmts[r])
  BY <1>1, ProgramTyped
<1>3. PICK k \in DOMAIN program.stmts[r] : k = ip[r]
  OBVIOUS
<1>4. k \in 0 .. Len(program.stmts[r]) /\ k - 1 \in 0 .. Len(program.stmts[r]) /\ k # 0 /\ k \in Nat
  BY <1>2
<1>5. Before(r) \in Refs
  BY <1>1, <1>3, <1>4, AloneTyped DEF Before
<1>6. Stmt(r) = program.stmts[r][k]
  BY <1>3 DEF Stmt
<1>7. Reference(r)[k] = AfterOne(r, k, Stmt(r), Before(r))
  <2>1. Alone(r, program.stmts[r])[k] =
          IF k = 0 THEN AtFirst
          ELSE AfterOne(r, k, program.stmts[r][k], Alone(r, program.stmts[r])[k - 1])
    BY <1>2, <1>4, AloneKnown
  <2>. QED BY <1>3, <1>4, <1>6, <2>1 DEF Reference, Before
<1>8. AmountOf(Stmt(r), Before(r)) \in Nat /\ StartOf(Stmt(r), Before(r)) \in Nat
  BY <1>1, <1>5, <1>6, AmountTyped
<1>9. Own(r) \in Paths /\ Stmt(r).path = Own(r) /\ ~program.faulty
  BY <1>1, <1>6, OwnStmt
<1>10. var[r] # None => var[r] \in Kept(r)
  BY <1>9 DEF TypeInv, RankInv
<1>. QED BY <1>3, <1>4, <1>5, <1>7, <1>8, <1>9, <1>10

\* The statement returns what it would alone.
LEMMA Over ==
  ASSUME TypeInv, NEW r \in Ranks, HasOwnFile(r), Answers(r), ip[r] \in DOMAIN program.stmts[r],
         program' = program, NEW success \in BOOLEAN, NEW bytes, Return(r, success, bytes),
         NEW d, NEW n, AfterOne(r, ip[r], Stmt(r), Before(r)) =
                         [data |-> d, pos |-> n, success |-> success, read |-> bytes]
  PROVE  /\ Answers(r)' /\ Underway(r)' /\ pc'[r] = "begin"
         /\ Contents(r)' = d /\ Before(r)'.pos = n
<1>1. PICK k \in Nat : k = ip[r]
  BY OwnKnown
<1>2. Reference(r)[k] = [data |-> d, pos |-> n, success |-> success, read |-> bytes]
  BY <1>1, OwnKnown
<1>3. Reference(r)' = Reference(r)
  BY DEF Reference
<1>4. ip'[r] = k + 1 /\ pc'[r] = "begin"
  BY <1>1 DEF Return, TypeInv, Types, RankTypes
<1>5. Before(r)' = Reference(r)[k]
  <2>1. (k + 1) - 1 = k
    OBVIOUS
  <2>. QED BY <1>3, <1>4, <2>1 DEF Before
<1>6. PICK res : res = [success |-> success, read |-> bytes]
  OBVIOUS
<1>7. PICK old : old = result[r]
  OBVIOUS
<1>8. result'[r] = Append(old, res) /\ Len(old) = k - 1 /\ old \in Seq(Results)
  BY <1>1, <1>6, <1>7 DEF Return, TypeInv, Types, RankTypes, RankInv
<1>9. ASSUME NEW j \in DOMAIN result'[r]
      PROVE  result'[r][j] = [success |-> Reference(r)[j].success, read |-> Reference(r)[j].read]
  <2>1. j \in 1 .. Len(old) + 1
    BY <1>8, <1>9
  <2>2. CASE j \in DOMAIN old
    <3>1. Append(old, res)[j] = old[j]
      BY <1>8, <2>2
    <3>. QED BY <1>7, <1>8, <2>2, <3>1 DEF Answers
  <2>3. CASE j = k
    <3>1. Append(old, res)[k] = res
      BY <1>8
    <3>2. Reference(r)[k].success = success /\ Reference(r)[k].read = bytes
      BY <1>2
    <3>. QED BY <1>6, <1>8, <2>3, <3>1, <3>2
  <2>. QED BY <1>8, <2>1, <2>2, <2>3
<1>10. Answers(r)'
  BY <1>3, <1>9 DEF Answers
<1>11. Underway(r)'
  BY <1>4 DEF Underway
<1>12. Contents(r)' = d /\ Before(r)'.pos = n
  BY <1>2, <1>4, <1>5 DEF Contents
<1>. QED BY <1>4, <1>10, <1>11, <1>12

LEMMA NoBytes ==
  ASSUME NEW r \in Ranks, NEW k \in Nat, NEW data \in Seq(Bytes), NEW start \in Nat
  PROVE  data \o Written(r, k, 0) = data /\ Get(data, start, 0) = << >>
<1>1. \A seq \in Seq(Bytes) : Len(seq) = 0 => seq = << >>
  OBVIOUS
<1>2. Written(r, k, 0) = << >>
  <2>1. PICK bytes \in Seq(Bytes) : bytes = Written(r, k, 0) /\ Len(bytes) = 0
    BY WrittenKnown
  <2>. QED BY <1>1, <2>1
<1>3. Get(data, start, 0) = << >>
  <2>1. PICK got \in Seq(Bytes) : got = Get(data, start, 0) /\ Len(got) \in 0 .. 0
    BY GetKnown
  <2>. QED BY <1>1, <2>1
<1>4. data \o << >> = data
  OBVIOUS
<1>. QED BY <1>2, <1>3, <1>4

\* What follows a seek, for each descriptor.
LEMMA SoughtAt ==
  ASSUME NEW open, IsTable(open), NEW f \in DOMAIN open, NEW pos \in Nat
  PROVE  /\ Sought(open, f, pos)[f].pos = pos
         /\ \A m \in DOMAIN open : m # f => Sought(open, f, pos)[m] = open[m]
<1>1. open[f] \in Files
  BY DEF IsTable
<1>2. Sought(open, f, pos)[f] = [open[f] EXCEPT !.pos = pos]
  BY DEF Sought
<1>3. Sought(open, f, pos)[f].pos = pos
  BY <1>1, <1>2 DEF Files
<1>4. \A m \in DOMAIN open : m # f => Sought(open, f, pos)[m] = open[m]
  BY DEF Sought
<1>. QED BY <1>3, <1>4

\* With as many bytes and from where the statement is to transfer, it goes on, or ends.
LEMMA Ready ==
  ASSUME TypeInv, NEW r \in Ranks, HasOwnFile(r), Answers(r), ip[r] \in DOMAIN program.stmts[r],
         program' = program, var' = var, Op(r) \in {"write", "append", "read", "fwrite", "fread"},
         NEW n, n = AmountOf(Stmt(r), Before(r)),
         NEW open, IsTable(open), NEW f \in DOMAIN open, Prepare(r, n, f, open),
         \/ Op(r) = "append" \/ Stmt(r).offset # OFFSET_CUR
         \/ open[f].pos = StartOf(Stmt(r), Before(r)),
         OneShot(r) => open[f].flags = OpenFlags(Stmt(r)),
         ~OneShot(r) => f = var[r],
         var[r] # None => /\ var[r] \in DOMAIN open
                          /\ open[var[r]].flags \in {ModeFlags("r+"), ModeFlags("w+")}
                          /\ OneShot(r) => var[r] # f /\ open[var[r]].pos = Before(r).pos
  PROVE  /\ Answers(r)' /\ Underway(r)' /\ Pointer(r)'
         /\ Contents(r)' = IF Op(r) = "write" THEN << >> ELSE Before(r).data
<1>1. PICK old \in Refs : old = Before(r)
  BY OwnKnown
<1>2. PICK s : s = Stmt(r)
  OBVIOUS
<1>3. PICK start \in Nat : start = StartOf(s, old)
  BY <1>1, <1>2, OwnKnown
<1>4. n \in Nat /\ ip[r] \in Nat /\ old.data \in Seq(Bytes) /\ old.pos \in Nat
  BY <1>1, OwnKnown DEF Refs
<1>5. s.op = Op(r) /\ (s.offset \in Nat \/ s.offset = OFFSET_CUR)
  <2>1. program \in Programs
    BY DEF TypeInv, Types
  <2>2. s \in Statements
    BY <1>2, <2>1, StmtTyped
  <2>. QED BY <1>2, <2>2 DEF Statements, Op
<1>6. PICK placed : placed = IF s.offset >= 0 /\ Op(r) # "append" THEN Sought(open, f, s.offset) ELSE open
  OBVIOUS
<1>7. Placed(r, f, open) = placed /\ ~program.faulty
  BY <1>2, <1>6 DEF Placed, Seeks, HasOwnFile
<1>8. /\ DOMAIN placed = DOMAIN open /\ IsTable(placed)
      /\ Op(r) # "append" => placed[f].pos = start
      /\ placed[f].flags = open[f].flags
      /\ \A m \in DOMAIN open : m # f => placed[m] = open[m]
  <2>1. CASE s.offset \in Nat /\ Op(r) # "append"
    <3>1. PICK pos \in Nat : pos = s.offset
      BY <2>1
    <3>2. placed = Sought(open, f, pos)
      BY <1>6, <2>1, <3>1
    <3>3. /\ DOMAIN placed = DOMAIN open /\ IsTable(placed) /\ placed[f].flags = open[f].flags
          /\ placed[f].pos = pos /\ \A m \in DOMAIN open : m # f => placed[m] = open[m]
      BY <3>2, SoughtTable, SoughtAt
    <3>4. start = pos
      BY <1>3, <3>1 DEF StartOf, OFFSET_CUR
    <3>. QED BY <3>3, <3>4
  <2>2. CASE s.offset = OFFSET_CUR \/ Op(r) = "append"
    <3>1. placed = open
      BY <1>6, <2>2 DEF OFFSET_CUR
    <3>. QED BY <1>1, <1>2, <1>3, <2>2, <3>1
  <2>. QED BY <1>5, <2>1, <2>2
<1>9. /\ DOMAIN fds = Ranks /\ DOMAIN pc = Ranks /\ DOMAIN fd = Ranks /\ DOMAIN lSize = Ranks
  BY DEF TypeInv, Types, RankTypes
<1>10. CASE n = 0
  <2>1. /\ Return(r, FALSE, << >>)
        /\ fds' = [fds EXCEPT ![r] = IF OneShot(r) THEN Without(placed, f) ELSE placed]
    BY <1>7, <1>10 DEF Prepare, GiveUp
  <2>2. PICK d : d = IF Op(r) = "write" THEN << >> ELSE old.data
    OBVIOUS
  <2>3. PICK m \in Nat : m = IF OneShot(r) THEN old.pos ELSE start
    BY <1>4
  <2>4. AmountOf(s, old) = 0 /\ (0 > 0) = FALSE /\ start + 0 = start
    BY <1>1, <1>2, <1>10
  <2>5. old.data \o Written(r, ip[r], 0) = old.data /\ Get(old.data, start, 0) = << >>
    <3>1. PICK k \in Nat, data \in Seq(Bytes) : k = ip[r] /\ data = old.data
      BY <1>4
    <3>2. data \o Written(r, k, 0) = data /\ Get(data, start, 0) = << >>
      BY NoBytes
    <3>. QED BY <3>1, <3>2
  <2>6. Len(<< >>) = 0
    OBVIOUS
  <2>7. AfterOne(r, ip[r], s, old) = [data |-> d, pos |-> m, success |-> FALSE, read |-> << >>]
    <3>1. CASE s.op = "write"
      BY <1>5, <2>2, <2>3, <2>4, <3>1 DEF AfterOne, OneShot
    <3>2. CASE s.op = "append"
      BY <1>5, <2>2, <2>3, <2>4, <2>5, <3>2 DEF AfterOne, OneShot
    <3>3. CASE s.op = "read"
      BY <1>3, <1>5, <2>2, <2>3, <2>4, <2>5, <3>3 DEF AfterOne, OneShot
    <3>4. CASE s.op = "fwrite"
      BY <1>3, <1>5, <2>2, <2>3, <2>4, <3>4 DEF AfterOne, OneShot
    <3>5. CASE s.op = "fread"
      BY <1>3, <1>5, <2>2, <2>3, <2>4, <2>5, <2>6, <3>5 DEF AfterOne, OneShot
    <3>. QED BY <1>5, <3>1, <3>2, <3>3, <3>4, <3>5
  <2>8. Answers(r)' /\ Underway(r)' /\ pc'[r] = "begin" /\ Contents(r)' = d /\ Before(r)'.pos = m
    <3>1. PICK no \in BOOLEAN : no = FALSE
      OBVIOUS
    <3>2. PICK bytes : bytes = << >>
      OBVIOUS
    <3>3. AfterOne(r, ip[r], Stmt(r), Before(r)) = [data |-> d, pos |-> m, success |-> no, read |-> bytes]
      BY <1>1, <1>2, <2>7, <3>1, <3>2
    <3>4. Return(r, no, bytes)
      BY <2>1, <3>1, <3>2
    <3>. QED BY <3>3, <3>4, Over
  <2>9. Pointer(r)'
    <3>1. SUFFICES ASSUME var[r] # None
                   PROVE  /\ fds'[r][var[r]].flags \in {ModeFlags("r+"), ModeFlags("w+")}
                          /\ fds'[r][var[r]].pos = m
      BY <2>8 DEF Pointer
    <3>2. CASE OneShot(r)
      <4>1. Without(placed, f)[var[r]] = placed[var[r]]
        <5>1. \A v \in DOMAIN placed : v # f => Without(placed, f)[v] = placed[v]
          BY <1>8, WithoutTable
        <5>. QED BY <1>8, <3>1, <3>2, <5>1
      <4>2. fds'[r][var[r]] = open[var[r]]
        BY <1>8, <1>9, <2>1, <3>1, <3>2, <4>1
      <4>. QED BY <1>1, <2>3, <3>1, <3>2, <4>2
    <3>3. CASE ~OneShot(r)
      <4>1. fds'[r] = placed /\ var[r] = f /\ Op(r) # "append"
        BY <1>9, <2>1, <3>3 DEF OneShot
      <4>. QED BY <1>8, <2>3, <3>1, <3>3, <4>1
    <3>. QED BY <3>2, <3>3
  <2>. QED BY <1>1, <2>2, <2>8, <2>9
<1>11. CASE n # 0
  <2>1. /\ pc' = [pc EXCEPT ![r] = "transfer"] /\ fd' = [fd EXCEPT ![r] = f]
        /\ lSize' = [lSize EXCEPT ![r] = n] /\ fds' = [fds EXCEPT ![r] = placed]
        /\ ip' = ip /\ result' = result
    BY <1>7, <1>11 DEF Prepare, GoOn
  <2>2. pc'[r] = "transfer" /\ fd'[r] = f /\ lSize'[r] = n /\ fds'[r] = placed
    BY <1>9, <2>1
  <2>3. /\ Reference(r)' = Reference(r) /\ Before(r)' = Before(r) /\ Stmt(r)' = Stmt(r)
        /\ Op(r)' = Op(r) /\ (OneShot(r)' <=> OneShot(r))
    BY <2>1 DEF Reference, Before, Stmt, Op, OneShot
  <2>4. Answers(r)'
    BY <2>1, <2>3 DEF Answers
  <2>5. Underway(r)'
    BY <1>1, <1>2, <1>3, <1>8, <2>2, <2>3 DEF Underway
  <2>6. Pointer(r)'
    <3>1. SUFFICES ASSUME var[r] # None
                   PROVE  /\ placed[var[r]].flags \in {ModeFlags("r+"), ModeFlags("w+")}
                          /\ OneShot(r) => placed[var[r]].pos = Before(r).pos
      BY <2>2, <2>3 DEF Pointer
    <3>. QED BY <1>8, <3>1
  <2>7. Contents(r)' = IF Op(r) = "write" THEN << >> ELSE Before(r).data
    BY <2>2, <2>3 DEF Contents
  <2>. QED BY <2>4, <2>5, <2>6, <2>7
<1>. QED BY <1>10, <1>11

\* What is left to show of the rank's own step: that its file holds what it should.
LEMMA OwnNames ==
  ASSUME TypeInv, NEW r \in Ranks, HasOwnFile(r), OwnFile(r), ip[r] \in DOMAIN program.stmts[r],
         Step(r), NEW p, p = Own(r),
         dir' = dir \/ (dir[p] = None /\ dir' = [dir EXCEPT ![p] = Len(inodes) + 1]),
         dir'[p] # None, IsFile(dir[p])', Holds(inodes'[dir'[p]].data, Contents(r)')
  PROVE  OwnFile(r)'
<1>1. program' = program /\ Own(r)' = p /\ p \in Paths /\ Stmt(r).path = p
  BY OwnKnown DEF Step, Own
<1>2. /\ dir \in [Paths -> Nat] /\ (\A q \in Paths : dir[q] <= Len(inodes))
      /\ inodes \in Seq(Inodes) /\ Len(inodes) \in Nat
  BY DEF TypeInv, Types, FileTypes
<1>3. OneName(p)'
  <2>1. CASE dir' = dir
    BY <2>1 DEF OwnFile, OneName
  <2>2. CASE dir[p] = None /\ dir' = [dir EXCEPT ![p] = Len(inodes) + 1]
    BY <1>1, <1>2, <2>2 DEF OneName
  <2>. QED BY <2>1, <2>2
<1>4. dir'[p] = dir[p] \/ (dir[p] = None /\ dir'[p] = Len(inodes) + 1)
  BY <1>1, <1>2
<1>5. ASSUME NEW q \in Ranks \ {r}, NEW n \in DOMAIN fds'[q]
      PROVE  fds'[q][n].inode # dir'[p]
  <2>1. fds'[q] = fds[q]
    BY DEF Step, OnlyRank
  <2>2. fds[q][n].inode # dir[p]
    BY <2>1 DEF OwnFile
  <2>3. fds[q][n].inode # Len(inodes) + 1
    BY <2>1, OnlyOld
  <2>. QED BY <1>4, <2>1, <2>2, <2>3
<1>6. ASSUME NEW n \in DOMAIN fds'[r]
      PROVE  fds'[r][n].inode = dir'[p]
  <2>1. CASE Carried(r, n)
    <3>1. n \in DOMAIN fds[r] /\ fds'[r][n].inode = fds[r][n].inode
      BY <2>1 DEF Carried
    <3>2. fds[r][n].inode = dir[p]
      BY <3>1 DEF OwnFile
    <3>3. fds[r][n].inode # None
      BY <3>1, OnlyOld
    <3>. QED BY <1>4, <3>1, <3>2, <3>3
  <2>2. CASE Fresh(r, n)
    BY <1>1, <2>2 DEF Fresh
  <2>. QED BY <2>1, <2>2 DEF Step, Descriptors
<1>. QED BY <1>1, <1>3, <1>5, <1>6 DEF OwnFile

\* A rank without its file yet is about to write it.
LEMMA OwnFirst ==
  ASSUME TypeInv, NEW r \in Ranks, HasOwnFile(r), OwnFile(r), ip[r] \in DOMAIN program.stmts[r],
         dir[Own(r)] = None
  PROVE  pc[r] = "begin" /\ Op(r) = "write"
BY DEF OwnFile, HasOwnFile, Op, Stmt

\* Steps that leave the files as they are.
LEMMA OwnFileStays ==
  ASSUME TypeInv, NEW r \in Ranks, HasOwnFile(r), OwnFile(r), ip[r] \in DOMAIN program.stmts[r],
         Step(r), dir' = dir, inodes' = inodes, Contents(r)' = Contents(r),
         pc[r] # "begin" \/ Op(r) # "write"
  PROVE  OwnFile(r)'
<1>1. PICK p \in Paths : p = Own(r)
  BY OwnKnown
<1>2. dir[p] # None
  BY <1>1, OwnFirst
<1>3. IsFile(dir[p]) /\ Holds(inodes[dir[p]].data, Contents(r))
  BY <1>1, <1>2 DEF OwnFile
<1>4. IsFile(dir[p])'
  BY <1>3 DEF IsFile
<1>. QED BY <1>1, <1>2, <1>3, <1>4, OwnNames

\* The rank's state, if another one's step leaves it.
RankSame(r) ==
  /\ program' = program /\ fds'[r] = fds[r] /\ var'[r] = var[r] /\ ip'[r] = ip[r] /\ pc'[r] = pc[r]
  /\ fd'[r] = fd[r] /\ lSize'[r] = lSize[r] /\ result'[r] = result[r]

LEMMA OwnSame ==
  ASSUME NEW r \in Ranks, RankSame(r)
  PROVE  /\ (HasOwnFile(r)' <=> HasOwnFile(r)) /\ Own(r)' = Own(r) /\ Contents(r)' = Contents(r)
         /\ Pointer(r) => Pointer(r)'
         /\ Underway(r) => Underway(r)'
         /\ Answers(r) => Answers(r)'
<1>1. /\ Reference(r)' = Reference(r) /\ Before(r)' = Before(r) /\ Stmt(r)' = Stmt(r)
      /\ Op(r)' = Op(r) /\ (OneShot(r)' <=> OneShot(r))
  BY DEF RankSame, Reference, Before, Stmt, Op, OneShot
<1>2. (HasOwnFile(r)' <=> HasOwnFile(r)) /\ Own(r)' = Own(r)
  BY DEF RankSame, HasOwnFile, Own
<1>3. Contents(r)' = Contents(r)
  BY <1>1 DEF RankSame, Contents
<1>4. Pointer(r) => Pointer(r)'
  BY <1>1 DEF RankSame, Pointer
<1>5. Underway(r) => Underway(r)'
  BY <1>1 DEF RankSame, Underway
<1>6. Answers(r) => Answers(r)'
  BY <1>1 DEF RankSame, Answers
<1>. QED BY <1>2, <1>3, <1>4, <1>5, <1>6

\* Others do not get at the rank's file, whatever they do between its system calls.
LEMMA OthersKeepOff ==
  ASSUME TypeInv, NEW r \in Ranks, HasOwnFile(r), AloneInv(r), NEW q \in Ranks, q # r, Step(q),
         \/ OpenFile(q) \/ HandleError(q) \/ HandleTransfer(q) \/ Measure(q) \/ MeasureFails(q)
         \/ SeekOrSync(q) \/ FClose(q) \/ Transfer(q) \/ PathStatement(q)
  PROVE  AloneInv(r)'
<1>1. program \in Programs /\ program' = program
  BY DEF TypeInv, Types, Step
<1>2. PICK p \in Paths : p = Own(r)
  <2>1. program.stmts[r] \in Seq(Statements) /\ program.stmts[r] # << >>
    BY <1>1, ProgramTyped DEF HasOwnFile
  <2>2. 1 \in DOMAIN program.stmts[r]
    BY <2>1
  <2>. QED BY <1>1, <2>2, OwnStmt
<1>3. \A k \in DOMAIN program.stmts[q] : ~Mentions(program.stmts[q][k], p)
  BY <1>2 DEF HasOwnFile, Own
<1>4. QuietFor(q, p)
  BY <1>3 DEF QuietFor
<1>5. ip[q] \in DOMAIN program.stmts[q]
  BY StepsGo
<1>6. Stmt(q).path \in Paths /\ Stmt(q).path # p
  <2>1. Stmt(q) \in Statements
    BY <1>1, <1>5, StmtTyped
  <2>. QED BY <1>3, <1>5, <2>1 DEF Statements, Mentions, Stmt
<1>7. OnlyAtWork(q, p)
  <2>1. ~AtWork(q, p)
    BY <1>6 DEF AtWork
  <2>2. \A n \in DOMAIN fds[q] : fds[q][n].inode # dir[p]
    BY <1>2 DEF AloneInv, OwnFile
  <2>. QED BY <2>1, <2>2 DEF OnlyAtWork
<1>8. FileStep(q, p)
  <2>1. OneName(p)
    BY <1>2 DEF AloneInv, OwnFile
  <2>. QED BY <1>4, <1>7, <2>1, FilesStep
<1>9. Untouched(p) /\ OneName(p)'
  BY <1>6, <1>8 DEF FileStep, Made, Appended, AtWork
<1>10. \A n \in DOMAIN fds'[q] : fds'[q][n].inode # dir'[p]
  <2>1. OnlyAtWork(q, p)'
    BY <1>4, <1>5, <1>6, <1>7, <1>8, OnlyAtWorkOwn
  <2>2. ~AtWork(q, p)'
    <3>1. SUFFICES ASSUME pc'[q] # "begin" PROVE Stmt(q)'.path # p
      BY DEF AtWork
    <3>2. ip'[q] = ip[q]
      BY <3>1 DEF Step, Descriptors
    <3>. QED BY <1>1, <1>6, <3>2 DEF Stmt
  <2>. QED BY <2>1, <2>2 DEF OnlyAtWork
<1>11. RankSame(r)
  BY <1>1 DEF RankSame, Step, OnlyRank
<1>12. Own(r)' = p /\ Contents(r)' = Contents(r) /\ Pointer(r)' /\ Underway(r)' /\ Answers(r)'
  BY <1>2, <1>11, OwnSame DEF AloneInv
<1>13. OwnFile(r)'
  <2>1. dir'[p] = dir[p] /\ (dir[p] # None => inodes'[dir[p]].data = inodes[dir[p]].data)
    BY <1>9 DEF Untouched
  <2>2. ASSUME NEW x \in Ranks \ {r}, NEW n \in DOMAIN fds'[x]
        PROVE  fds'[x][n].inode # dir'[p]
    <3>1. CASE x = q
      BY <1>10, <3>1
    <3>2. CASE x # q
      BY <1>2, <2>1, <3>2 DEF AloneInv, OwnFile, Step, OnlyRank
    <3>. QED BY <3>1, <3>2
  <2>3. \A n \in DOMAIN fds'[r] : fds'[r][n].inode = dir'[p]
    BY <1>2, <1>11, <2>1 DEF AloneInv, OwnFile, RankSame
  <2>4. dir'[p] = None => ip'[r] = 1 /\ pc'[r] = "begin"
    BY <1>2, <1>11, <2>1 DEF AloneInv, OwnFile, RankSame
  <2>5. ASSUME dir'[p] # None
        PROVE  IsFile(dir[p])' /\ Holds(inodes'[dir'[p]].data, Contents(r)')
    <3>1. IsFile(dir[p]) /\ Holds(inodes[dir[p]].data, Contents(r))
      BY <1>2, <2>1, <2>5 DEF AloneInv, OwnFile
    <3>2. IsFile(dir[p])'
      BY <2>1, <3>1 DEF IsFile, Step, FilesStay
    <3>. QED BY <1>12, <2>1, <2>5, <3>1, <3>2
  <2>. QED BY <1>9, <1>12, <2>2, <2>3, <2>4, <2>5 DEF OwnFile
<1>. QED BY <1>12, <1>13 DEF AloneInv

LEMMA HandleTransferAlone ==
  ASSUME TypeInv, NEW r \in Ranks, HasOwnFile(r), AloneInv(r), HandleTransfer(r)
  PROVE  AloneInv(r)'
<1>1. Step(r) /\ ip[r] \in DOMAIN program.stmts[r]
  BY RankStep, StepsGo
<1>2. /\ pc[r] = "begin" /\ Op(r) \in {"fread", "fwrite"} /\ var[r] # None /\ ~OneShot(r)
      /\ program' = program /\ dir' = dir /\ inodes' = inodes /\ var' = var
  BY DEF HandleTransfer, Running, OneShot
<1>3. PICK f : f = var[r]
  OBVIOUS
<1>4. PICK open : open = fds[r]
  OBVIOUS
<1>5. f \in DOMAIN open /\ IsTable(open)
  BY <1>1, <1>2, <1>3, <1>4, OwnKnown DEF Kept, TypeInv, RankInv
<1>6. /\ open[f].flags \in {ModeFlags("r+"), ModeFlags("w+")}
      /\ open[f].pos = Before(r).pos
  BY <1>2, <1>3, <1>4 DEF AloneInv, Pointer
<1>7. Contents(r) = Before(r).data /\ Op(r) # "write" /\ Op(r) # "append"
  BY <1>2 DEF Contents
<1>8. ASSUME Answers(r)', Underway(r)', Pointer(r)', Contents(r)' = Before(r).data
      PROVE  AloneInv(r)'
  BY <1>1, <1>2, <1>7, <1>8, OwnFileStays DEF AloneInv
<1>9. CASE Stmt(r).amount = READALL
  <2>1. /\ pc' = [pc EXCEPT ![r] = "measure"] /\ fds' = fds /\ ip' = ip /\ result' = result
    BY <1>3, <1>4, <1>5, <1>9 DEF HandleTransfer
  <2>2. pc'[r] = "measure"
    BY <2>1 DEF TypeInv, Types, RankTypes
  <2>3. /\ Reference(r)' = Reference(r) /\ Before(r)' = Before(r) /\ Stmt(r)' = Stmt(r)
        /\ Op(r)' = Op(r) /\ (OneShot(r)' <=> OneShot(r))
    BY <1>2, <2>1 DEF Reference, Before, Stmt, Op, OneShot
  <2>4. Answers(r)'
    BY <2>1, <2>3 DEF AloneInv, Answers
  <2>5. Underway(r)'
    BY <1>2, <2>2, <2>3 DEF Underway
  <2>6. Pointer(r)'
    BY <1>2, <1>3, <1>4, <1>6, <2>1, <2>2, <2>3 DEF Pointer
  <2>7. Contents(r)' = Before(r).data
    BY <1>7, <2>3 DEF Contents
  <2>. QED BY <1>8, <2>4, <2>5, <2>6, <2>7
<1>10. CASE Stmt(r).amount # READALL
  <2>1. PICK n : n = Stmt(r).amount
    OBVIOUS
  <2>2. Prepare(r, n, f, open)
    BY <1>3, <1>4, <1>5, <1>10, <2>1 DEF HandleTransfer
  <2>3. n = AmountOf(Stmt(r), Before(r))
    BY <1>10, <2>1 DEF AmountOf
  <2>4. Stmt(r).offset # OFFSET_CUR \/ open[f].pos = StartOf(Stmt(r), Before(r))
    BY <1>2, <1>6, <1>10 DEF StartOf, Op
  <2>5. Answers(r)
    BY DEF AloneInv
  <2>6. /\ Answers(r)' /\ Underway(r)' /\ Pointer(r)'
        /\ Contents(r)' = IF Op(r) = "write" THEN << >> ELSE Before(r).data
    BY <1>1, <1>2, <1>3, <1>5, <1>6, <2>2, <2>3, <2>4, <2>5, Ready
  <2>. QED BY <1>7, <1>8, <2>6
<1>. QED BY <1>9, <1>10

LEMMA MeasureAlone ==
  ASSUME TypeInv, NEW r \in Ranks, HasOwnFile(r), AloneInv(r), Measure(r)
  PROVE  AloneInv(r)'
<1>1. Step(r) /\ ip[r] \in DOMAIN program.stmts[r]
  BY RankStep, StepsGo
<1>2. pc[r] = "measure" /\ program' = program /\ dir' = dir /\ inodes' = inodes /\ var' = var
  BY DEF Measure, Running
<1>3. Stmt(r).amount = READALL /\ Op(r) \in {"read", "fread"}
  <2>1. program \in Programs /\ Stmt(r).amount = READALL
    BY <1>2 DEF TypeInv, Types, RankInv, AtStatement
  <2>2. READALL \notin Nat
    BY DEF READALL
  <2>. QED BY <1>1, <2>1, <2>2, StmtTyped
<1>4. PICK f : f = fd[r]
  OBVIOUS
<1>5. PICK before : before = fds[r]
  OBVIOUS
<1>6. /\ f \in DOMAIN before /\ IsTable(before)
      /\ ~OneShot(r) => f = var[r]
      /\ OneShot(r) => before[f].flags = OpenFlags(Stmt(r))
  BY <1>2, <1>4, <1>5 DEF TypeInv, RankInv, AtStatement, AloneInv, Underway
<1>7. PICK open : open = Sought(before, f, 0)
  OBVIOUS
<1>8. /\ DOMAIN open = DOMAIN before /\ IsTable(open) /\ open[f].pos = 0
      /\ \A m \in DOMAIN before : open[m].flags = before[m].flags
      /\ \A m \in DOMAIN before : m # f => open[m] = before[m]
  <2>1. 0 \in Nat
    OBVIOUS
  <2>. QED BY <1>6, <1>7, <2>1, SoughtTable, SoughtAt
<1>9. Contents(r) = Before(r).data
  BY <1>3 DEF Contents
<1>10. PICK n : n = AmountOf(Stmt(r), Before(r))
  OBVIOUS
<1>11. Prepare(r, n, f, open)
  <2>1. dir[Own(r)] # None
    BY <1>1, <1>2, OwnFirst DEF AloneInv
  <2>2. Eof(inodes[dir[Own(r)]].data) = Len(Before(r).data)
    BY <1>9, <2>1 DEF AloneInv, OwnFile, Holds
  <2>3. File(r).inode = dir[Own(r)]
    BY <1>4, <1>5, <1>6 DEF AloneInv, OwnFile, File
  <2>4. n = Eof(inodes[File(r).inode].data)
    BY <1>3, <1>10, <2>2, <2>3 DEF AmountOf
  <2>5. PICK pos : pos = 0 /\ Prepare(r, n, fd[r], Sought(fds[r], fd[r], pos))
    <3>1. {TRUE} \cap {program.faulty} = {}
      BY DEF HasOwnFile
    <3>. QED BY <2>4, <3>1 DEF Measure
  <2>. QED BY <1>4, <1>5, <1>7, <2>5
<1>12. Stmt(r).offset # OFFSET_CUR \/ open[f].pos = StartOf(Stmt(r), Before(r))
  BY <1>3, <1>8 DEF StartOf
<1>13. ASSUME var[r] # None
       PROVE  /\ var[r] \in DOMAIN open
              /\ open[var[r]].flags \in {ModeFlags("r+"), ModeFlags("w+")}
              /\ OneShot(r) => var[r] # f /\ open[var[r]].pos = Before(r).pos
  <2>1. PICK v : v = var[r]
    OBVIOUS
  <2>2. v \in DOMAIN before /\ (OneShot(r) => v # f)
    BY <1>1, <1>2, <1>4, <1>5, <1>13, <2>1, OwnKnown DEF Kept
  <2>3. /\ before[v].flags \in {ModeFlags("r+"), ModeFlags("w+")}
        /\ OneShot(r) => before[v].pos = Before(r).pos
    BY <1>5, <1>13, <2>1 DEF AloneInv, Pointer
  <2>. QED BY <1>8, <2>1, <2>2, <2>3
<1>14. Answers(r) /\ OwnFile(r)
  BY DEF AloneInv
<1>15. /\ Answers(r)' /\ Underway(r)' /\ Pointer(r)'
       /\ Contents(r)' = IF Op(r) = "write" THEN << >> ELSE Before(r).data
  BY <1>1, <1>2, <1>3, <1>6, <1>8, <1>10, <1>11, <1>12, <1>13, <1>14, Ready
<1>16. OwnFile(r)'
  BY <1>1, <1>2, <1>3, <1>9, <1>14, <1>15, OwnFileStays
<1>. QED BY <1>15, <1>16 DEF AloneInv

\* Statements that leave the file as it is, and succeed.
LEMMA SucceedsAlone ==
  ASSUME TypeInv, NEW r \in Ranks, HasOwnFile(r), AloneInv(r), ip[r] \in DOMAIN program.stmts[r], Step(r),
         pc[r] = "begin", dir' = dir, inodes' = inodes, Return(r, TRUE, << >>),
         Op(r) \in {"fseek", "fsync", "fclose", "lookup", "stat"}
  PROVE  /\ OwnFile(r)' /\ Answers(r)' /\ Underway(r)' /\ pc'[r] = "begin"
         /\ Before(r)'.pos = IF Op(r) = "fseek" THEN Stmt(r).offset ELSE Before(r).pos
<1>1. program' = program
  BY DEF Step
<1>2. PICK old \in Refs : old = Before(r)
  BY OwnKnown
<1>3. PICK s : s = Stmt(r)
  OBVIOUS
<1>4. PICK n : n = IF Op(r) = "fseek" THEN Stmt(r).offset ELSE Before(r).pos
  OBVIOUS
<1>5. PICK d : d = old.data
  OBVIOUS
<1>6. PICK yes \in BOOLEAN : yes = TRUE
  OBVIOUS
<1>7. PICK bytes : bytes = << >>
  OBVIOUS
<1>8. AfterOne(r, ip[r], s, old) = [data |-> d, pos |-> n, success |-> yes, read |-> bytes]
  <2>1. CASE Op(r) = "fseek"
    BY <1>2, <1>3, <1>4, <1>5, <1>6, <1>7, <2>1 DEF AfterOne, Op
  <2>2. CASE Op(r) # "fseek"
    BY <1>2, <1>3, <1>4, <1>5, <1>6, <1>7, <2>2 DEF AfterOne, Op
  <2>. QED BY <2>1, <2>2
<1>9. AfterOne(r, ip[r], Stmt(r), Before(r)) = [data |-> d, pos |-> n, success |-> yes, read |-> bytes]
  BY <1>2, <1>3, <1>8
<1>10. Return(r, yes, bytes) /\ Answers(r) /\ OwnFile(r)
  BY <1>6, <1>7 DEF AloneInv
<1>11. /\ Answers(r)' /\ Underway(r)' /\ pc'[r] = "begin"
       /\ Contents(r)' = d /\ Before(r)'.pos = n
  BY <1>1, <1>9, <1>10, Over
<1>12. Contents(r)' = Contents(r)
  BY <1>2, <1>5, <1>11 DEF Contents
<1>13. OwnFile(r)'
  BY <1>10, <1>12, OwnFileStays
<1>. QED BY <1>4, <1>11, <1>13

LEMMA SeekOrSyncAlone ==
  ASSUME TypeInv, NEW r \in Ranks, HasOwnFile(r), AloneInv(r), SeekOrSync(r)
  PROVE  AloneInv(r)'
<1>1. Step(r) /\ ip[r] \in DOMAIN program.stmts[r]
  BY RankStep, StepsGo
<1>2. /\ pc[r] = "begin" /\ Op(r) \in {"fseek", "fsync"} /\ var[r] # None
      /\ program' = program /\ dir' = dir /\ inodes' = inodes /\ var' = var
  BY DEF SeekOrSync, Running
<1>3. PICK f : f = var[r]
  OBVIOUS
<1>4. PICK open : open = fds[r]
  OBVIOUS
<1>5. f \in DOMAIN open /\ IsTable(open) /\ ~program.faulty
  BY <1>1, <1>2, <1>3, <1>4, OwnKnown DEF Kept, TypeInv, RankInv
<1>6. /\ open[f].flags \in {ModeFlags("r+"), ModeFlags("w+")} /\ open[f].pos = Before(r).pos
  BY <1>2, <1>3, <1>4 DEF AloneInv, Pointer
<1>7. Op(r) = "fseek" => Stmt(r).offset \in Nat
  <2>1. program \in Programs
    BY DEF TypeInv, Types
  <2>. QED BY <1>1, <2>1, OwnStmt DEF Op, Stmt
<1>8. /\ Return(r, TRUE, << >>)
      /\ fds' = IF Op(r) = "fseek" THEN [fds EXCEPT ![r] = Sought(fds[r], f, Stmt(r).offset)] ELSE fds
  <2>1. PICK success \in {TRUE} :
          /\ Return(r, success /\ (Op(r) = "fseek" => Stmt(r).offset >= 0), << >>)
          /\ fds' = IF success /\ Op(r) = "fseek" /\ Stmt(r).offset >= 0
                    THEN [fds EXCEPT ![r] = Sought(fds[r], f, Stmt(r).offset)] ELSE fds
    BY <1>3, <1>4, <1>5 DEF SeekOrSync
  <2>2. Op(r) = "fseek" => Stmt(r).offset >= 0
    BY <1>7
  <2>3. (success /\ (Op(r) = "fseek" => Stmt(r).offset >= 0)) = TRUE
    BY <2>1, <2>2
  <2>. QED BY <2>1, <2>2, <2>3
<1>9. /\ OwnFile(r)' /\ Answers(r)' /\ Underway(r)' /\ pc'[r] = "begin"
      /\ Before(r)'.pos = IF Op(r) = "fseek" THEN Stmt(r).offset ELSE Before(r).pos
  BY <1>1, <1>2, <1>8, SucceedsAlone
<1>10. Pointer(r)'
  <2>1. SUFFICES /\ fds'[r][f].flags \in {ModeFlags("r+"), ModeFlags("w+")}
                 /\ fds'[r][f].pos = IF Op(r) = "fseek" THEN Stmt(r).offset ELSE Before(r).pos
    BY <1>2, <1>3, <1>9 DEF Pointer
  <2>2. CASE Op(r) = "fseek"
    <3>1. PICK pos \in Nat : pos = Stmt(r).offset
      BY <1>7, <2>2
    <3>2. fds'[r] = Sought(open, f, pos)
      BY <1>4, <1>8, <2>2, <3>1 DEF TypeInv, Types, RankTypes
    <3>3. Sought(open, f, pos)[f].pos = pos /\ Sought(open, f, pos)[f].flags = open[f].flags
      BY <1>5, SoughtTable, SoughtAt
    <3>. QED BY <1>6, <2>2, <3>1, <3>2, <3>3
  <2>3. CASE Op(r) # "fseek"
    BY <1>4, <1>6, <1>8, <2>3
  <2>. QED BY <2>2, <2>3
<1>. QED BY <1>9, <1>10 DEF AloneInv

LEMMA FCloseAlone ==
  ASSUME TypeInv, NEW r \in Ranks, HasOwnFile(r), AloneInv(r), FClose(r)
  PROVE  AloneInv(r)'
<1>1. Step(r) /\ ip[r] \in DOMAIN program.stmts[r]
  BY RankStep, StepsGo
<1>2. pc[r] = "begin" /\ Op(r) = "fclose" /\ var[r] # None /\ dir' = dir /\ inodes' = inodes
  BY DEF FClose, Running
<1>3. var[r] \in DOMAIN fds[r] /\ ~program.faulty
  BY <1>1, <1>2, OwnKnown DEF Kept
<1>4. Return(r, TRUE, << >>) /\ var' = [var EXCEPT ![r] = None]
  <2>1. PICK success \in {TRUE} : /\ Return(r, success, << >>)
                                  /\ var' = IF success THEN [var EXCEPT ![r] = None] ELSE var
    BY <1>3 DEF FClose
  <2>. QED BY <2>1
<1>5. var'[r] = None
  BY <1>4 DEF TypeInv, Types, RankTypes
<1>6. OwnFile(r)' /\ Answers(r)' /\ Underway(r)'
  BY <1>1, <1>2, <1>4, SucceedsAlone
<1>7. Pointer(r)'
  BY <1>5 DEF Pointer
<1>. QED BY <1>6, <1>7 DEF AloneInv

LEMMA PathStatementAlone ==
  ASSUME TypeInv, NEW r \in Ranks, HasOwnFile(r), AloneInv(r), PathStatement(r)
  PROVE  AloneInv(r)'
<1>1. Step(r) /\ ip[r] \in DOMAIN program.stmts[r]
  BY RankStep, StepsGo
<1>2. pc[r] = "begin" /\ Op(r) \in PathOps /\ fds' = fds /\ var' = var
  BY DEF PathStatement, Running
<1>3. Op(r) \in {"lookup", "stat"} /\ Stmt(r).path = Own(r) /\ ~program.faulty
  <2>1. program \in Programs
    BY DEF TypeInv, Types
  <2>2. Op(r) \in {"write", "append", "read", "fopen", "lookup", "stat"} \cup HandleOps
    BY <1>1, <2>1, OwnStmt DEF Op, Stmt
  <2>. QED BY <1>1, <1>2, <2>2, OwnKnown DEF PathOps, HandleOps
<1>4. dir[Stmt(r).path] # None
  BY <1>1, <1>3, OwnFirst DEF AloneInv
<1>5. Return(r, TRUE, << >>) /\ dir' = dir /\ inodes' = inodes
  <2>1. PICK success \in {TRUE} :
          /\ dir' = CASE ~success \/ Op(r) \in {"lookup", "stat"} -> dir
                      [] success /\ Op(r) \in {"delete", "rmdir"} -> [dir EXCEPT ![Stmt(r).path] = None]
                      [] success /\ Op(r) = "mkdir"  -> [dir EXCEPT ![Stmt(r).path] = Len(inodes) + 1]
                      [] success /\ Op(r) = "rename" ->
                           [[dir EXCEPT ![Stmt(r).path] = None] EXCEPT ![Stmt(r).to] = dir[Stmt(r).path]]
          /\ inodes' = IF success /\ Op(r) = "mkdir"
                       THEN Append(inodes, [kind |-> "dir", data |-> << >>]) ELSE inodes
          /\ Return(r, success, << >>)
    BY <1>3, <1>4 DEF PathStatement
  <2>. QED BY <1>3, <2>1
<1>6. /\ OwnFile(r)' /\ Answers(r)' /\ Underway(r)' /\ pc'[r] = "begin"
      /\ Before(r)'.pos = IF Op(r) = "fseek" THEN Stmt(r).offset ELSE Before(r).pos
  BY <1>1, <1>2, <1>3, <1>5, SucceedsAlone
<1>7. Pointer(r)'
  BY <1>2, <1>3, <1>6 DEF AloneInv, Pointer
<1>. QED BY <1>6, <1>7 DEF AloneInv

\* A statement that opens the file finds it, empty if it is to be.
LEMMA OwnOpened ==
  ASSUME TypeInv, NEW r \in Ranks, HasOwnFile(r), AloneInv(r), ip[r] \in DOMAIN program.stmts[r],
         pc[r] = "begin", Op(r) \in {"write", "append", "read", "fopen"},
         FilesOpened(r), NEW p, p = Own(r)
  PROVE  /\ dir' = dir \/ (dir[p] = None /\ dir' = [dir EXCEPT ![p] = Len(inodes) + 1])
         /\ dir'[p] # None /\ IsFile(dir[p])'
         /\ Holds(inodes'[dir'[p]].data, IF OpenFlags(Stmt(r)).trunc THEN << >> ELSE Before(r).data)
<1>1. p \in Paths /\ Stmt(r).path = p
  BY OwnKnown
<1>2. /\ FileTypes /\ dir \in [Paths -> Nat] /\ (\A q \in Paths : dir[q] <= Len(inodes))
      /\ inodes \in Seq(Inodes)
  BY DEF TypeInv, Types, FileTypes
<1>3. IsFile(dir[p])' /\ dir'[p] # None
  <2>1. PICK i \in Nat : i = dir'[p] /\ IsFile(i)'
    BY <1>1, <1>2, OpenedTyped
  <2>2. inodes' \in Seq(Inodes)
    BY <1>1, <1>2, OpenedTyped DEF FileTypes
  <2>3. IsFile(dir[p])'
    BY <2>1 DEF IsFile
  <2>. QED BY <2>2, <2>3 DEF IsFile, None
<1>4. CASE IsFile(dir[p]) /\ dir' = dir /\ ~OpenFlags(Stmt(r)).trunc /\ inodes' = inodes
  <2>1. dir[p] # None
    BY <1>3, <1>4
  <2>2. Holds(inodes[dir[p]].data, Contents(r)) /\ Contents(r) = Before(r).data
    BY <2>1 DEF AloneInv, OwnFile, Contents
  <2>. QED BY <1>3, <1>4, <2>2
<1>5. CASE /\ IsFile(dir[p]) /\ dir' = dir /\ OpenFlags(Stmt(r)).trunc
           /\ inodes' = [inodes EXCEPT ![dir[p]].data = << >>]
  <2>1. PICK i : i = dir[p]
    OBVIOUS
  <2>2. IsFile(i) /\ inodes' = [inodes EXCEPT ![i].data = << >>]
    BY <1>5, <2>1
  <2>3. dir' \in [Paths -> Nat] /\ \A q \in Paths : dir'[q] <= Len(inodes)
    BY <1>2, <1>5
  <2>4. inodes'[i].data = << >>
    BY <1>2, <2>2, <2>3, NoData, DataReplaced
  <2>. QED BY <1>3, <1>5, <2>1, <2>4, HoldsNothing
<1>6. CASE /\ dir[p] = None /\ dir' = [dir EXCEPT ![p] = Len(inodes) + 1]
           /\ inodes' = Append(inodes, [kind |-> "file", data |-> << >>])
  <2>1. Op(r) = "write"
    BY <1>6, OwnFirst DEF AloneInv
  <2>2. OpenFlags(Stmt(r)).trunc
    BY <2>1 DEF OpenFlags, ModeFlags, Flags, Op
  <2>3. dir'[p] = Len(inodes) + 1
    BY <1>1, <1>2, <1>6
  <2>4. inodes'[dir'[p]].data = << >>
    <3>1. PICK made : made = [kind |-> "file", data |-> << >>]
      OBVIOUS
    <3>2. inodes'[Len(inodes) + 1] = made
      BY <1>2, <1>6, <3>1
    <3>. QED BY <2>3, <3>1, <3>2
  <2>. QED BY <1>3, <1>6, <2>2, <2>4, HoldsNothing
<1>. QED BY <1>1, <1>4, <1>5, <1>6 DEF FilesOpened

LEMMA OpenFileAlone ==
  ASSUME TypeInv, NEW r \in Ranks, HasOwnFile(r), AloneInv(r), OpenFile(r)
  PROVE  AloneInv(r)'
<1>1. Step(r) /\ ip[r] \in DOMAIN program.stmts[r] /\ Types /\ RankInv(r)
  BY RankStep, StepsGo DEF TypeInv
<1>2. PICK n : n = NewFd(r)
  OBVIOUS
<1>3. PICK p : p = Own(r)
  OBVIOUS
<1>4. /\ pc[r] = "begin" /\ Op(r) \in OpenOps /\ program' = program
      /\ \/ program.faulty \/ ~CanOpen(r)
         \/ /\ FilesOpened(r)
            /\ \E file : /\ file = [inode |-> dir'[Stmt(r).path], pos |-> 0,
                                    flags |-> OpenFlags(Stmt(r))]
                         /\ Continues(r, n, file)
  BY <1>1, <1>2, OpenFiles DEF Running
<1>5. Stmt(r).path = p /\ p \in Paths /\ ~program.faulty /\ Before(r) \in Refs
  BY <1>1, <1>3, OwnKnown
<1>6. /\ Op(r) \in {"write", "append", "read", "fopen"}
      /\ Op(r) = "fopen" => Stmt(r).mode \in {"w+", "r+"}
  <2>1. program \in Programs
    BY <1>1 DEF Types
  <2>2. /\ Op(r) \in {"write", "append", "read", "fopen", "lookup", "stat"} \cup HandleOps
        /\ Op(r) = "fopen" => Stmt(r).mode \in {"w+", "r+"}
    BY <1>1, <2>1, OwnStmt DEF Op, Stmt
  <2>. QED BY <1>4, <2>2 DEF OpenOps, HandleOps
<1>7. CanOpen(r)
  <2>1. CASE dir[p] = None
    <3>1. Op(r) = "write"
      BY <1>1, <1>3, <2>1, OwnFirst DEF AloneInv
    <3>. QED BY <1>5, <2>1, <3>1 DEF CanOpen, OpenFlags, ModeFlags, Flags, Op
  <2>2. CASE dir[p] # None
    BY <1>3, <1>5, <2>2 DEF AloneInv, OwnFile, IsFile, CanOpen
  <2>. QED BY <2>1, <2>2
<1>8. PICK file : /\ file = [inode |-> dir'[p], pos |-> 0, flags |-> OpenFlags(Stmt(r))]
                  /\ Continues(r, n, file)
  BY <1>4, <1>5, <1>7
<1>9. PICK kept : kept = IF OpenFlags(Stmt(r)).trunc THEN << >> ELSE Before(r).data
  OBVIOUS
<1>10. /\ dir' = dir \/ (dir[p] = None /\ dir' = [dir EXCEPT ![p] = Len(inodes) + 1])
       /\ dir'[p] # None /\ IsFile(dir[p])'
       /\ Holds(inodes'[dir'[p]].data, kept)
  BY <1>1, <1>3, <1>4, <1>5, <1>6, <1>7, <1>9, OwnOpened
<1>11. ASSUME Answers(r)', Underway(r)', Pointer(r)', Contents(r)' = kept
       PROVE  AloneInv(r)'
  <2>1. OwnFile(r) /\ Holds(inodes'[dir'[p]].data, Contents(r)')
    BY <1>10, <1>11 DEF AloneInv
  <2>2. OwnFile(r)'
    BY <1>1, <1>3, <1>10, <2>1, OwnNames
  <2>. QED BY <1>11, <2>2 DEF AloneInv
<1>12. file \in Files /\ file.pos = 0 /\ file.flags = OpenFlags(Stmt(r))
  <2>1. PICK s \in Statements : s = Stmt(r) /\ s.op \in OpenOps
    BY <1>1, <1>4, StmtTyped DEF Types, Op
  <2>2. [inode |-> 0, pos |-> 0, flags |-> OpenFlags(Stmt(r))] \in Files
    BY <2>1, FlagsTyped
  <2>3. PICK i \in Nat : i = dir'[p]
    BY <1>1, <1>5 DEF Step, FileTypes
  <2>. QED BY <1>8, <2>2, <2>3 DEF Files
<1>13. n \in Nat \ {None} /\ n \notin DOMAIN fds[r] /\ IsTable(fds[r])
  BY <1>1, <1>2, NewFdIsNew DEF RankInv
<1>14. PICK open : open = Opened(r, n, file)
  OBVIOUS
<1>15. /\ IsTable(open) /\ DOMAIN open = DOMAIN fds[r] \cup {n} /\ open[n] = file
       /\ \A m \in DOMAIN fds[r] : m # n => open[m] = fds[r][m]
  BY <1>12, <1>13, <1>14, OpenedTable
<1>16. Answers(r)
  BY DEF AloneInv
<1>17. ASSUME var[r] # None
       PROVE  /\ var[r] \in DOMAIN open /\ var[r] # n
              /\ open[var[r]].flags \in {ModeFlags("r+"), ModeFlags("w+")}
              /\ open[var[r]].pos = Before(r).pos
  <2>1. PICK v : v = var[r]
    OBVIOUS
  <2>2. v \in DOMAIN fds[r] /\ v # n
    BY <1>1, <1>13, <1>17, <2>1, OwnKnown DEF Kept
  <2>3. fds[r][v].flags \in {ModeFlags("r+"), ModeFlags("w+")} /\ fds[r][v].pos = Before(r).pos
    BY <1>4, <1>17, <2>1 DEF AloneInv, Pointer
  <2>. QED BY <1>15, <2>1, <2>2, <2>3
<1>18. CASE Op(r) = "fopen"
  <2>1. /\ Return(r, TRUE, << >>) /\ fds' = [fds EXCEPT ![r] = open] /\ var' = [var EXCEPT ![r] = n]
    BY <1>8, <1>14, <1>18 DEF Continues, OneShot
  <2>2. fds'[r] = open /\ var'[r] = n
    BY <1>1, <2>1 DEF Types, RankTypes
  <2>3. PICK yes \in BOOLEAN : yes = TRUE
    OBVIOUS
  <2>4. PICK bytes : bytes = << >>
    OBVIOUS
  <2>5. PICK old : old = Before(r)
    OBVIOUS
  <2>6. PICK s : s = Stmt(r)
    OBVIOUS
  <2>7. /\ file.flags \in {ModeFlags("r+"), ModeFlags("w+")}
        /\ kept = IF s.mode = "w+" THEN << >> ELSE old.data
    BY <1>6, <1>9, <1>12, <1>18, <2>5, <2>6 DEF OpenFlags, ModeFlags, Flags, Op
  <2>8. AfterOne(r, ip[r], s, old) = [data |-> kept, pos |-> 0, success |-> yes, read |-> bytes]
    BY <1>18, <2>3, <2>4, <2>6, <2>7 DEF AfterOne, Op
  <2>9. Return(r, yes, bytes) /\ AfterOne(r, ip[r], Stmt(r), Before(r)) =
                                   [data |-> kept, pos |-> 0, success |-> yes, read |-> bytes]
    BY <2>1, <2>3, <2>4, <2>5, <2>6, <2>8
  <2>10. /\ Answers(r)' /\ Underway(r)' /\ pc'[r] = "begin"
         /\ Contents(r)' = kept /\ Before(r)'.pos = 0
    BY <1>1, <1>4, <1>16, <2>9, Over
  <2>11. Pointer(r)'
    BY <1>12, <1>15, <2>2, <2>7, <2>10 DEF Pointer
  <2>. QED BY <1>11, <2>10, <2>11
<1>19. CASE OneShot(r)
  <2>1. kept = IF Op(r) = "write" THEN << >> ELSE Before(r).data
    BY <1>9, <1>19 DEF OpenFlags, ModeFlags, Flags, Op, OneShot
  <2>2. \/ /\ Stmt(r).amount = READALL
           /\ pc' = [pc EXCEPT ![r] = "measure"] /\ fd' = [fd EXCEPT ![r] = n]
           /\ fds' = [fds EXCEPT ![r] = open]
           /\ ip' = ip /\ var' = var /\ lSize' = lSize /\ result' = result
        \/ /\ Stmt(r).amount # READALL /\ var' = var /\ Prepare(r, Stmt(r).amount, n, open)
    BY <1>8, <1>14, <1>19 DEF Continues, OneShot
  <2>3. CASE Stmt(r).amount = READALL
    <3>1. /\ pc'[r] = "measure" /\ fd'[r] = n /\ fds'[r] = open
          /\ ip' = ip /\ var' = var /\ result' = result
      BY <1>1, <2>2, <2>3 DEF Types, RankTypes
    <3>2. /\ Reference(r)' = Reference(r) /\ Before(r)' = Before(r) /\ Stmt(r)' = Stmt(r)
          /\ Op(r)' = Op(r) /\ (OneShot(r)' <=> OneShot(r))
      BY <1>4, <3>1 DEF Reference, Before, Stmt, Op, OneShot
    <3>3. Answers(r)'
      BY <1>16, <3>1, <3>2 DEF Answers
    <3>4. Underway(r)'
      BY <1>12, <1>15, <3>1, <3>2 DEF Underway
    <3>5. Pointer(r)'
      BY <1>17, <3>1, <3>2 DEF Pointer
    <3>6. Contents(r)' = kept
      BY <2>1, <3>1, <3>2 DEF Contents
    <3>. QED BY <1>11, <3>3, <3>4, <3>5, <3>6
  <2>4. CASE Stmt(r).amount # READALL
    <3>1. PICK amount : amount = Stmt(r).amount
      OBVIOUS
    <3>2. Prepare(r, amount, n, open) /\ var' = var /\ amount = AmountOf(Stmt(r), Before(r))
      BY <2>2, <2>4, <3>1 DEF AmountOf
    <3>3. \/ Op(r) = "append" \/ Stmt(r).offset # OFFSET_CUR
          \/ open[n].pos = StartOf(Stmt(r), Before(r))
      BY <1>12, <1>15, <1>19 DEF StartOf, OneShot, Op
    <3>4. open[n].flags = OpenFlags(Stmt(r)) /\ n \in DOMAIN open
      BY <1>12, <1>15
    <3>5. Op(r) \in {"write", "append", "read", "fwrite", "fread"}
      BY <1>19 DEF OneShot
    <3>6. /\ Answers(r)' /\ Underway(r)' /\ Pointer(r)'
          /\ Contents(r)' = IF Op(r) = "write" THEN << >> ELSE Before(r).data
      BY <1>1, <1>4, <1>15, <1>16, <1>17, <1>19, <3>2, <3>3, <3>4, <3>5, Ready
    <3>. QED BY <1>11, <2>1, <3>6
  <2>. QED BY <2>3, <2>4
<1>. QED BY <1>6, <1>18, <1>19 DEF OneShot

\* Of n bytes at a position of a descriptor, all that can be, no less.
Most(r, f, data, n, at) ==
  /\ at = IF Writes(r) /\ fds[r][f].flags.append THEN Eof(data) ELSE fds[r][f].pos
  /\ n <= lSize[r]
  /\ n > 0 => IF Writes(r) THEN fds[r][f].flags.write ELSE fds[r][f].flags.read /\ at + n <= Eof(data)
  /\ \A m \in 0 .. lSize[r] :
       (m > 0 => IF Writes(r) THEN fds[r][f].flags.write ELSE fds[r][f].flags.read /\ at + m <= Eof(data))
       => m <= n

\* The transfer of as much.
MovedAll(r, f, i, data, n, at) ==
  /\ Most(r, f, data, n, at)
  /\ inodes' = IF ~Writes(r) THEN inodes ELSE [inodes EXCEPT ![i].data = Stored(r, data, at, n)]
  /\ fds' = [fds EXCEPT ![r] = IF OneShot(r) THEN Without(fds[r], f) ELSE Sought(fds[r], f, at + n)]
  /\ Return(r, n = lSize[r], IF Writes(r) THEN << >> ELSE [k \in 1 .. n |-> ByteAt(data, at + k - 1)])

LEMMA TransferredAll ==
  ASSUME Types, NEW r \in Ranks, RankInv(r), Transfer(r), ~program.faulty,
         NEW f, f = fd[r], NEW i, i = fds[r][f].inode, NEW data, data = inodes[i].data
  PROVE  \E n, at \in Nat : MovedAll(r, f, i, data, n, at)
<1>1. fds[r][f] \in Files /\ data \in Datas /\ lSize[r] \in Nat
  BY Transferred
<1>2. Eof(data) \in Nat
  BY <1>1, DataKnown
<1> DEFINE file == File(r)
           bytesNow == inodes[file.inode].data
           writes == Op(r) \in {"write", "append", "fwrite"}
           start == IF writes /\ file.flags.append THEN Eof(bytesNow) ELSE file.pos
           possible == {n \in 0 .. lSize[r] :
             n > 0 => IF writes THEN file.flags.write ELSE file.flags.read /\ start + n <= Eof(bytesNow)}
           most == CHOOSE n \in possible : \A m \in possible : m <= n
<1>3. PICK n \in {most} :
        /\ inodes' = IF ~writes THEN inodes
                     ELSE [inodes EXCEPT ![file.inode].data = Stored(r, bytesNow, start, n)]
        /\ fds' = [fds EXCEPT ![r] = IF OneShot(r) THEN Without(fds[r], fd[r])
                                     ELSE Sought(fds[r], fd[r], start + n)]
        /\ Return(r, n = lSize[r],
                  IF writes THEN << >> ELSE [k \in 1 .. n |-> ByteAt(bytesNow, start + k - 1)])
  BY DEF Transfer
<1>4. n \in possible /\ \A m \in possible : m <= n
  <2>1. possible \in SUBSET Nat /\ 0 \in possible /\ \A m \in possible : m <= lSize[r]
    BY <1>1
  <2> HIDE DEF possible
  <2>2. PICK T : T = possible
    OBVIOUS
  <2>3. PICK top \in Nat : top = lSize[r]
    BY <1>1
  <2>4. \E m \in T : \A k \in T : k <= m
    BY <2>1, <2>2, <2>3, GreatestNatural
  <2>5. most \in possible /\ \A m \in possible : m <= most
    BY <2>2, <2>4
  <2> HIDE DEF most
  <2>. QED BY <1>3, <2>5
<1> HIDE DEF most
<1>5. file = fds[r][f] /\ bytesNow = data /\ (Writes(r) <=> writes)
  BY DEF Writes, File
<1>6. PICK at \in Nat : at = start
  BY <1>1, <1>2, <1>5 DEF Files
<1> HIDE DEF file, bytesNow, writes, start
<1>7. at = IF Writes(r) /\ fds[r][f].flags.append THEN Eof(data) ELSE fds[r][f].pos
  BY <1>5, <1>6 DEF start
<1>8. /\ n \in 0 .. lSize[r]
      /\ n > 0 => IF Writes(r) THEN fds[r][f].flags.write ELSE fds[r][f].flags.read /\ at + n <= Eof(data)
  BY <1>4, <1>5, <1>6
<1>9. ASSUME NEW m \in 0 .. lSize[r],
             m > 0 => IF Writes(r) THEN fds[r][f].flags.write ELSE fds[r][f].flags.read /\ at + m <= Eof(data)
      PROVE  m <= n
  <2>1. m \in possible
    BY <1>5, <1>6, <1>9
  <2>. QED BY <1>4, <2>1
<1> HIDE DEF possible
<1>10. n \in Nat /\ Most(r, f, data, n, at)
  BY <1>1, <1>7, <1>8, <1>9 DEF Most
<1>11. /\ inodes' = IF ~Writes(r) THEN inodes ELSE [inodes EXCEPT ![i].data = Stored(r, data, at, n)]
       /\ fds' = [fds EXCEPT ![r] = IF OneShot(r) THEN Without(fds[r], f) ELSE Sought(fds[r], f, at + n)]
  BY <1>3, <1>5, <1>6
<1>12. Return(r, n = lSize[r], IF Writes(r) THEN << >> ELSE [k \in 1 .. n |-> ByteAt(data, at + k - 1)])
  <2>1. PICK bytes : bytes = IF writes THEN << >> ELSE [k \in 1 .. n |-> ByteAt(bytesNow, start + k - 1)]
    OBVIOUS
  <2>2. bytes = IF Writes(r) THEN << >> ELSE [k \in 1 .. n |-> ByteAt(data, at + k - 1)]
    BY <1>5, <1>6, <2>1
  <2>. QED BY <1>3, <2>1, <2>2
<1>. QED BY <1>10, <1>11, <1>12 DEF MovedAll

\* Where the file pointer is after a transfer: one-shot statements leave the variable's.
LEMMA PointerMoved ==
  ASSUME TypeInv, NEW r \in Ranks, HasOwnFile(r), Pointer(r), ip[r] \in DOMAIN program.stmts[r],
         pc[r] = "transfer", NEW f, f = fd[r], NEW n \in Nat, NEW at \in Nat,
         fds' = [fds EXCEPT ![r] = IF OneShot(r) THEN Without(fds[r], f) ELSE Sought(fds[r], f, at + n)],
         var' = var, pc'[r] = "begin",
         Before(r)'.pos = IF OneShot(r) THEN Before(r).pos ELSE at + n
  PROVE  Pointer(r)'
<1>1. SUFFICES ASSUME var[r] # None
               PROVE  /\ fds'[r][var[r]].flags \in {ModeFlags("r+"), ModeFlags("w+")}
                      /\ fds'[r][var[r]].pos = Before(r)'.pos
  BY DEF Pointer
<1>2. PICK before : before = fds[r]
  OBVIOUS
<1>3. PICK v : v = var[r]
  OBVIOUS
<1>4. IsTable(before) /\ f \in DOMAIN before
  BY <1>2 DEF TypeInv, RankInv, AtStatement
<1>5. /\ before[v].flags \in {ModeFlags("r+"), ModeFlags("w+")}
      /\ OneShot(r) => before[v].pos = Before(r).pos
  BY <1>1, <1>2, <1>3 DEF Pointer
<1>6. CASE OneShot(r)
  <2>1. v \in DOMAIN before /\ v # f
    BY <1>1, <1>2, <1>3, <1>6, OwnKnown DEF Kept
  <2>2. Without(before, f)[v] = before[v]
    <3>1. \A m \in DOMAIN before : m # f => Without(before, f)[m] = before[m]
      <4>1. IsTable(before)
        BY <1>4
      <4>. QED BY ONLY <4>1, WithoutTable
    <3>. QED BY <2>1, <3>1
  <2>3. fds'[r] = Without(before, f)
    BY <1>2, <1>6 DEF TypeInv, Types, RankTypes
  <2>. QED BY <1>3, <1>5, <1>6, <2>2, <2>3
<1>7. CASE ~OneShot(r)
  <2>1. PICK pos \in Nat : pos = at + n
    OBVIOUS
  <2>2. f = v
    BY <1>3, <1>7 DEF TypeInv, RankInv, AtStatement
  <2>3. fds'[r] = Sought(before, f, pos)
    BY <1>2, <1>7, <2>1 DEF TypeInv, Types, RankTypes
  <2>4. Sought(before, f, pos)[f].pos = pos /\ Sought(before, f, pos)[f].flags = before[f].flags
    BY <1>4, SoughtTable, SoughtAt
  <2>. QED BY <1>3, <1>5, <1>7, <2>1, <2>2, <2>3, <2>4
<1>. QED BY <1>6, <1>7

LEMMA TransferAlone ==
  ASSUME TypeInv, NEW r \in Ranks, HasOwnFile(r), AloneInv(r), Transfer(r)
  PROVE  AloneInv(r)'
<1>1. /\ Step(r) /\ ip[r] \in DOMAIN program.stmts[r] /\ Types /\ RankInv(r)
      /\ OwnFile(r) /\ Pointer(r) /\ Underway(r) /\ Answers(r)
  BY RankStep, StepsGo DEF TypeInv, AloneInv
<1>2. PICK f : f = fd[r]
  OBVIOUS
<1>3. PICK i : i = fds[r][f].inode
  OBVIOUS
<1>4. PICK data : data = inodes[i].data
  OBVIOUS
<1>5. /\ pc[r] = "transfer" /\ f \in DOMAIN fds[r] /\ fds[r][f] \in Files
      /\ IsFile(i) /\ data \in Datas /\ lSize[r] \in Nat
      /\ program' = program /\ dir' = dir /\ var' = var
  BY <1>1, <1>2, <1>3, <1>4, Transferred
<1>6. PICK s : s = Stmt(r)
  OBVIOUS
<1>7. PICK old \in Refs : old = Before(r)
  BY <1>1, OwnKnown
<1>8. PICK p \in Paths : p = Own(r)
  BY <1>1, OwnKnown
<1>9. ~program.faulty /\ ip[r] \in Nat /\ old.data \in Seq(Bytes) /\ old.pos \in Nat
  BY <1>1, <1>7, OwnKnown DEF Refs
<1>10. PICK size \in Nat : size = lSize[r]
  BY <1>5
<1>11. PICK n, at \in Nat : MovedAll(r, f, i, data, n, at)
  BY <1>1, <1>2, <1>3, <1>4, <1>9, TransferredAll
<1>12. size > 0 /\ size = AmountOf(s, old)
  BY <1>1, <1>5, <1>6, <1>7, <1>10 DEF Underway, RankInv, AtStatement
<1>13. /\ Op(r) \in {"write", "append", "read", "fread", "fwrite"} /\ s.op = Op(r)
       /\ ~OneShot(r) => f = var[r] /\ var[r] # None
  BY <1>1, <1>2, <1>5, <1>6 DEF RankInv, AtStatement, OneShot, Op, None
<1>14. PICK flags : flags = fds[r][f].flags
  OBVIOUS
<1>15. /\ Op(r) \in {"write", "append", "fwrite"} => flags.write /\ (flags.append <=> Op(r) = "append")
       /\ Op(r) \in {"read", "fread"} => flags.read
  <2>1. CASE OneShot(r)
    <3>1. flags = OpenFlags(Stmt(r))
      BY <1>1, <1>2, <1>5, <1>14, <2>1 DEF Underway
    <3>. QED BY <2>1, <3>1 DEF OpenFlags, ModeFlags, Flags, Op, OneShot
  <2>2. CASE ~OneShot(r)
    <3>1. flags \in {ModeFlags("r+"), ModeFlags("w+")}
      BY <1>1, <1>13, <1>14, <2>2 DEF Pointer
    <3>. QED BY <2>2, <3>1 DEF ModeFlags, Flags, OneShot
  <2>. QED BY <2>1, <2>2
<1>16. i = dir[p] /\ dir[p] # None
  BY <1>1, <1>3, <1>5, <1>8, OwnFirst DEF OwnFile
<1>17. PICK now \in Seq(Bytes) : now = IF Op(r) = "write" THEN << >> ELSE old.data
  <2>1. << >> \in Seq(Bytes)
    OBVIOUS
  <2>. QED BY <1>9, <2>1
<1>18. Contents(r) = now /\ Holds(data, now)
  BY <1>1, <1>4, <1>5, <1>7, <1>8, <1>16, <1>17 DEF OwnFile, Contents
<1>19. /\ at = IF Writes(r) /\ flags.append THEN Eof(data) ELSE fds[r][f].pos
       /\ n <= size
       /\ n > 0 => IF Writes(r) THEN flags.write ELSE flags.read /\ at + n <= Eof(data)
       /\ \A m \in 0 .. size :
            (m > 0 => IF Writes(r) THEN flags.write ELSE flags.read /\ at + m <= Eof(data)) => m <= n
  BY <1>10, <1>11, <1>14 DEF MovedAll, Most
<1>20. at = IF Op(r) = "append" THEN Len(old.data) ELSE StartOf(s, old)
  <2>1. CASE Op(r) = "append"
    BY <1>15, <1>17, <1>18, <1>19, <2>1 DEF Writes, Holds
  <2>2. CASE Op(r) # "append"
    <3>1. at = fds[r][f].pos
      BY <1>13, <1>15, <1>19, <2>2 DEF Writes
    <3>. QED BY <1>1, <1>2, <1>5, <1>6, <1>7, <2>2, <3>1 DEF Underway
  <2>. QED BY <2>1, <2>2
<1>21. CASE Op(r) \in {"write", "append", "fwrite"}
  <2>1. Writes(r) /\ n = size
    BY <1>15, <1>19, <1>21 DEF Writes
  <2>2. PICK k \in Nat : k = ip[r]
    BY <1>9
  <2>3. PICK bytes \in Seq(Bytes) : bytes = Written(r, k, n)
    BY WrittenKnown
  <2>4. Len(bytes) = n /\ \A j \in 1 .. n : bytes[j] = [writer |-> r, stmt |-> ip[r], at |-> j - 1]
    <3>1. Len(bytes) = n /\ \A j \in 1 .. n : bytes[j] = [writer |-> r, stmt |-> k, at |-> j - 1]
      BY <2>3, WrittenKnown
    <3>. QED BY <2>2, <3>1
  <2>5. PICK stored : stored = Stored(r, data, at, n)
    OBVIOUS
  <2>6. PICK after : after = Put(now, at, bytes)
    OBVIOUS
  <2>7. Holds(stored, after)
    BY <1>5, <1>9, <1>12, <1>18, <2>1, <2>4, <2>5, <2>6, HoldsStored
  <2>8. PICK m : m = IF OneShot(r) THEN old.pos ELSE at + n
    OBVIOUS
  <2>9. PICK yes \in BOOLEAN : yes = TRUE
    OBVIOUS
  <2>10. PICK none : none = << >>
    OBVIOUS
  <2>11. AfterOne(r, k, s, old) = [data |-> after, pos |-> m, success |-> yes, read |-> none]
    <3>1. AmountOf(s, old) = n /\ n # 0 /\ (n > 0) = TRUE
      BY <1>12, <2>1
    <3>2. CASE Op(r) = "write"
      <4>1. after = Put(<< >>, StartOf(s, old), bytes) /\ m = old.pos
        BY <1>17, <1>20, <2>6, <2>8, <3>2 DEF OneShot
      <4>2. PICK put : put = Put(<< >>, StartOf(s, old), bytes)
        OBVIOUS
      <4>3. AfterOne(r, k, s, old) = [data |-> put, pos |-> old.pos, success |-> n > 0, read |-> << >>]
        BY <1>13, <2>3, <3>1, <3>2, <4>2 DEF AfterOne
      <4>. QED BY <2>9, <2>10, <3>1, <4>1, <4>2, <4>3
    <3>3. CASE Op(r) = "append"
      <4>1. after = old.data \o bytes /\ m = old.pos
        BY <1>9, <1>17, <1>20, <2>6, <2>8, <3>3, PutAtEnd DEF OneShot
      <4>2. PICK joined : joined = old.data \o bytes
        OBVIOUS
      <4>3. AfterOne(r, k, s, old) = [data |-> joined, pos |-> old.pos, success |-> n > 0, read |-> << >>]
        BY <1>13, <2>3, <3>1, <3>3, <4>2 DEF AfterOne
      <4>. QED BY <2>9, <2>10, <3>1, <4>1, <4>2, <4>3
    <3>4. CASE Op(r) = "fwrite"
      <4>1. after = Put(old.data, StartOf(s, old), bytes) /\ m = StartOf(s, old) + n
        BY <1>17, <1>20, <2>6, <2>8, <3>4 DEF OneShot
      <4>. QED BY <1>13, <2>3, <2>9, <2>10, <3>1, <3>4, <4>1 DEF AfterOne
    <3>. QED BY <1>21, <3>2, <3>3, <3>4
  <2>12. Return(r, yes, none)
    <3>1. (n = lSize[r]) = yes
      BY <1>10, <2>1, <2>9
    <3>. QED BY <1>11, <2>1, <2>10, <3>1 DEF MovedAll
  <2>13. AfterOne(r, ip[r], Stmt(r), Before(r)) =
           [data |-> after, pos |-> m, success |-> yes, read |-> none]
    BY <1>6, <1>7, <2>2, <2>11
  <2>14. /\ Answers(r)' /\ Underway(r)' /\ pc'[r] = "begin"
         /\ Contents(r)' = after /\ Before(r)'.pos = m
    BY <1>1, <1>5, <2>12, <2>13, Over
  <2>15. Pointer(r)'
    BY <1>1, <1>2, <1>5, <1>7, <1>11, <2>8, <2>14, PointerMoved DEF MovedAll
  <2>16. OwnFile(r)'
    <3>1. stored \in Datas
      BY <1>5, <1>9, <2>5, StoredData
    <3>2. inodes' = [inodes EXCEPT ![i].data = stored] /\ FileTypes
      BY <1>1, <1>11, <2>1, <2>5 DEF Types, MovedAll
    <3>3. dir' \in [Paths -> Nat] /\ \A q \in Paths : dir'[q] <= Len(inodes)
      BY <1>5, <3>2 DEF FileTypes
    <3>4. inodes'[i].data = stored /\ FilesStay
      BY <1>5, <3>1, <3>2, <3>3, DataReplaced
    <3>5. IsFile(dir[p])'
      BY <1>5, <1>16, <3>4 DEF IsFile, FilesStay
    <3>. QED BY <1>1, <1>5, <1>8, <1>16, <2>7, <2>14, <3>4, <3>5, OwnNames
  <2>. QED BY <2>14, <2>15, <2>16 DEF AloneInv
<1>22. CASE Op(r) \in {"read", "fread"}
  <2>1. ~Writes(r) /\ now = old.data /\ at = StartOf(s, old) /\ Eof(data) = Len(now)
    BY <1>17, <1>18, <1>20, <1>22 DEF Writes, Holds
  <2>2. PICK got : got = Get(now, at, size)
    OBVIOUS
  <2>3. /\ Len(got) \in 0 .. size /\ got \in Seq(Bytes)
        /\ Len(got) > 0 => at + Len(got) <= Len(now)
        /\ \A m \in 0 .. size : (m > 0 => at + m <= Len(now)) => m <= Len(got)
        /\ \A j \in 1 .. Len(got) : got[j] = now[at + j]
    BY <2>2, GetKnown
  <2>4. Len(got) = n
    <3>1. n <= Len(got)
      BY <1>19, <2>1, <2>3
    <3>2. Len(got) <= n
      BY <1>15, <1>19, <1>22, <2>1, <2>3
    <3>. QED BY <2>3, <3>1, <3>2
  <2>5. [j \in 1 .. n |-> ByteAt(data, at + j - 1)] = got
    <3>1. ASSUME NEW j \in 1 .. n
          PROVE  ByteAt(data, at + j - 1) = got[j]
      <4>1. PICK b \in 0 .. Len(now) - 1 : b = at + j - 1
        BY <1>17, <2>3, <2>4
      <4>2. ByteAt(data, b) = now[b + 1] /\ b + 1 = at + j
        BY <1>18, <4>1 DEF Holds
      <4>. QED BY <2>3, <2>4, <4>1, <4>2
    <3>2. got = [j \in 1 .. n |-> got[j]]
      BY <2>3, <2>4
    <3>. QED BY <3>1, <3>2
  <2>6. PICK success \in BOOLEAN : success = (n = size)
    OBVIOUS
  <2>7. Return(r, success, got)
    BY <1>10, <1>11, <2>1, <2>5, <2>6 DEF MovedAll
  <2>8. PICK m : m = IF OneShot(r) THEN old.pos ELSE at + n
    OBVIOUS
  <2>9. AfterOne(r, ip[r], s, old) = [data |-> now, pos |-> m, success |-> success, read |-> got]
    <3>1. (size > 0 /\ Len(got) = size) = success
      BY <1>12, <2>4, <2>6
    <3>2. got = Get(old.data, StartOf(s, old), AmountOf(s, old)) /\ AmountOf(s, old) = size
      BY <1>12, <2>1, <2>2
    <3>3. CASE Op(r) = "read"
      <4>1. m = old.pos
        BY <2>8, <3>3 DEF OneShot
      <4>. QED BY <1>13, <2>1, <3>1, <3>2, <3>3, <4>1 DEF AfterOne
    <3>4. CASE Op(r) = "fread"
      <4>1. m = StartOf(s, old) + Len(got)
        BY <2>1, <2>4, <2>8, <3>4 DEF OneShot
      <4>. QED BY <1>13, <2>1, <3>1, <3>2, <3>4, <4>1 DEF AfterOne
    <3>. QED BY <1>22, <3>3, <3>4
  <2>10. AfterOne(r, ip[r], Stmt(r), Before(r)) =
           [data |-> now, pos |-> m, success |-> success, read |-> got]
    BY <1>6, <1>7, <2>9
  <2>11. /\ Answers(r)' /\ Underway(r)' /\ pc'[r] = "begin"
         /\ Contents(r)' = now /\ Before(r)'.pos = m
    BY <1>1, <1>5, <2>7, <2>10, Over
  <2>12. Pointer(r)'
    BY <1>1, <1>2, <1>5, <1>7, <1>11, <2>8, <2>11, PointerMoved DEF MovedAll
  <2>13. OwnFile(r)'
    BY <1>1, <1>5, <1>11, <1>18, <2>1, <2>11, OwnFileStays DEF MovedAll
  <2>. QED BY <2>11, <2>12, <2>13 DEF AloneInv
<1>. QED BY <1>13, <1>21, <1>22

LEMMA HandleErrorAlone ==
  ASSUME NEW r \in Ranks, HasOwnFile(r), AloneInv(r),
         UNCHANGED << program, dir, inodes, fds, var, ip, pc, fd, lSize, result >>
  PROVE  AloneInv(r)'
<1>1. RankSame(r)
  BY DEF RankSame
<1>2. Own(r)' = Own(r) /\ Contents(r)' = Contents(r) /\ Pointer(r)' /\ Underway(r)' /\ Answers(r)'
  BY <1>1, OwnSame DEF AloneInv
<1>3. OwnFile(r)'
  BY <1>2 DEF AloneInv, OwnFile, OneName, IsFile
<1>. QED BY <1>2, <1>3 DEF AloneInv

LEMMA AloneInit ==
  ASSUME Init
  PROVE  AllAlone
<1>1. SUFFICES ASSUME NEW r \in Ranks, HasOwnFile(r)
               PROVE  AloneInv(r)
  BY DEF AllAlone
<1>2. /\ dir = [p \in Paths |-> None] /\ fds[r] = << >> /\ var[r] = None /\ ip[r] = 1
      /\ pc[r] = "begin" /\ result[r] = << >> /\ program \in Programs /\ \A q \in Ranks : fds[q] = << >>
  BY DEF Init
<1>3. Own(r) \in Paths
  <2>1. program.stmts[r] \in Seq(Statements) /\ program.stmts[r] # << >>
    BY <1>1, <1>2, ProgramTyped DEF HasOwnFile
  <2>2. 1 \in DOMAIN program.stmts[r]
    BY <2>1
  <2>. QED BY <1>1, <1>2, <2>2, OwnStmt
<1>4. dir[Own(r)] = None
  BY <1>2, <1>3
<1>5. OwnFile(r)
  BY <1>2, <1>4 DEF OwnFile, OneName
<1>6. Pointer(r) /\ Underway(r)
  BY <1>2 DEF Pointer, Underway
<1>7. Answers(r)
  BY <1>2 DEF Answers
<1>. QED BY <1>5, <1>6, <1>7 DEF AloneInv

LEMMA AloneNext ==
  ASSUME TypeInv, AllAlone, [Next]_vars
  PROVE  AllAlone'
<1>1. CASE UNCHANGED << program, dir, inodes, fds, var, ip, pc, fd, lSize, result >>
  <2>1. SUFFICES ASSUME NEW r \in Ranks, HasOwnFile(r)'
                 PROVE  AloneInv(r)'
    BY DEF AllAlone
  <2>2. HasOwnFile(r)
    BY <1>1, <2>1 DEF HasOwnFile
  <2>3. AloneInv(r)
    BY <2>2 DEF AllAlone
  <2>. QED BY <1>1, <2>2, <2>3, HandleErrorAlone
<1>2. ASSUME NEW q \in Ranks,
             \/ OpenFile(q) \/ HandleError(q) \/ HandleTransfer(q) \/ Measure(q) \/ MeasureFails(q)
             \/ SeekOrSync(q) \/ FClose(q) \/ Transfer(q) \/ PathStatement(q)
      PROVE  AllAlone'
  <2>1. Step(q) /\ program' = program
    BY <1>2, RankStep DEF Step
  <2>2. SUFFICES ASSUME NEW r \in Ranks, HasOwnFile(r)'
                 PROVE  AloneInv(r)'
    BY DEF AllAlone
  <2>3. HasOwnFile(r)
    BY <2>1, <2>2 DEF HasOwnFile
  <2>4. AloneInv(r)
    BY <2>3 DEF AllAlone
  <2>5. CASE r # q
    BY <1>2, <2>1, <2>3, <2>4, <2>5, OthersKeepOff
  <2>6. CASE r = q
    <3>1. CASE HandleError(r)
      BY <2>3, <2>4, <3>1, HandleErrorAlone DEF HandleError
    <3>2. ~MeasureFails(r)
      BY <2>3 DEF MeasureFails, HasOwnFile
    <3>. QED BY <1>2, <2>3, <2>4, <2>6, <3>1, <3>2, OpenFileAlone, HandleTransferAlone, MeasureAlone,
                SeekOrSyncAlone, FCloseAlone, TransferAlone, PathStatementAlone
  <2>. QED BY <2>5, <2>6
<1>. QED BY <1>1, <1>2 DEF Next, Terminated, vars

\* Whatever the others do between its system calls, a rank with a file of its own gets what
\* it would get alone, for any number of ranks, paths and statements.
THEOREM LikeAlone == Spec => []AsIfAlone
<1>1. Init => AllAlone
  BY AloneInit
<1>2. TypeInv /\ AllAlone /\ [Next]_vars => AllAlone'
  BY AloneNext
<1>3. AllAlone => AsIfAlone
  BY DEF AllAlone, AloneInv, Answers, AsIfAlone, Reference
<1>. QED BY <1>1, <1>2, <1>3, TypeInvAlways, PTL DEF Spec

===============================================================================
