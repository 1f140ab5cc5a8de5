--------------------------- MODULE ParallelIOProofs ---------------------------
(***************************************************************************)
(* Proofs about parallel I/O for every number of ranks and every program:  *)
(* type correctness, that all levels and types lay out a file in the same  *)
(* stripes, that no rank overwrites what another wrote in the same         *)
(* statement, and that what was written is kept and read back.             *)
(***************************************************************************)
EXTENDS ParallelIO, FiniteSetTheorems, SequenceTheorems, TLAPS

-------------------------------------------------------------------------------
(* Division and remainder.                                                       *)

LEMMA MulNat ==
  ASSUME NEW a \in Nat, NEW b \in Nat
  PROVE  a * b \in Nat
BY SMT

LEMMA MulMono ==
  ASSUME NEW a \in Int, NEW b \in Int, NEW d \in Nat, a <= b
  PROVE  a * d <= b * d
BY SMT

LEMMA DivMod ==
  ASSUME NEW q \in Nat, NEW d \in Nat \ {0}, NEW m \in 0 .. d - 1
  PROVE  (q * d + m) \div d = q /\ (q * d + m) % d = m
BY SMT

LEMMA DivModOf ==
  ASSUME NEW v \in Nat, NEW d \in Nat \ {0}
  PROVE  /\ v \div d \in Nat /\ (v % d) \in 0 .. d - 1
         /\ v = (v \div d) * d + (v % d)
BY SMT

LEMMA DivBelow ==
  ASSUME NEW v \in Nat, NEW n \in Nat, NEW d \in Nat \ {0}, v < n * d
  PROVE  (v \div d) \in 0 .. n - 1
<1>1. PICK q \in Nat, m \in 0 .. d - 1 : q = v \div d /\ v = q * d + m
  BY DivModOf
<1>2. SUFFICES q < n
  BY <1>1
<1>3. SUFFICES ASSUME n <= q PROVE FALSE
  BY <1>1
<1>4. n * d <= q * d
  BY <1>1, <1>3, MulMono
<1>. QED BY <1>1, <1>4, MulNat

LEMMA RowBelow ==
  ASSUME NEW q \in Nat, NEW n \in Nat, q < n, NEW d \in Nat, NEW m \in Nat, m < d
  PROVE  q * d + m < n * d
<1>1. (q + 1) * d <= n * d
  BY MulMono
<1>2. (q + 1) * d = q * d + d
  BY SMT
<1>3. q * d \in Nat /\ n * d \in Nat
  BY MulNat
<1>. QED BY <1>1, <1>2, <1>3

\* Byte m of element c of row q is at b, if rows have G elements of e bytes.
At(b, q, G, c, e, m) ==
  /\ b \in Nat
  /\ (b \div e) % G = c
  /\ b \div (e * G) = q
  /\ b % e = m

LEMMA RowColumn ==
  ASSUME NEW q \in Nat, NEW G \in Nat \ {0}, NEW c \in 0 .. G - 1,
         NEW e \in Nat \ {0}, NEW m \in 0 .. e - 1
  PROVE  \A b : b = (q * G + c) * e + m => At(b, q, G, c, e, m)
<1>. DEFINE b == (q * G + c) * e + m
<1>1. q * G + c \in Nat /\ q * G \in Nat
  BY MulNat
<1>2. b \div e = q * G + c /\ b % e = m
  BY <1>1, DivMod
<1>3. b \in Nat
  BY <1>1, MulNat
<1>4. (q * G + c) % G = c
  BY DivMod
<1>5. b \div (e * G) = q
  <2>1. e * G \in Nat /\ e * G # 0
    BY SMT
  <2>2. c * e + m < G * e
    BY RowBelow
  <2>3. c * e + m \in Nat /\ G * e = e * G
    BY MulNat
  <2>4. b = q * (e * G) + (c * e + m)
    <3>1. (q * G + c) * e = (q * G) * e + c * e
      BY <1>1, SMT
    <3>2. (q * G) * e = q * (e * G)
      BY SMT
    <3>3. (q * G) * e \in Nat /\ c * e \in Nat
      BY <1>1, MulNat
    <3>. QED BY <3>1, <3>2, <3>3
  <2>5. PICK d \in Nat : d = e * G
    BY <2>1
  <2>6. PICK n \in Nat : n = c * e + m
    BY <2>3
  <2>7. n \in 0 .. d - 1 /\ d \in Nat \ {0} /\ b = q * d + n
    BY <2>1, <2>2, <2>3, <2>4, <2>5, <2>6
  <2>. QED BY <2>5, <2>7, DivMod
<1>. QED BY <1>2, <1>3, <1>4, <1>5 DEF At

-------------------------------------------------------------------------------
(* The layout of a pattern.                                                      *)

LEMMA PatternTypes ==
  ASSUME NEW p \in Patterns
  PROVE  /\ p.type \in {1, 2} /\ p.iter \in Nat /\ p.elem \in Nat /\ p.level \in Nat
         /\ IsFiniteSet(p.group) /\ p.group \subseteq Nat /\ GroupSize(p) \in Nat \ {0}
         /\ Total(p) \in Nat /\ Calls(p) \in Nat /\ CallBytes(p) \in Nat
         /\ Calls(p) * CallBytes(p) = Total(p)
<1>1. /\ p.type \in {1, 2} /\ p.iter \in Nat /\ p.elem \in Nat /\ p.level \in Nat
      /\ p.group \subseteq Nat /\ IsFiniteSet(p.group) /\ p.group # {}
  BY DEF Patterns
<1>2. GroupSize(p) \in Nat /\ GroupSize(p) # 0
  BY <1>1, FS_CardinalityType, FS_EmptySet DEF GroupSize
<1>3. Total(p) \in Nat
  BY <1>1, MulNat DEF Total
<1>4. Calls(p) \in Nat /\ CallBytes(p) \in Nat
  BY <1>1, <1>3 DEF Calls, CallBytes
<1>5. Calls(p) * CallBytes(p) = Total(p)
  BY <1>1, <1>3 DEF Calls, CallBytes, Total
<1>. QED BY <1>1, <1>2, <1>3, <1>4, <1>5

\* Those in front of a rank in the group.
Front(p, r) == {q \in p.group : q < r}

LEMMA ColumnTypes ==
  ASSUME NEW p \in Patterns, NEW r
  PROVE  Column(p, r) \in 0 .. GroupSize(p) - 1
<1>1. IsFiniteSet(p.group) /\ GroupSize(p) \in Nat \ {0} /\ p.group \subseteq Nat
  BY PatternTypes
<1>2. CASE r \in p.group
  <2>1. Front(p, r) \in SUBSET p.group /\ r \notin Front(p, r)
    BY <1>1, <1>2 DEF Front
  <2>2. /\ IsFiniteSet(Front(p, r)) /\ Cardinality(Front(p, r)) <= GroupSize(p)
        /\ GroupSize(p) = Cardinality(Front(p, r)) => p.group = Front(p, r)
    BY <1>1, <2>1, FS_Subset DEF GroupSize
  <2>3. Cardinality(Front(p, r)) \in Nat
    BY <2>2, FS_CardinalityType
  <2>. QED BY <1>1, <1>2, <2>1, <2>2, <2>3 DEF Column, Front
<1>3. CASE r \notin p.group
  BY <1>1, <1>3 DEF Column
<1>. QED BY <1>2, <1>3

LEMMA ColumnsDiffer ==
  ASSUME NEW p \in Patterns, NEW r \in p.group, NEW q \in p.group, Column(p, r) = Column(p, q)
  PROVE  r = q
<1>1. IsFiniteSet(p.group) /\ r \in Nat /\ q \in Nat
  BY PatternTypes
<1>2. ASSUME NEW a \in p.group, NEW b \in p.group, a < b
      PROVE  Column(p, a) < Column(p, b)
  <2>1. /\ Front(p, a) \in SUBSET Front(p, b) /\ Front(p, b) \in SUBSET p.group
        /\ a \in Front(p, b) /\ a \notin Front(p, a)
    BY <1>2, PatternTypes DEF Front
  <2>2. IsFiniteSet(Front(p, b))
    BY <1>1, <2>1, FS_Subset
  <2>3. /\ IsFiniteSet(Front(p, a)) /\ Cardinality(Front(p, a)) <= Cardinality(Front(p, b))
        /\ Cardinality(Front(p, b)) = Cardinality(Front(p, a)) => Front(p, b) = Front(p, a)
    BY <2>1, <2>2, FS_Subset
  <2>4. Cardinality(Front(p, a)) \in Nat /\ Cardinality(Front(p, b)) \in Nat
    BY <2>2, <2>3, FS_CardinalityType
  <2>5. Cardinality(Front(p, a)) < Cardinality(Front(p, b))
    BY <2>1, <2>3, <2>4
  <2>. QED BY <2>5 DEF Column, Front
<1>3. Column(p, r) \in Int
  BY ColumnTypes
<1>. QED BY <1>1, <1>2, <1>3

LEMMA ColumnsTaken ==
  ASSUME NEW p \in Patterns, NEW c \in 0 .. GroupSize(p) - 1
  PROVE  \E r \in p.group : Column(p, r) = c
<1>1. IsFiniteSet(p.group) /\ GroupSize(p) \in Nat \ {0}
  BY PatternTypes
<1>. DEFINE columns == 0 .. GroupSize(p) - 1
            f == [r \in p.group |-> Column(p, r)]
<1>2. IsFiniteSet(columns) /\ Cardinality(columns) = GroupSize(p)
  BY <1>1, FS_Interval
<1>3. f \in [p.group -> columns]
  BY ColumnTypes
<1>4. \A r, q \in p.group : f[r] = f[q] => r = q
  BY ColumnsDiffer
<1>5. f \in Injection(p.group, columns)
  BY <1>3, <1>4 DEF Injection, IsInjective
<1>6. f \in Surjection(p.group, columns)
  <2>. HIDE DEF f, columns
  <2>. QED BY <1>1, <1>2, <1>5, FS_Injection DEF GroupSize
<1>7. \A d \in columns : \E r \in p.group : f[r] = d
  <2>. HIDE DEF f, columns
  <2>. QED BY <1>6 DEF Surjection
<1>. QED BY <1>7

\* Within a statement both types have the same rows of elements.
LEMMA OffsetInRows ==
  ASSUME NEW p \in Patterns, NEW r, NEW v \in 0 .. Total(p) - 1
  PROVE  /\ p.elem \in Nat \ {0} /\ p.iter \in Nat \ {0}
         /\ v \div p.elem \in 0 .. p.iter - 1 /\ v % p.elem \in 0 .. p.elem - 1
         /\ v = (v \div p.elem) * p.elem + (v % p.elem)
         /\ Offset(p, r, v) = ((v \div p.elem) * GroupSize(p) + Column(p, r)) * p.elem + (v % p.elem)
<1>1. /\ p.type \in {1, 2} /\ p.iter \in Nat /\ p.elem \in Nat /\ Total(p) = p.iter * p.elem
      /\ GroupSize(p) \in Nat /\ Column(p, r) \in Nat
  BY PatternTypes, ColumnTypes DEF Total
<1>2. p.elem # 0 /\ p.iter # 0
  BY <1>1
<1>3. PICK e \in Nat \ {0}, n \in Nat \ {0} : e = p.elem /\ n = p.iter
  BY <1>1, <1>2
<1>4. v \in Nat /\ v < n * e /\ n * e \in Nat \ {0}
  BY <1>1, <1>3, MulNat
<1>5. v \div e \in 0 .. n - 1
  BY <1>4, DivBelow
<1>6. PICK row \in Nat, m \in 0 .. e - 1 : row = v \div e /\ m = v % e /\ v = row * e + m
  BY <1>4, DivModOf
<1>7. PICK G \in Nat, c \in Nat : G = GroupSize(p) /\ c = Column(p, r)
  BY <1>1
<1>8. (row * G + c) * e + m = row * G * e + c * e + m
  BY SMT
<1>9. CASE p.type = 1
  BY <1>3, <1>4, <1>5, <1>6, <1>7, <1>8, <1>9 DEF Offset, View1
<1>10. CASE p.type = 2
  <2>1. v \div (n * e) = 0 /\ v % (n * e) = v
    BY <1>4, SMT
  <2>2. Offset(p, r, v) = 0 * n * G * e + row * G * e + c * e + m
    BY <1>3, <1>6, <1>7, <1>10, <2>1 DEF Offset, View2
  <2>. QED BY <1>3, <1>4, <1>5, <1>6, <1>7, <1>8, <2>2
<1>. QED BY <1>1, <1>9, <1>10

LEMMA OffsetPlace ==
  ASSUME NEW p \in Patterns, NEW r, NEW v \in 0 .. Total(p) - 1, NEW b, b = Offset(p, r, v)
  PROVE  /\ b \in Nat
         /\ (b \div p.elem) % GroupSize(p) = Column(p, r)
         /\ v = (b \div (p.elem * GroupSize(p))) * p.elem + (b % p.elem)
<1>1. /\ p.elem \in Nat \ {0} /\ GroupSize(p) \in Nat \ {0} /\ v \div p.elem \in Nat
      /\ Column(p, r) \in 0 .. GroupSize(p) - 1
      /\ v % p.elem \in 0 .. p.elem - 1
      /\ v = (v \div p.elem) * p.elem + (v % p.elem)
      /\ b = ((v \div p.elem) * GroupSize(p) + Column(p, r)) * p.elem + (v % p.elem)
  BY OffsetInRows, PatternTypes, ColumnTypes
<1>2. PICK e \in Nat \ {0}, G \in Nat \ {0}, c \in Nat : e = p.elem /\ G = GroupSize(p) /\ c = Column(p, r)
  BY <1>1
<1>3. PICK q \in Nat, m \in 0 .. e - 1 : q = v \div p.elem /\ m = v % p.elem
  BY <1>1, <1>2
<1>4. b = (q * G + c) * e + m /\ v = q * e + m
  BY <1>1, <1>2, <1>3, Zenon
<1>5. c \in 0 .. G - 1
  BY <1>2, ColumnTypes
<1>6. At(b, q, G, c, e, m)
  BY <1>4, <1>5, RowColumn
<1>. QED BY <1>2, <1>4, <1>6, Zenon DEF At

\* Members of the group have no offset in common, and none has one twice.
LEMMA OffsetsDiffer ==
  ASSUME NEW p \in Patterns, NEW r \in p.group, NEW q \in p.group,
         NEW v \in 0 .. Total(p) - 1, NEW u \in 0 .. Total(p) - 1, Offset(p, r, v) = Offset(p, q, u)
  PROVE  r = q /\ v = u
<1>1. Column(p, r) = Column(p, q) /\ v = u
  BY OffsetPlace
<1>. QED BY <1>1, ColumnsDiffer

\* Together they have all offsets of the rows.
LEMMA OffsetsTaken ==
  ASSUME NEW p \in Patterns, NEW b \in 0 .. GroupSize(p) * Total(p) - 1
  PROVE  \E r \in p.group, v \in 0 .. Total(p) - 1 : Offset(p, r, v) = b
<1>1. /\ p.iter \in Nat /\ p.elem \in Nat /\ GroupSize(p) \in Nat \ {0} /\ Total(p) = p.iter * p.elem
      /\ Total(p) \in Nat /\ b \in Nat
  BY PatternTypes DEF Total
<1>2. GroupSize(p) * Total(p) \in Nat /\ GroupSize(p) * Total(p) # 0
  BY <1>1, MulNat
<1>3. p.elem # 0
  <2>. SUFFICES ASSUME p.elem = 0 PROVE FALSE
    OBVIOUS
  <2>. QED BY <1>1, <1>2
<1>4. PICK e \in Nat \ {0}, n \in Nat, G \in Nat \ {0} : e = p.elem /\ n = p.iter /\ G = GroupSize(p)
  BY <1>1, <1>3
<1>5. G * (n * e) = (n * G) * e /\ n * G \in Nat
  BY SMT
<1>6. PICK k \in Nat, m \in 0 .. e - 1 : k = b \div e /\ b = k * e + m
  <2>1. /\ b \div e \in Nat /\ (b % e) \in 0 .. e - 1
        /\ b = (b \div e) * e + (b % e)
    BY <1>1, DivModOf
  <2>. QED BY <2>1
<1>7. k < n * G
  <2>1. b < (n * G) * e
    BY <1>1, <1>2, <1>4, <1>5
  <2>2. b \div e \in 0 .. (n * G) - 1
    BY <1>1, <1>5, <2>1, DivBelow
  <2>. QED BY <1>5, <1>6, <2>2
<1>8. PICK q \in Nat, c \in 0 .. G - 1 : q = k \div G /\ k = q * G + c
  BY DivModOf
<1>9. q < n
  <2>1. k \div G \in 0 .. n - 1
    BY <1>7, DivBelow
  <2>. QED BY <1>8, <2>1
<1>10. PICK r \in p.group : Column(p, r) = c
  BY <1>4, ColumnsTaken
<1>11. PICK v : v = q * e + m
  OBVIOUS
<1>12. v \in 0 .. Total(p) - 1
  <2>1. v < n * e
    BY <1>9, <1>11, RowBelow
  <2>2. q * e \in Nat
    BY MulNat
  <2>. QED BY <1>1, <1>4, <1>11, <2>1, <2>2
<1>13. v \div e = q /\ v % e = m
  BY <1>11, DivMod
<1>14. Offset(p, r, v) = (q * G + c) * e + m
  BY <1>4, <1>10, <1>12, <1>13, OffsetInRows
<1>. QED BY <1>6, <1>8, <1>12, <1>14

-------------------------------------------------------------------------------
(* Types, and where a rank is in its statement.                                  *)

Points == {"begin", "open", "view", "access", "close", "report"}
Handles == [{"own", "variable"} -> {"unset", "good", "uninitialized"}]
Bytes == [writer : Ranks \cup {-1}, stmt : Nat, at : Nat]
FileTypes == \A b \in DOMAIN file : b \in Nat /\ file[b] \in [writer : Ranks, stmt : Nat, at : Nat]
Results == [success : BOOLEAN, read : Seq(Bytes), sure : BOOLEAN]

RankTypes ==
  /\ ip \in [Ranks -> Nat] /\ pc \in [Ranks -> Points] /\ fh \in [Ranks -> Handles]
  /\ pos \in [Ranks -> Nat] /\ calls \in [Ranks -> Nat] /\ count \in [Ranks -> Nat]
  /\ buffer \in [Ranks -> Seq(Bytes)] /\ result \in [Ranks -> Seq(Results)]

Types ==
  /\ program \in Programs /\ job \in {"running", "aborted"} /\ exists \in BOOLEAN
  /\ FileTypes /\ RankTypes

Transfers(r) == Op(r) \in Writes \cup Reads
\* The calls made so far, and what they moved.
Amounts(r) ==
  /\ calls[r] <= Calls(Pattern(r)) /\ pos[r] = calls[r] * CallBytes(Pattern(r))
  /\ count[r] <= pos[r] /\ Len(buffer[r]) = IF Op(r) \in Reads THEN count[r] ELSE 0
\* The file of a pwrite or pread is open only within it.
OwnHandle(r) ==
  fh[r].own # "unset" => Op(r) \in OpensItself /\ pc[r] \in {"view", "access", "close"}

RankInv(r) ==
  /\ ip[r] \in 1 .. Len(program.stmts) + 1 /\ Len(result[r]) = ip[r] - 1
  /\ pc[r] # "begin" => ip[r] \in DOMAIN program.stmts
  /\ pc[r] \in {"begin", "open", "view"} =>
       pos[r] = 0 /\ calls[r] = 0 /\ count[r] = 0 /\ buffer[r] = << >>
  /\ pc[r] = "open" => Op(r) \in OpensItself \cup {"pfopen"}
  /\ pc[r] \in {"view", "access"} => Transfers(r)
  /\ pc[r] = "close" => Op(r) \in OpensItself \cup {"pfclose"}
  /\ pc[r] \in {"access", "close", "report"} /\ Transfers(r) => Amounts(r)
  /\ pc[r] \in {"close", "report"} /\ Transfers(r) => calls[r] = Calls(Pattern(r))
  /\ OwnHandle(r)

LEMMA StmtTyped ==
  ASSUME program \in Programs, NEW k \in DOMAIN program.stmts
  PROVE  /\ k \in Nat /\ DOMAIN program.stmts = 1 .. Len(program.stmts) /\ Len(program.stmts) \in Nat
         /\ StmtAt(k).op \in Ops /\ StmtAt(k).pattern \in Patterns
<1>1. PICK S : S = [op : Ops, pattern : Patterns]
  OBVIOUS
<1>2. program.stmts \in Seq(S)
  BY <1>1, ProgramsAssumption
<1>3. PICK s \in Seq(S) : s = program.stmts
  BY <1>2
<1>4. /\ s[k] \in S /\ k \in Nat
      /\ DOMAIN s = 1 .. Len(s) /\ Len(s) \in Nat
  BY <1>3
<1>5. s[k].op \in Ops /\ s[k].pattern \in Patterns
  BY <1>1, <1>4
<1>. QED BY <1>3, <1>4, <1>5 DEF StmtAt

LEMMA LengthTyped ==
  ASSUME program \in Programs
  PROVE  Len(program.stmts) \in Nat /\ DOMAIN program.stmts = 1 .. Len(program.stmts)
<1>1. program.stmts \in Seq([op : Ops, pattern : Patterns])
  BY ProgramsAssumption
<1>. QED BY <1>1

\* At a statement a rank has one.
LEMMA AtTyped ==
  ASSUME Types, NEW r \in Ranks, ip[r] \in DOMAIN program.stmts
  PROVE  /\ ip[r] \in Nat \ {0} /\ Stmt(r) = StmtAt(ip[r])
         /\ Op(r) = StmtAt(ip[r]).op /\ Op(r) \in Ops
         /\ Pattern(r) = StmtAt(ip[r]).pattern /\ Pattern(r) \in Patterns
<1>1. program \in Programs
  BY DEF Types
<1>2. PICK k \in DOMAIN program.stmts : k = ip[r]
  OBVIOUS
<1>3. /\ k \in Nat /\ Len(program.stmts) \in Nat /\ DOMAIN program.stmts = 1 .. Len(program.stmts)
      /\ StmtAt(k).op \in Ops /\ StmtAt(k).pattern \in Patterns
  BY <1>1, StmtTyped
<1>4. k # 0
  BY <1>3
<1>5. Stmt(r) = StmtAt(k)
  BY <1>2 DEF Stmt, StmtAt
<1>. QED BY <1>2, <1>3, <1>4, <1>5 DEF Op, Pattern

-------------------------------------------------------------------------------
(***************************************************************************)
(* What a step does, as far as the invariants tell: a rank waits, goes on  *)
(* within its statement, returns from it, or makes a call of a transfer;   *)
(* and the file stays, is deleted, or gets the bytes of those calls.       *)
(***************************************************************************)

\* All ranks have the same view set at once.
Joined == /\ \A r \in Ranks : pc[r] = "view" /\ pc'[r] = "access"
          /\ \A r, q \in Ranks : ip[r] = ip[q]

Idles(r) ==
  /\ ip'[r] = ip[r] /\ pc'[r] = pc[r] /\ result'[r] = result[r]
  /\ pos'[r] = pos[r] /\ count'[r] = count[r] /\ buffer'[r] = buffer[r]
Goes(r) ==
  /\ ip'[r] = ip[r] /\ result'[r] = result[r]
  /\ pos'[r] = pos[r] /\ count'[r] = count[r] /\ buffer'[r] = buffer[r]
  /\ pc[r] \in {"begin", "open"} => pc'[r] \in {"open", "view"} \/ ~Transfers(r)
  /\ pc[r] = "view" => Joined
  /\ pc[r] = "access" => pc'[r] \in {"close", "report"}
  /\ pc[r] = "close" => pc'[r] = "report"
  /\ pc[r] # "report"
Returns(r) ==
  /\ ip[r] \in DOMAIN program.stmts /\ ip'[r] = ip[r] + 1 /\ pc'[r] = "begin"
  /\ \E res \in Results :
       /\ result'[r] = Append(result[r], res)
       /\ res.success /\ res.sure /\ Transfers(r) =>
            pc[r] = "report" /\ count[r] = Total(Pattern(r)) /\ res.read = buffer[r]
\* A call that moves n bytes of those it was asked for.
Takes(r, n) ==
  /\ ip'[r] = ip[r] /\ pc[r] = "access" /\ pc'[r] = "access" /\ result'[r] = result[r]
  /\ calls[r] < Calls(Pattern(r)) /\ n \in 0 .. CallBytes(Pattern(r))
  /\ pos'[r] = pos[r] + CallBytes(Pattern(r)) /\ count'[r] = count[r] + n
  /\ n > 0 /\ Op(r) \in Reads => DOMAIN file # {}
  /\ buffer'[r] = IF Op(r) \in Reads
                  THEN buffer[r] \o [i \in 1 .. n |-> ByteAt(Offset(Pattern(r), r, pos[r] + i - 1))]
                  ELSE buffer[r]

\* Offset b gets a byte of the calls.
PutAt(R, length, b) ==
  \E r \in R : /\ Op(r) \in Writes
               /\ \E v \in Window(r, length[r]) :
                    b = Offset(Pattern(r), r, v) /\ b \in DOMAIN file' /\ file'[b] = Byte(r, v)
FilePut(R, length) ==
  /\ DOMAIN file \subseteq DOMAIN file'
  /\ \A b \in DOMAIN file' : (b \in DOMAIN file /\ file'[b] = file[b]) \/ PutAt(R, length, b)
  /\ \A r \in R : Op(r) \in Writes =>
       \A v \in Window(r, length[r]) : PutAt(R, length, Offset(Pattern(r), r, v))
FileDeleted ==
  file' = << >> /\ \E r \in Ranks : ip[r] \in DOMAIN program.stmts /\ pc[r] = "begin" /\ Op(r) = "pdelete"

Walk ==
  /\ program' = program
  /\ \/ /\ \A r \in Ranks : Idles(r) \/ Goes(r) \/ Returns(r)
        /\ file' = file \/ FileDeleted
     \/ \E R \in SUBSET Ranks : \E length :
          /\ \A r \in R : Takes(r, length[r])
          /\ \A r \in Ranks \ R : Idles(r)
          /\ FilePut(R, length)

SameRank(q) ==
  /\ ip'[q] = ip[q] /\ pc'[q] = pc[q] /\ fh'[q] = fh[q] /\ pos'[q] = pos[q] /\ calls'[q] = calls[q]
  /\ count'[q] = count[q] /\ buffer'[q] = buffer[q] /\ result'[q] = result[q]

LEMMA SameOp ==
  ASSUME NEW q, program' = program, ip'[q] = ip[q]
  PROVE  Op(q)' = Op(q) /\ Pattern(q)' = Pattern(q) /\ (Transfers(q)' <=> Transfers(q))
BY DEF Op, Pattern, Stmt, Transfers

LEMMA SameInv ==
  ASSUME NEW q \in Ranks, RankInv(q), SameRank(q), program' = program
  PROVE  RankInv(q)' /\ Idles(q)
<1>1. Op(q)' = Op(q) /\ Pattern(q)' = Pattern(q) /\ (Transfers(q)' <=> Transfers(q))
  BY SameOp DEF SameRank
<1>2. (Amounts(q) => Amounts(q)') /\ (OwnHandle(q) => OwnHandle(q)')
  BY <1>1 DEF SameRank, Amounts, OwnHandle
<1>. QED BY <1>1, <1>2 DEF SameRank, RankInv, Idles

\* A statement ends.
LEMMA ReturnInv ==
  ASSUME RankTypes, NEW r \in Ranks, RankInv(r), ip[r] \in DOMAIN program.stmts,
         program \in Programs, program' = program, NEW success \in BOOLEAN, Return(r, success),
         success /\ pc[r] \in {"begin", "report"} /\ Transfers(r) =>
           pc[r] = "report" /\ count[r] = Total(Pattern(r)),
         fh' \in [Ranks -> Handles], fh'[r].own = "unset", \A q \in Ranks \ {r} : fh'[q] = fh[q]
  PROVE  RankTypes' /\ RankInv(r)' /\ Returns(r) /\ \A q \in Ranks \ {r} : SameRank(q)
<1>1. PICK res : res = [success |-> success, read |-> buffer[r], sure |-> pc[r] \in {"begin", "report"}]
  OBVIOUS
<1>2. buffer[r] \in Seq(Bytes) /\ ip[r] \in Nat /\ result[r] \in Seq(Results)
  BY DEF RankTypes
<1>3. /\ res \in Results /\ res.success = success /\ res.read = buffer[r]
      /\ res.sure <=> pc[r] \in {"begin", "report"}
  <2>1. (pc[r] \in {"begin", "report"}) \in BOOLEAN
    OBVIOUS
  <2>2. PICK sure \in BOOLEAN : sure = (pc[r] \in {"begin", "report"})
    BY <2>1
  <2>3. res = [success |-> success, read |-> buffer[r], sure |-> sure]
    BY <1>1, <2>2
  <2>. QED BY <1>2, <2>2, <2>3 DEF Results
<1>4. /\ ip' = [ip EXCEPT ![r] = ip[r] + 1] /\ pc' = [pc EXCEPT ![r] = "begin"]
      /\ pos' = [pos EXCEPT ![r] = 0] /\ calls' = [calls EXCEPT ![r] = 0]
      /\ count' = [count EXCEPT ![r] = 0] /\ buffer' = [buffer EXCEPT ![r] = << >>]
      /\ result' = [result EXCEPT ![r] = Append(result[r], res)]
  BY <1>1 DEF Return, Go
<1>5. << >> \in Seq(Bytes)
  OBVIOUS
<1>6. Append(result[r], res) \in Seq(Results) /\ Len(Append(result[r], res)) = Len(result[r]) + 1
  BY <1>2, <1>3
<1>7. RankTypes'
  <2>1. ip' \in [Ranks -> Nat] /\ pc' \in [Ranks -> Points]
    BY <1>2, <1>4 DEF RankTypes, Points
  <2>2. pos' \in [Ranks -> Nat] /\ calls' \in [Ranks -> Nat] /\ count' \in [Ranks -> Nat]
    BY <1>4 DEF RankTypes
  <2>3. buffer' \in [Ranks -> Seq(Bytes)]
    BY <1>4, <1>5 DEF RankTypes
  <2>4. result' \in [Ranks -> Seq(Results)]
    BY <1>4, <1>6 DEF RankTypes
  <2>. QED BY <2>1, <2>2, <2>3, <2>4 DEF RankTypes
<1>8. /\ ip'[r] = ip[r] + 1 /\ pc'[r] = "begin" /\ pos'[r] = 0 /\ calls'[r] = 0 /\ count'[r] = 0
      /\ buffer'[r] = << >> /\ result'[r] = Append(result[r], res)
  BY <1>4 DEF RankTypes
<1>9. RankInv(r)'
  <2>1. OwnHandle(r)'
    BY DEF OwnHandle
  <2>2. ip'[r] \in 1 .. Len(program.stmts) + 1 /\ Len(result'[r]) = ip'[r] - 1
    <3>1. Len(program.stmts) \in Nat /\ ip[r] \in 1 .. Len(program.stmts)
      BY LengthTyped
    <3>2. Len(result'[r]) = (ip[r] - 1) + 1
      BY <1>6, <1>8 DEF RankInv
    <3>. QED BY <1>8, <3>1, <3>2
  <2>. QED BY <1>8, <2>1, <2>2 DEF RankInv
<1>10. Returns(r)
  BY <1>3, <1>8 DEF Returns
<1>11. \A q \in Ranks \ {r} : SameRank(q)
  BY <1>4 DEF RankTypes, SameRank
<1>. QED BY <1>7, <1>9, <1>10, <1>11

\* One rank moves.
LEMMA OneReturns ==
  ASSUME Types, \A q \in Ranks : RankInv(q), NEW r \in Ranks, ip[r] \in DOMAIN program.stmts,
         program' = program, job' \in {"running", "aborted"}, exists' \in BOOLEAN,
         NEW success \in BOOLEAN, Return(r, success),
         success /\ pc[r] \in {"begin", "report"} /\ Transfers(r) =>
           pc[r] = "report" /\ count[r] = Total(Pattern(r)),
         fh' \in [Ranks -> Handles], fh'[r].own = "unset", \A q \in Ranks \ {r} : fh'[q] = fh[q],
         file' = file \/ FileDeleted
  PROVE  Types' /\ (\A q \in Ranks : RankInv(q)') /\ Walk
<1>1. RankTypes' /\ RankInv(r)' /\ Returns(r) /\ \A q \in Ranks \ {r} : SameRank(q)
  BY ReturnInv DEF Types
<1>2. \A q \in Ranks \ {r} : RankInv(q)' /\ Idles(q)
  BY <1>1, SameInv
<1>. QED BY <1>1, <1>2 DEF Types, FileTypes, FileDeleted, Walk

LEMMA OneGoes ==
  ASSUME Types, \A q \in Ranks : RankInv(q), NEW r \in Ranks, RankInv(r)', Goes(r),
         UNCHANGED << program, job, file, exists, ip, fh, pos, calls, count, buffer, result >>,
         NEW point \in Points, pc' = [pc EXCEPT ![r] = point]
  PROVE  Types' /\ (\A q \in Ranks : RankInv(q)') /\ Walk
<1>1. RankTypes' /\ \A q \in Ranks \ {r} : SameRank(q)
  BY DEF Types, RankTypes, SameRank
<1>2. \A q \in Ranks \ {r} : RankInv(q)' /\ Idles(q)
  BY <1>1, SameInv
<1>. QED BY <1>1, <1>2 DEF Types, FileTypes, FileDeleted, Walk

LEMMA NobodyMoves ==
  ASSUME Types, \A q \in Ranks : RankInv(q), program' = program, job' \in {"running", "aborted"},
         UNCHANGED << file, exists, ip, pc, fh, pos, calls, count, buffer, result >>
  PROVE  Types' /\ (\A q \in Ranks : RankInv(q)') /\ Walk
<1>1. \A q \in Ranks : SameRank(q)
  BY DEF SameRank
<1>2. \A q \in Ranks : RankInv(q)' /\ Idles(q)
  BY <1>1, SameInv
<1>. QED BY <1>2 DEF Types, FileTypes, RankTypes, Walk

LEMMA NotFinished ==
  ASSUME Types, NEW r \in Ranks, RankInv(r), ~Finished(r)
  PROVE  ip[r] \in DOMAIN program.stmts
BY LengthTyped DEF Types, RankInv, Finished

LEMMA WalkError ==
  ASSUME Types, \A q \in Ranks : RankInv(q), NEW r \in Ranks, StatementError(r)
  PROVE  Types' /\ (\A q \in Ranks : RankInv(q)') /\ Walk
BY NobodyMoves DEF StatementError

LEMMA WalkBegin ==
  ASSUME Types, \A q \in Ranks : RankInv(q), NEW r \in Ranks, Begin(r)
  PROVE  Types' /\ (\A q \in Ranks : RankInv(q)') /\ Walk
<1>1. /\ pc[r] = "begin" /\ ip[r] \in DOMAIN program.stmts /\ Op(r) # "pdelete"
      /\ UNCHANGED << program, job, file, exists, fh >>
  BY NotFinished DEF Begin, Running
<1>2. fh \in [Ranks -> Handles] /\ fh[r].own = "unset"
  BY <1>1 DEF Types, RankTypes, RankInv, OwnHandle
<1>3. CASE Op(r) \in Writes \cup Reads /\ Total(Pattern(r)) = 0
  <2>1. Return(r, FALSE)
    BY <1>3 DEF Begin
  <2>. QED BY <1>1, <1>2, <2>1, OneReturns DEF Types
<1>4. CASE ~(Op(r) \in Writes \cup Reads /\ Total(Pattern(r)) = 0)
  <2>. DEFINE point == CASE Op(r) \in OpensItself \cup {"pfopen"} -> "open"
                         [] Op(r) \in {"pfwrite", "pfread"}       -> "view"
                         [] Op(r) = "pfclose"                     -> "close"
  <2>1. Go(r, point) /\ UNCHANGED << ip, pos, calls, count, buffer, result >>
    BY <1>4 DEF Begin
  <2>2. Op(r) \in Ops
    BY <1>1, AtTyped
  <2>3. /\ point \in {"open", "view", "close"}
        /\ point = "open" => Op(r) \in OpensItself \cup {"pfopen"}
        /\ point = "view" => Op(r) \in {"pfwrite", "pfread"}
        /\ point = "close" => Op(r) = "pfclose"
    BY <1>1, <2>2 DEF Ops, OpensItself
  <2>. HIDE DEF point
  <2>4. pc' = [pc EXCEPT ![r] = point] /\ point \in Points
    BY <2>1, <2>3 DEF Go, Points
  <2>5. pc'[r] = point /\ ip'[r] = ip[r] /\ program' = program
    BY <1>1, <2>1, <2>4 DEF Types, RankTypes
  <2>6. Op(r)' = Op(r) /\ Pattern(r)' = Pattern(r) /\ (Transfers(r)' <=> Transfers(r))
    BY <2>5, SameOp
  <2>7. RankInv(r)'
    <3>1. OwnHandle(r)'
      BY <1>1, <1>2 DEF OwnHandle
    <3>2. pc'[r] = "close" => ~Transfers(r)
      BY <2>3, <2>5 DEF Transfers, Writes, Reads
    <3>3. pc'[r] = "view" => Transfers(r)
      BY <2>3, <2>5 DEF Transfers, Writes, Reads
    <3>. QED BY <1>1, <2>1, <2>3, <2>5, <2>6, <3>1, <3>2, <3>3 DEF RankInv
  <2>8. Goes(r)
    BY <1>1, <2>1, <2>3, <2>5 DEF Goes, Transfers, Writes, Reads
  <2>. QED BY <1>1, <2>1, <2>4, <2>7, <2>8, OneGoes
<1>. QED BY <1>3, <1>4

LEMMA WalkPDelete ==
  ASSUME Types, \A q \in Ranks : RankInv(q), NEW r \in Ranks, PDelete(r)
  PROVE  Types' /\ (\A q \in Ranks : RankInv(q)') /\ Walk
<1>1. /\ pc[r] = "begin" /\ ip[r] \in DOMAIN program.stmts /\ Op(r) = "pdelete"
      /\ UNCHANGED << program, job, fh >> /\ Return(r, FALSE)
  BY NotFinished DEF PDelete, Running
<1>2. fh \in [Ranks -> Handles] /\ fh[r].own = "unset"
  BY <1>1 DEF Types, RankTypes, RankInv, OwnHandle
<1>3. exists' \in BOOLEAN /\ (file' = file \/ FileDeleted)
  BY <1>1 DEF PDelete, FileDeleted, Types
<1>. QED BY <1>1, <1>2, <1>3, OneReturns DEF Types

LEMMA WalkUninitialized ==
  ASSUME Types, \A q \in Ranks : RankInv(q), NEW r \in Ranks, UseUninitialized(r)
  PROVE  Types' /\ (\A q \in Ranks : RankInv(q)') /\ Walk
<1>1. pc[r] \in {"view", "close"} /\ UNCHANGED << program, file, exists >>
  BY DEF UseUninitialized, Running
<1>2. ip[r] \in DOMAIN program.stmts
  BY <1>1 DEF RankInv
<1>3. CASE job' = "aborted" /\ UNCHANGED << ip, pc, fh, pos, calls, count, buffer, result >>
  BY <1>1, <1>3, NobodyMoves
<1>4. ASSUME NEW success \in BOOLEAN, Return(r, success), UNCHANGED job,
             fh' = IF Op(r) \in {"pfwrite", "pfread"} THEN fh
                   ELSE [fh EXCEPT ![r][Slot(r)] = "unset"]
      PROVE  Types' /\ (\A q \in Ranks : RankInv(q)') /\ Walk
  <2>1. Slot(r) \in {"own", "variable"} /\ (Op(r) \in OpensItself => Slot(r) = "own")
    BY DEF Slot
  <2>2. fh \in [Ranks -> Handles] /\ fh[r] \in Handles
    BY DEF Types, RankTypes
  <2>3. PICK handles \in Handles : handles = [fh[r] EXCEPT ![Slot(r)] = "unset"]
    BY <2>1, <2>2 DEF Handles
  <2>4. handles["own"] = IF Slot(r) = "own" THEN "unset" ELSE fh[r]["own"]
    BY <2>1, <2>2, <2>3 DEF Handles
  <2>5. fh[r].own # "unset" => Op(r) \in OpensItself
    BY DEF RankInv, OwnHandle
  <2>6. fh' \in [Ranks -> Handles] /\ \A q \in Ranks \ {r} : fh'[q] = fh[q]
    BY <1>4, <2>2, <2>3
  <2>7. fh'[r].own = "unset"
    <3>1. CASE Op(r) \in {"pfwrite", "pfread"}
      BY <1>4, <2>5, <3>1 DEF OpensItself
    <3>2. CASE Op(r) \notin {"pfwrite", "pfread"}
      BY <1>4, <2>1, <2>2, <2>3, <2>4, <2>5, <3>2
    <3>. QED BY <3>1, <3>2
  <2>. QED BY <1>1, <1>2, <1>4, <2>6, <2>7, OneReturns DEF Types
<1>. QED BY <1>1, <1>3, <1>4 DEF UseUninitialized

LEMMA WalkAccessEnds ==
  ASSUME Types, \A q \in Ranks : RankInv(q), NEW r \in Ranks, AccessEnds(r)
  PROVE  Types' /\ (\A q \in Ranks : RankInv(q)') /\ Walk
<1>1. /\ pc[r] = "access" /\ ip[r] \in DOMAIN program.stmts /\ Transfers(r) /\ Amounts(r)
      /\ calls[r] = Calls(Pattern(r))
      /\ UNCHANGED << program, job, file, exists, ip, fh, pos, calls, count, buffer, result >>
  BY DEF AccessEnds, Running, Moved, RankInv
<1>2. PICK point : point = IF Op(r) \in OpensItself THEN "close" ELSE "report"
  OBVIOUS
<1>3. point \in {"close", "report"} /\ pc' = [pc EXCEPT ![r] = point]
  BY <1>2 DEF AccessEnds, Go
<1>4. pc'[r] = point /\ point \in Points
  BY <1>3 DEF Types, RankTypes, Points
<1>5. Op(r)' = Op(r) /\ Pattern(r)' = Pattern(r) /\ (Transfers(r)' <=> Transfers(r))
  BY <1>1, SameOp
<1>6. RankInv(r)'
  <2>1. Amounts(r)'
    BY <1>1, <1>5 DEF Amounts
  <2>2. fh[r].own # "unset" => Op(r) \in OpensItself
    BY DEF RankInv, OwnHandle
  <2>3. OwnHandle(r)'
    BY <1>1, <1>2, <1>4, <1>5, <2>2 DEF OwnHandle
  <2>4. ip'[r] \in 1 .. Len(program'.stmts) + 1 /\ Len(result'[r]) = ip'[r] - 1
    BY <1>1 DEF RankInv
  <2>. QED BY <1>1, <1>2, <1>3, <1>4, <1>5, <2>1, <2>3, <2>4 DEF RankInv
<1>7. Goes(r)
  BY <1>1, <1>3, <1>4 DEF Goes
<1>. QED BY <1>1, <1>3, <1>4, <1>6, <1>7, OneGoes

LEMMA WalkReport ==
  ASSUME Types, \A q \in Ranks : RankInv(q), NEW r \in Ranks, Report(r)
  PROVE  Types' /\ (\A q \in Ranks : RankInv(q)') /\ Walk
<1>1. /\ pc[r] = "report" /\ ip[r] \in DOMAIN program.stmts
      /\ UNCHANGED << program, job, file, exists, fh >>
  BY DEF Report, Running, RankInv
<1>2. PICK success \in BOOLEAN : success = (Op(r) \in Writes \cup Reads => count[r] = Total(Pattern(r)))
  OBVIOUS
<1>3. Return(r, success)
  BY <1>2 DEF Report
<1>4. success /\ Transfers(r) => count[r] = Total(Pattern(r))
  BY <1>2 DEF Transfers
<1>5. fh \in [Ranks -> Handles] /\ fh[r].own = "unset"
  BY <1>1 DEF Types, RankTypes, RankInv, OwnHandle
<1>. QED BY <1>1, <1>3, <1>4, <1>5, OneReturns DEF Types

\* All ranks move.
LEMMA AllGo ==
  ASSUME Types, \A q \in Ranks : RankInv(q)', \A q \in Ranks : Goes(q),
         UNCHANGED << program, job, file, ip, pos, calls, count, buffer, result >>,
         exists' \in BOOLEAN, fh' \in [Ranks -> Handles], pc' \in [Ranks -> Points]
  PROVE  Types' /\ (\A q \in Ranks : RankInv(q)') /\ Walk
BY DEF Types, FileTypes, RankTypes, Walk

\* A file is opened or closed: one handle of every rank changes, not always alike.
LEMMA HandleSet ==
  ASSUME fh \in [Ranks -> Handles], NEW given \in [Ranks -> {"unset", "good", "uninitialized"}],
         fh' = [r \in Ranks |-> [fh[r] EXCEPT ![Slot(r)] = given[r]]]
  PROVE  /\ fh' \in [Ranks -> Handles]
         /\ \A r \in Ranks : fh'[r].own = IF Op(r) \in OpensItself THEN given[r] ELSE fh[r].own
<1>1. ASSUME NEW r \in Ranks
      PROVE  /\ [fh[r] EXCEPT ![Slot(r)] = given[r]] \in Handles
             /\ [fh[r] EXCEPT ![Slot(r)] = given[r]].own =
                  IF Op(r) \in OpensItself THEN given[r] ELSE fh[r].own
  <2>1. fh[r] \in Handles
    OBVIOUS
  <2>2. Slot(r) \in {"own", "variable"} /\ (Slot(r) = "own" <=> Op(r) \in OpensItself)
    BY DEF Slot
  <2>3. PICK slot \in {"own", "variable"} : slot = Slot(r)
    BY <2>2
  <2>4. PICK handles \in Handles : handles = fh[r]
    BY <2>1
  <2>7. PICK handle \in {"unset", "good", "uninitialized"} : handle = given[r]
    OBVIOUS
  <2>5. [handles EXCEPT ![slot] = handle] \in Handles
    BY DEF Handles
  <2>6. [handles EXCEPT ![slot] = handle]["own"] = IF slot = "own" THEN handle ELSE handles["own"]
    BY DEF Handles
  <2>. QED BY <2>2, <2>3, <2>4, <2>5, <2>6, <2>7
<1>. QED BY <1>1

LEMMA WalkOpen ==
  ASSUME Types, \A q \in Ranks : RankInv(q), Open
  PROVE  Types' /\ (\A q \in Ranks : RankInv(q)') /\ Walk
<1>1. /\ \A r \in Ranks : pc[r] = "open" /\ ip[r] \in DOMAIN program.stmts
      /\ UNCHANGED << program, job, file, ip, pos, calls, count, buffer, result >>
  BY DEF Open, Running, RankInv
<1>2. PICK opened :
        /\ exists' = (exists \/ opened # {})
        /\ fh' = [r \in Ranks |-> [fh[r] EXCEPT ![Slot(r)] =
                                     IF r \in opened THEN "good" ELSE "uninitialized"]]
  BY DEF Open
<1>3. /\ fh' \in [Ranks -> Handles]
      /\ \A r \in Ranks : fh'[r].own # "unset" => Op(r) \in OpensItself \/ fh[r].own # "unset"
  <2>1. PICK given \in [Ranks -> {"unset", "good", "uninitialized"}] :
          given = [r \in Ranks |-> IF r \in opened THEN "good" ELSE "uninitialized"]
    OBVIOUS
  <2>2. fh' = [r \in Ranks |-> [fh[r] EXCEPT ![Slot(r)] = given[r]]]
    BY <1>2, <2>1
  <2>3. fh \in [Ranks -> Handles]
    BY DEF Types, RankTypes
  <2>. QED BY <2>2, <2>3, HandleSet
<1>4. /\ pc' = [r \in Ranks |-> IF Op(r) = "pfopen" THEN "report" ELSE "view"]
      /\ exists' \in BOOLEAN
  BY <1>2 DEF Open, Types
<1>5. pc' \in [Ranks -> Points]
  BY <1>4 DEF Points
<1>6. ASSUME NEW r \in Ranks
      PROVE  RankInv(r)' /\ Goes(r)
  <2>1. /\ pc[r] = "open" /\ pc'[r] = IF Op(r) = "pfopen" THEN "report" ELSE "view"
        /\ ip[r] \in DOMAIN program.stmts /\ Op(r) \in OpensItself \cup {"pfopen"}
    BY <1>1, <1>4 DEF RankInv
  <2>2. Op(r)' = Op(r) /\ Pattern(r)' = Pattern(r) /\ (Transfers(r)' <=> Transfers(r))
    BY <1>1, SameOp
  <2>3. (Transfers(r) <=> Op(r) \in OpensItself)
    BY <2>1 DEF Transfers, OpensItself, Writes, Reads
  <2>4. fh[r].own = "unset"
    BY <2>1 DEF RankInv, OwnHandle
  <2>5. OwnHandle(r)'
    BY <1>3, <2>1, <2>2, <2>4 DEF OwnHandle, OpensItself
  <2>6. RankInv(r)'
    <3>1. ip'[r] \in 1 .. Len(program'.stmts) + 1 /\ Len(result'[r]) = ip'[r] - 1
      BY <1>1 DEF RankInv
    <3>2. pos'[r] = 0 /\ calls'[r] = 0 /\ count'[r] = 0 /\ buffer'[r] = << >>
      BY <1>1, <2>1 DEF RankInv
    <3>3. pc'[r] = "report" => ~Transfers(r)'
      BY <2>1, <2>2, <2>3 DEF OpensItself
    <3>. QED BY <1>1, <2>1, <2>2, <2>3, <2>5, <3>1, <3>2, <3>3 DEF RankInv, OpensItself
  <2>7. Goes(r)
    BY <1>1, <2>1, <2>3 DEF Goes, OpensItself
  <2>. QED BY <2>6, <2>7
<1>. QED BY <1>1, <1>3, <1>4, <1>5, <1>6, AllGo

LEMMA WalkSetView ==
  ASSUME Types, \A q \in Ranks : RankInv(q), SetView
  PROVE  Types' /\ (\A q \in Ranks : RankInv(q)') /\ Walk
<1>1. /\ \A r \in Ranks : pc[r] = "view" /\ ip[r] \in DOMAIN program.stmts /\ pos[r] = 0
      /\ \A r, q \in Ranks : ip[r] = ip[q]
      /\ UNCHANGED << program, job, file, exists, ip, fh, calls, count, buffer, result >>
      /\ pc' = [r \in Ranks |-> "access"] /\ pos' = [r \in Ranks |-> 0]
  BY DEF SetView, Running, RankInv
<1>2. pos' = pos /\ pc' \in [Ranks -> Points] /\ fh' \in [Ranks -> Handles] /\ exists' \in BOOLEAN
  BY <1>1 DEF Types, RankTypes, Points
<1>3. Joined
  BY <1>1 DEF Joined
<1>4. ASSUME NEW r \in Ranks
      PROVE  RankInv(r)' /\ Goes(r)
  <2>1. pc[r] = "view" /\ pc'[r] = "access" /\ ip[r] \in DOMAIN program.stmts /\ Transfers(r)
    BY <1>1 DEF RankInv
  <2>2. Op(r)' = Op(r) /\ Pattern(r)' = Pattern(r) /\ (Transfers(r)' <=> Transfers(r))
    BY <1>1, SameOp
  <2>3. Pattern(r) \in Patterns
    BY <2>1, AtTyped
  <2>4. pos'[r] = 0 /\ calls'[r] = 0 /\ count'[r] = 0 /\ buffer'[r] = << >>
    BY <1>1, <1>2, <2>1 DEF RankInv
  <2>5. Amounts(r)'
    <3>1. Calls(Pattern(r)) \in Nat /\ CallBytes(Pattern(r)) \in Nat
      BY <2>3, PatternTypes
    <3>2. calls'[r] <= Calls(Pattern(r))
      BY <2>4, <3>1
    <3>3. 0 = calls'[r] * CallBytes(Pattern(r))
      BY <2>4, <3>1
    <3>4. Len(buffer'[r]) = 0
      BY <2>4
    <3>. QED BY <2>2, <2>4, <3>2, <3>3, <3>4 DEF Amounts
  <2>6. OwnHandle(r)'
    BY <1>1, <2>1, <2>2 DEF OwnHandle, RankInv
  <2>7. RankInv(r)'
    <3>1. ip'[r] \in 1 .. Len(program'.stmts) + 1 /\ Len(result'[r]) = ip'[r] - 1
      BY <1>1 DEF RankInv
    <3>. QED BY <1>1, <2>1, <2>2, <2>5, <2>6, <3>1 DEF RankInv
  <2>8. Goes(r)
    BY <1>1, <1>2, <1>3, <2>1 DEF Goes
  <2>. QED BY <2>7, <2>8
<1>. QED BY <1>1, <1>2, <1>4, AllGo

LEMMA WalkClose ==
  ASSUME Types, \A q \in Ranks : RankInv(q), Close
  PROVE  Types' /\ (\A q \in Ranks : RankInv(q)') /\ Walk
<1>1. /\ \A r \in Ranks : pc[r] = "close" /\ ip[r] \in DOMAIN program.stmts
      /\ UNCHANGED << program, job, file, exists, ip, pos, calls, count, buffer, result >>
      /\ fh' = [r \in Ranks |-> [fh[r] EXCEPT ![Slot(r)] = "unset"]]
      /\ pc' = [r \in Ranks |-> "report"]
  BY DEF Close, Running, RankInv
<1>2. /\ fh' \in [Ranks -> Handles]
      /\ \A r \in Ranks : fh'[r].own = IF Op(r) \in OpensItself THEN "unset" ELSE fh[r].own
  <2>1. PICK given \in [Ranks -> {"unset", "good", "uninitialized"}] : given = [r \in Ranks |-> "unset"]
    OBVIOUS
  <2>2. fh' = [r \in Ranks |-> [fh[r] EXCEPT ![Slot(r)] = given[r]]]
    BY <1>1, <2>1
  <2>3. fh \in [Ranks -> Handles]
    BY DEF Types, RankTypes
  <2>4. /\ fh' \in [Ranks -> Handles]
        /\ \A r \in Ranks : fh'[r].own = IF Op(r) \in OpensItself THEN given[r] ELSE fh[r].own
    BY <2>2, <2>3, HandleSet
  <2>. QED BY <2>1, <2>4
<1>3. pc' \in [Ranks -> Points] /\ exists' \in BOOLEAN
  BY <1>1 DEF Types, Points
<1>4. ASSUME NEW r \in Ranks
      PROVE  RankInv(r)' /\ Goes(r)
  <2>1. /\ pc[r] = "close" /\ pc'[r] = "report" /\ ip[r] \in DOMAIN program.stmts
    BY <1>1
  <2>2. Op(r)' = Op(r) /\ Pattern(r)' = Pattern(r) /\ (Transfers(r)' <=> Transfers(r))
    BY <1>1, SameOp
  <2>3. fh'[r].own = "unset"
    BY <1>2 DEF RankInv, OwnHandle
  <2>4. Amounts(r) => Amounts(r)'
    BY <1>1, <2>2 DEF Amounts
  <2>5. RankInv(r)'
    <3>1. ip'[r] \in 1 .. Len(program'.stmts) + 1 /\ Len(result'[r]) = ip'[r] - 1
      BY <1>1 DEF RankInv
    <3>2. OwnHandle(r)'
      BY <2>3 DEF OwnHandle
    <3>. QED BY <1>1, <2>1, <2>2, <2>4, <3>1, <3>2 DEF RankInv
  <2>6. Goes(r)
    BY <1>1, <2>1 DEF Goes
  <2>. QED BY <2>5, <2>6
<1>. QED BY <1>1, <1>2, <1>3, <1>4, AllGo

-------------------------------------------------------------------------------
(* Transfers.                                                                    *)

LEMMA GreatestNatural ==
  ASSUME NEW T \in SUBSET Nat, T # {}, NEW top \in Nat, \A t \in T : t <= top
  PROVE  \E n \in T : \A m \in T : m <= n
<1>. DEFINE below == {top - t : t \in T}
<1>1. below \in SUBSET Nat /\ below # {}
  BY \A t \in T : top - t \in Nat
<1>2. PICK R : R = OpToRel(<, Nat)
  OBVIOUS
<1>3. PICK d \in below : \A e \in below : << e, d >> \notin R
  BY <1>1, <1>2, NatLessThanWellFounded, WFMin
<1>4. \A k, m \in Nat : << m, k >> \in R <=> m < k
  BY <1>2 DEF OpToRel
<1>5. PICK n \in T : d = top - n
  BY <1>3
<1>6. ASSUME NEW m \in T PROVE m <= n
  <2>1. ~(top - m < d)
    BY <1>1, <1>3, <1>4
  <2>. QED BY <1>5, <2>1
<1>. QED BY <1>6

\* A rank about to make a call.
Ready(r) == pc[r] = "access" /\ ~Moved(r)

\* The next call's bytes are all bytes of the pattern.
LEMMA WindowBelow ==
  ASSUME Types, NEW r \in Ranks, RankInv(r), Ready(r)
  PROVE  /\ Pattern(r) \in Patterns /\ CallBytes(Pattern(r)) \in Nat /\ pos[r] \in Nat
         /\ calls[r] + 1 <= Calls(Pattern(r))
         /\ pos[r] + CallBytes(Pattern(r)) = (calls[r] + 1) * CallBytes(Pattern(r))
         /\ pos[r] + CallBytes(Pattern(r)) <= Total(Pattern(r))
<1>1. ip[r] \in DOMAIN program.stmts /\ Amounts(r) /\ calls[r] # Calls(Pattern(r))
  BY DEF RankInv, Ready, Moved
<1>2. Pattern(r) \in Patterns
  BY <1>1, AtTyped
<1>3. PICK n \in Nat, k \in Nat, c \in Nat :
        n = CallBytes(Pattern(r)) /\ k = Calls(Pattern(r)) /\ c = calls[r]
  BY <1>2, PatternTypes DEF Types, RankTypes
<1>4. Total(Pattern(r)) = k * n
  BY <1>2, <1>3, PatternTypes
<1>5. c + 1 <= k /\ pos[r] = c * n
  BY <1>1, <1>3 DEF Amounts
<1>6. (c + 1) * n <= k * n
  BY <1>5, MulMono
<1>7. (c + 1) * n = c * n + n
  BY SMT
<1>8. pos[r] \in Nat
  BY DEF Types, RankTypes
<1>. QED BY <1>2, <1>3, <1>4, <1>5, <1>6, <1>7, <1>8

LEMMA LengthsTyped ==
  ASSUME Types, NEW r \in Ranks, RankInv(r), Ready(r), NEW n \in Lengths(r)
  PROVE  /\ n \in 0 .. CallBytes(Pattern(r))
         /\ Op(r) \in Reads /\ n > 0 => DOMAIN file # {}
<1>. DEFINE possible == {m \in 0 .. CallBytes(Pattern(r)) :
              Op(r) \in Reads => \A v \in Window(r, m) : Offset(Pattern(r), r, v) < Eof}
<1>1. /\ Pattern(r) \in Patterns /\ CallBytes(Pattern(r)) \in Nat /\ pos[r] \in Nat
      /\ pos[r] + CallBytes(Pattern(r)) <= Total(Pattern(r))
  BY WindowBelow
<1>2. 0 \in possible /\ possible \in SUBSET Nat /\ \A m \in possible : m <= CallBytes(Pattern(r))
  BY <1>1 DEF Window
<1>3. \E m \in possible : \A k \in possible : k <= m
  <2>. HIDE DEF possible
  <2>. QED BY <1>1, <1>2, GreatestNatural
<1>4. n \in possible
  <2>1. n \in possible \/ n = CHOOSE m \in possible : \A k \in possible : k <= m
    BY DEF Lengths
  <2>. HIDE DEF possible
  <2>. QED BY <1>3, <2>1
<1>5. ASSUME Op(r) \in Reads, n > 0, DOMAIN file = {} PROVE FALSE
  <2>1. pos[r] \in Window(r, n)
    BY <1>1, <1>4, <1>5 DEF Window
  <2>2. Offset(Pattern(r), r, pos[r]) < 0
    BY <1>4, <1>5, <2>1 DEF Eof
  <2>3. pos[r] \in 0 .. Total(Pattern(r)) - 1
    BY <1>1, <1>4, <1>5, PatternTypes
  <2>4. Offset(Pattern(r), r, pos[r]) \in Nat
    BY <1>1, <2>3, OffsetPlace
  <2>. QED BY <2>2, <2>4
<1>. QED BY <1>4, <1>5

LEMMA StoredAt ==
  ASSUME NEW r, NEW n, NEW b \in Targets(r, n)
  PROVE  /\ Op(r) \in Writes
         /\ \E v \in Window(r, n) : b = Offset(Pattern(r), r, v) /\ Stored(r, n, b) = Byte(r, v)
<1>1. Op(r) \in Writes /\ \E v \in Window(r, n) : Offset(Pattern(r), r, v) = b
  BY DEF Targets
<1>2. PICK v : v = CHOOSE u \in Window(r, n) : Offset(Pattern(r), r, u) = b
  OBVIOUS
<1>3. v \in Window(r, n) /\ Offset(Pattern(r), r, v) = b
  BY <1>1, <1>2
<1>4. Stored(r, n, b) = Byte(r, v)
  BY <1>2 DEF Stored
<1>. QED BY <1>1, <1>3, <1>4

LEMMA TransferPuts ==
  ASSUME NEW R, NEW length, Transfer(R, length)
  PROVE  FilePut(R, length)
<1>. DEFINE targets == UNION {Targets(r, length[r]) : r \in R}
<1>1. PICK last \in R :
       file' = [b \in DOMAIN file \cup targets |->
         IF b \in Targets(last, length[last]) THEN Stored(last, length[last], b)
         ELSE IF \E r \in R : b \in Targets(r, length[r])
              THEN LET r == CHOOSE q \in R : b \in Targets(q, length[q]) IN Stored(r, length[r], b)
              ELSE file[b]]
  BY DEF Transfer
<1>2. DOMAIN file' = DOMAIN file \cup targets
  BY <1>1
<1>3. ASSUME NEW b \in DOMAIN file'
      PROVE  IF b \in targets THEN PutAt(R, length, b) ELSE b \in DOMAIN file /\ file'[b] = file[b]
  <2>1. CASE b \notin targets
    BY <1>1, <1>2, <2>1
  <2>2. CASE b \in targets
    <3>1. \E r \in R : b \in Targets(r, length[r])
      BY <2>2
    <3>2. PICK r \in R : b \in Targets(r, length[r]) /\ file'[b] = Stored(r, length[r], b)
      <4>1. CASE b \in Targets(last, length[last])
        BY <1>1, <1>2, <4>1
      <4>2. CASE b \notin Targets(last, length[last])
        <5>1. PICK q : q = CHOOSE k \in R : b \in Targets(k, length[k])
          OBVIOUS
        <5>2. q \in R /\ b \in Targets(q, length[q])
          BY <3>1, <5>1
        <5>3. file'[b] = Stored(q, length[q], b)
          BY <1>1, <1>2, <3>1, <4>2, <5>1
        <5>. QED BY <5>2, <5>3
      <4>. QED BY <4>1, <4>2
    <3>. QED BY <2>2, <3>2, StoredAt DEF PutAt
  <2>. QED BY <2>1, <2>2
<1>4. ASSUME NEW r \in R, Op(r) \in Writes, NEW v \in Window(r, length[r])
      PROVE  PutAt(R, length, Offset(Pattern(r), r, v))
  <2>1. Offset(Pattern(r), r, v) \in Targets(r, length[r])
    BY <1>4 DEF Targets
  <2>2. Offset(Pattern(r), r, v) \in targets
    BY <2>1
  <2>. HIDE DEF targets
  <2>. QED BY <1>2, <1>3, <2>2
<1>. QED BY <1>2, <1>3, <1>4 DEF FilePut

LEMMA WalkTransfer ==
  ASSUME Types, \A q \in Ranks : RankInv(q), NEW R \in SUBSET Ranks, NEW length,
         \A r \in R : Ready(r) /\ length[r] \in Lengths(r), Transfer(R, length)
  PROVE  Types' /\ (\A q \in Ranks : RankInv(q)') /\ Walk
<1>1. /\ UNCHANGED << program, job, exists, ip, pc, fh, result >>
      /\ buffer' = [r \in Ranks |->
           IF r \in R /\ Op(r) \in Reads
           THEN buffer[r] \o [i \in 1 .. length[r] |-> ByteAt(Offset(Pattern(r), r, pos[r] + i - 1))]
           ELSE buffer[r]]
      /\ pos' = [r \in Ranks |-> IF r \in R THEN Advance(r) ELSE pos[r]]
      /\ calls' = [r \in Ranks |-> IF r \in R THEN calls[r] + 1 ELSE calls[r]]
      /\ count' = [r \in Ranks |-> IF r \in R THEN count[r] + length[r] ELSE count[r]]
  BY DEF Transfer
<1>2. FilePut(R, length)
  BY TransferPuts
<1>3. ASSUME NEW r \in R
      PROVE  /\ length[r] \in 0 .. CallBytes(Pattern(r)) /\ pc[r] = "access"
             /\ Op(r) \in Reads /\ length[r] > 0 => DOMAIN file # {}
             /\ Pattern(r) \in Patterns /\ CallBytes(Pattern(r)) \in Nat /\ pos[r] \in Nat
             /\ calls[r] + 1 <= Calls(Pattern(r)) /\ Calls(Pattern(r)) \in Nat
             /\ pos[r] + CallBytes(Pattern(r)) = (calls[r] + 1) * CallBytes(Pattern(r))
             /\ pos[r] + CallBytes(Pattern(r)) <= Total(Pattern(r))
             /\ ip[r] \in DOMAIN program.stmts
  BY WindowBelow, LengthsTyped, PatternTypes DEF Ready, RankInv
<1>4. FileTypes'
  <2>1. ASSUME NEW r \in R, NEW v \in Window(r, length[r])
        PROVE  Offset(Pattern(r), r, v) \in Nat /\ Byte(r, v) \in [writer : Ranks, stmt : Nat, at : Nat]
    <3>1. v \in 0 .. Total(Pattern(r)) - 1 /\ v \in Nat
      BY <1>3, <2>1, PatternTypes DEF Window
    <3>2. ip[r] \in Nat
      BY DEF Types, RankTypes
    <3>. QED BY <1>3, <3>1, <3>2, OffsetPlace DEF Byte
  <2>. QED BY <1>2, <2>1 DEF FilePut, PutAt, FileTypes, Types
<1>5. ASSUME NEW r \in R
      PROVE  [i \in 1 .. length[r] |-> ByteAt(Offset(Pattern(r), r, pos[r] + i - 1))] \in Seq(Bytes)
  <2>1. \A b : ByteAt(b) \in Bytes
    BY DEF ByteAt, Hole, Bytes, Types, FileTypes
  <2>2. length[r] \in Nat
    BY <1>3
  <2>. QED BY <2>1, <2>2
<1>6. RankTypes'
  <2>1. /\ ip' = ip /\ pc' = pc /\ fh' = fh /\ result' = result /\ RankTypes
    BY <1>1 DEF Types
  <2>2. pos' \in [Ranks -> Nat] /\ calls' \in [Ranks -> Nat] /\ count' \in [Ranks -> Nat]
    <3>1. pos \in [Ranks -> Nat] /\ calls \in [Ranks -> Nat] /\ count \in [Ranks -> Nat]
      BY <2>1 DEF RankTypes
    <3>2. \A r \in R : Advance(r) \in Nat /\ calls[r] + 1 \in Nat /\ count[r] + length[r] \in Nat
      BY <1>3, <3>1 DEF Advance
    <3>3. pos' \in [Ranks -> Nat]
      BY <1>1, <3>1, <3>2
    <3>4. calls' \in [Ranks -> Nat]
      BY <1>1, <3>1, <3>2
    <3>5. count' \in [Ranks -> Nat]
      BY <1>1, <3>1, <3>2
    <3>. QED BY <3>3, <3>4, <3>5
  <2>3. buffer' \in [Ranks -> Seq(Bytes)]
    <3>1. ASSUME NEW r \in Ranks, r \in R, Op(r) \in Reads
          PROVE  buffer[r] \o [i \in 1 .. length[r] |-> ByteAt(Offset(Pattern(r), r, pos[r] + i - 1))]
                   \in Seq(Bytes)
      <4>1. PICK s \in Seq(Bytes) :
              s = [i \in 1 .. length[r] |-> ByteAt(Offset(Pattern(r), r, pos[r] + i - 1))]
        BY <1>5, <3>1
      <4>2. buffer[r] \o s \in Seq(Bytes)
        BY <2>1 DEF RankTypes
      <4>. QED BY <4>1, <4>2
    <3>2. \A r \in Ranks : buffer[r] \in Seq(Bytes)
      BY <2>1 DEF RankTypes
    <3>. QED BY <1>1, <3>1, <3>2
  <2>. QED BY <2>1, <2>2, <2>3 DEF RankTypes
<1>7. ASSUME NEW r \in R
      PROVE  Takes(r, length[r]) /\ RankInv(r)'
  <2>1. /\ pos'[r] = pos[r] + CallBytes(Pattern(r)) /\ calls'[r] = calls[r] + 1
        /\ count'[r] = count[r] + length[r]
        /\ buffer'[r] = IF Op(r) \in Reads
                        THEN buffer[r] \o [i \in 1 .. length[r] |-> ByteAt(Offset(Pattern(r), r, pos[r] + i - 1))]
                        ELSE buffer[r]
    BY <1>1 DEF Advance
  <2>2. calls[r] \in Nat /\ count[r] \in Nat /\ buffer[r] \in Seq(Bytes)
    BY DEF Types, RankTypes
  <2>3. Takes(r, length[r])
    BY <1>1, <1>3, <2>1, <2>2 DEF Takes
  <2>4. Op(r)' = Op(r) /\ Pattern(r)' = Pattern(r) /\ (Transfers(r)' <=> Transfers(r))
    BY <1>1, SameOp
  <2>5. Amounts(r)'
    <3>1. Amounts(r)
      BY <1>3 DEF RankInv
    <3>2. Len(buffer'[r]) = IF Op(r) \in Reads THEN Len(buffer[r]) + length[r] ELSE Len(buffer[r])
      <4>1. PICK s \in Seq(Bytes) :
              s = [i \in 1 .. length[r] |-> ByteAt(Offset(Pattern(r), r, pos[r] + i - 1))]
        BY <1>5
      <4>2. Len(s) = length[r]
        BY <1>3, <4>1
      <4>3. Len(buffer[r] \o s) = Len(buffer[r]) + Len(s)
        BY <2>2
      <4>. QED BY <2>1, <4>1, <4>2, <4>3
    <3>3. Len(buffer'[r]) = IF Op(r) \in Reads THEN count'[r] ELSE 0
      BY <1>3, <2>1, <2>2, <3>1, <3>2 DEF Amounts
    <3>4. count'[r] <= pos'[r] /\ calls'[r] <= Calls(Pattern(r))
      <4>1. count[r] <= pos[r] /\ length[r] \in 0 .. CallBytes(Pattern(r))
        BY <1>3, <3>1 DEF Amounts
      <4>2. count'[r] <= pos'[r]
        BY <1>3, <2>1, <2>2, <4>1
      <4>. QED BY <1>3, <2>1, <4>2
    <3>5. pos'[r] = calls'[r] * CallBytes(Pattern(r))
      BY <1>3, <2>1, Zenon
    <3>. QED BY <2>4, <3>3, <3>4, <3>5 DEF Amounts
  <2>6. OwnHandle(r) => OwnHandle(r)'
    BY <1>1, <2>4 DEF OwnHandle
  <2>7. RankInv(r)'
    <3>1. ip'[r] \in 1 .. Len(program'.stmts) + 1 /\ Len(result'[r]) = ip'[r] - 1
      BY <1>1 DEF RankInv
    <3>2. pc'[r] = "access" /\ ip'[r] \in DOMAIN program'.stmts /\ Transfers(r)'
      BY <1>1, <1>3, <2>4 DEF RankInv
    <3>. QED BY <2>5, <2>6, <3>1, <3>2 DEF RankInv
  <2>. QED BY <2>3, <2>7
<1>8. \A q \in Ranks \ R : RankInv(q)' /\ Idles(q)
  <2>1. ASSUME NEW q \in Ranks \ R PROVE SameRank(q)
    BY <1>1 DEF SameRank
  <2>. QED BY <1>1, <2>1, SameInv
<1>9. Types'
  BY <1>1, <1>4, <1>6 DEF Types
<1>. QED BY <1>1, <1>2, <1>7, <1>8, <1>9 DEF Walk

LEMMA WalkIndependent ==
  ASSUME Types, \A q \in Ranks : RankInv(q), NEW r \in Ranks, AccessIndependent(r)
  PROVE  Types' /\ (\A q \in Ranks : RankInv(q)') /\ Walk
<1>1. PICK n \in Lengths(r) : Transfer({r}, [q \in {r} |-> n])
  BY DEF AccessIndependent
<1>2. PICK length : length = [q \in {r} |-> n]
  OBVIOUS
<1>3. PICK R \in SUBSET Ranks : R = {r}
  OBVIOUS
<1>4. Transfer(R, length) /\ \A q \in R : Ready(q) /\ length[q] \in Lengths(q)
  BY <1>1, <1>2, <1>3 DEF AccessIndependent, Running, Ready
<1>. QED BY <1>4, WalkTransfer

LEMMA WalkCollective ==
  ASSUME Types, \A q \in Ranks : RankInv(q), AccessCollective
  PROVE  Types' /\ (\A q \in Ranks : RankInv(q)') /\ Walk
<1>1. PICK length : (\A r \in Ranks : length[r] \in Lengths(r)) /\ Transfer(Ranks, length)
  BY DEF AccessCollective
<1>2. \A r \in Ranks : Ready(r)
  BY DEF AccessCollective, Running, Ready
<1>3. PICK R \in SUBSET Ranks : R = Ranks
  OBVIOUS
<1>. QED BY <1>1, <1>2, <1>3, WalkTransfer

-------------------------------------------------------------------------------
(* Every step.                                                                   *)

WalkInv == Types /\ \A q \in Ranks : RankInv(q)

LEMMA WalkInit == Init => WalkInv
<1>. SUFFICES ASSUME Init PROVE WalkInv
  OBVIOUS
<1>1. << >> \in Seq(Bytes) /\ << >> \in Seq(Results)
  OBVIOUS
<1>2. DOMAIN file = {}
  BY DEF Init
<1>3. PICK handles : handles = [own |-> "unset", variable |-> "unset"]
  OBVIOUS
<1>4. handles \in Handles /\ handles.own = "unset"
  BY <1>3 DEF Handles
<1>5. Types
  <2>1. PICK nothing : nothing = << >>
    OBVIOUS
  <2>2. /\ pc = [r \in Ranks |-> "begin"] /\ fh = [r \in Ranks |-> handles]
        /\ buffer = [r \in Ranks |-> nothing] /\ result = [r \in Ranks |-> nothing]
    BY <1>3, <2>1, Zenon DEF Init
  <2>3. pc \in [Ranks -> Points] /\ fh \in [Ranks -> Handles]
    BY <1>4, <2>2 DEF Points
  <2>4. buffer \in [Ranks -> Seq(Bytes)] /\ result \in [Ranks -> Seq(Results)]
    BY <1>1, <2>1, <2>2
  <2>5. /\ ip \in [Ranks -> Nat] /\ pos \in [Ranks -> Nat] /\ calls \in [Ranks -> Nat]
        /\ count \in [Ranks -> Nat]
    BY DEF Init
  <2>6. program \in Programs /\ job \in {"running", "aborted"} /\ exists \in BOOLEAN
    BY DEF Init
  <2>. QED BY <1>2, <2>3, <2>4, <2>5, <2>6 DEF Types, FileTypes, RankTypes
<1>6. Len(program.stmts) \in Nat
  BY <1>5, LengthTyped DEF Types
<1>7. \A q \in Ranks : RankInv(q)
  BY <1>3, <1>4, <1>6 DEF Init, RankInv, OwnHandle
<1>. QED BY <1>5, <1>7 DEF WalkInv

LEMMA WalkNext == WalkInv /\ [Next]_vars => WalkInv' /\ Walk
<1>. SUFFICES ASSUME WalkInv, [Next]_vars PROVE WalkInv' /\ Walk
  OBVIOUS
<1>. SUFFICES Types' /\ (\A q \in Ranks : RankInv(q)') /\ Walk
  BY DEF WalkInv
<1>0. Types /\ \A q \in Ranks : RankInv(q)
  BY DEF WalkInv
<1>1. ASSUME NEW r \in Ranks, Step(r)
      PROVE  Types' /\ (\A q \in Ranks : RankInv(q)') /\ Walk
  BY <1>0, <1>1, WalkError, WalkBegin, WalkPDelete, WalkUninitialized, WalkIndependent, WalkAccessEnds,
     WalkReport DEF Step
<1>2. CASE Joint
  BY <1>0, <1>2, WalkOpen, WalkSetView, WalkCollective, WalkClose DEF Joint
<1>3. CASE UNCHANGED vars
  BY <1>0, <1>3, NobodyMoves DEF vars, Types
<1>. QED BY <1>1, <1>2, <1>3 DEF Next, Terminated

\* Rank r is within the transfer of its statement, or beyond it.
Within(r) == pc[r] \in {"access", "close", "report"}
Passed(q, j) == ip[q] > j \/ (ip[q] = j /\ Within(q))
\* Rank r has a view of the file in statement j, or had one and counted a success.
Transferred(r, j) == Succeeded(r, j) \/ (ip[r] = j /\ Within(r))

\* A rank transfers only when all ranks have set the view of its statement.
TogetherInv ==
  \A r, q \in Ranks, j \in DOMAIN program.stmts :
    StmtAt(j).op \in Writes \cup Reads /\ Transferred(r, j) => Passed(q, j)

LEMMA PassedStays ==
  ASSUME WalkInv, Walk, NEW q \in Ranks, NEW j \in Nat, Passed(q, j)
  PROVE  Passed(q, j)'
<1>1. ip[q] \in Nat
  BY DEF WalkInv, Types, RankTypes
<1>2. CASE Idles(q) \/ \E n : Takes(q, n)
  BY <1>2 DEF Idles, Takes, Passed, Within
<1>3. CASE Goes(q)
  BY <1>3 DEF Goes, Passed, Within
<1>4. CASE Returns(q)
  BY <1>1, <1>4 DEF Returns, Passed
<1>. QED BY <1>2, <1>3, <1>4 DEF Walk

LEMMA SucceededBefore ==
  ASSUME WalkInv, Walk, NEW r \in Ranks, NEW j \in DOMAIN program.stmts,
         StmtAt(j).op \in Writes \cup Reads, Succeeded(r, j)'
  PROVE  \/ Succeeded(r, j) /\ result'[r][j] = result[r][j]
         \/ /\ Returns(r) /\ ip[r] = j /\ pc[r] = "report" /\ count[r] = Total(Pattern(r))
            /\ result'[r][j].read = buffer[r]
<1>1. ip[r] \in Nat /\ result[r] \in Seq(Results) /\ Len(result[r]) = ip[r] - 1
  BY DEF WalkInv, Types, RankTypes, RankInv
<1>2. CASE result'[r] = result[r]
  BY <1>2 DEF Succeeded
<1>3. CASE Returns(r)
  <2>1. PICK res \in Results :
          /\ result'[r] = Append(result[r], res)
          /\ res.success /\ res.sure /\ Transfers(r) =>
               pc[r] = "report" /\ count[r] = Total(Pattern(r)) /\ res.read = buffer[r]
    BY <1>3 DEF Returns
  <2>2. j \in DOMAIN Append(result[r], res)
    BY <2>1 DEF Succeeded
  <2>3. CASE j \in DOMAIN result[r]
    <3>1. result'[r][j] = result[r][j]
      BY <1>1, <2>1, <2>3
    <3>. QED BY <2>3, <3>1 DEF Succeeded
  <2>4. CASE j \notin DOMAIN result[r]
    <3>1. j = ip[r] /\ result'[r][j] = res
      BY <1>1, <2>1, <2>2, <2>4
    <3>2. Transfers(r)
      BY <3>1, AtTyped DEF Transfers, WalkInv
    <3>. QED BY <1>3, <2>1, <3>1, <3>2 DEF Succeeded
  <2>. QED BY <2>3, <2>4
<1>. QED BY <1>2, <1>3 DEF Walk, Idles, Goes, Takes

LEMMA TransferredBefore ==
  ASSUME WalkInv, Walk, NEW r \in Ranks, NEW j \in DOMAIN program.stmts,
         StmtAt(j).op \in Writes \cup Reads, Transferred(r, j)'
  PROVE  Transferred(r, j) \/ (Joined /\ ip[r] = j /\ Goes(r))
<1>1. CASE Succeeded(r, j)'
  BY <1>1, SucceededBefore DEF Transferred, Within
<1>2. CASE ip'[r] = j /\ Within(r)'
  <2>1. CASE Idles(r) \/ \E n : Takes(r, n)
    BY <1>2, <2>1 DEF Idles, Takes, Transferred, Within
  <2>2. CASE Goes(r)
    <3>1. ip[r] = j /\ pc[r] \in Points
      BY <1>2, <2>2 DEF Goes, WalkInv, Types, RankTypes
    <3>2. Transfers(r)
      BY <3>1, AtTyped DEF Transfers, WalkInv
    <3>. QED BY <1>2, <2>2, <3>1, <3>2 DEF Goes, Transferred, Within, Points
  <2>3. CASE Returns(r)
    BY <1>2, <2>3 DEF Returns, Within
  <2>. QED BY <2>1, <2>2, <2>3 DEF Walk
<1>. QED BY <1>1, <1>2 DEF Transferred

LEMMA TogetherNext ==
  ASSUME WalkInv, Walk, TogetherInv
  PROVE  TogetherInv'
<1>1. program' = program
  BY DEF Walk
<1>2. SUFFICES ASSUME NEW r \in Ranks, NEW q \in Ranks, NEW j \in DOMAIN program.stmts,
                      StmtAt(j).op \in Writes \cup Reads, Transferred(r, j)'
               PROVE  Passed(q, j)'
  BY <1>1 DEF TogetherInv, StmtAt
<1>3. j \in Nat
  BY StmtTyped DEF WalkInv, Types
<1>4. CASE Transferred(r, j)
  BY <1>2, <1>3, <1>4, PassedStays DEF TogetherInv
<1>5. CASE Joined /\ ip[r] = j /\ Goes(r)
  <2>1. ip[q] = j /\ pc'[q] = "access" /\ pc[q] = "view"
    BY <1>5 DEF Joined
  <2>2. ip'[q] = ip[q]
    <3>1. Idles(q) \/ Goes(q) \/ (\E n : Takes(q, n)) \/ Returns(q)
      BY DEF Walk
    <3>. QED BY <2>1, <3>1 DEF Idles, Goes, Takes, Returns
  <2>. QED BY <2>1, <2>2 DEF Passed, Within
<1>. QED BY <1>2, <1>4, <1>5, TransferredBefore

-------------------------------------------------------------------------------
(* Where the bytes of the file come from.                                        *)

\* Byte w at offset b is one of a write that all ranks have begun or passed.
Source(b, w) ==
  /\ w.stmt \in DOMAIN program.stmts /\ StmtAt(w.stmt).op \in Writes
  /\ w.at \in 0 .. Total(StmtAt(w.stmt).pattern) - 1
  /\ b = Offset(StmtAt(w.stmt).pattern, w.writer, w.at)
  /\ \A q \in Ranks : Passed(q, w.stmt)
WrittenInv == \A b \in DOMAIN file : Source(b, file[b])

\* What a call puts into the file.
LEMMA PutSource ==
  ASSUME WalkInv, TogetherInv, NEW R \in SUBSET Ranks, NEW length, NEW r \in R,
         Takes(r, length[r]), Op(r) \in Writes, NEW v \in Window(r, length[r])
  PROVE  /\ Source(Offset(Pattern(r), r, v), Byte(r, v))
         /\ Byte(r, v) = [writer |-> r, stmt |-> ip[r], at |-> v]
<1>1. Types /\ r \in Ranks /\ RankInv(r) /\ pc[r] = "access"
  BY DEF WalkInv, Takes
<1>2. ip[r] \in DOMAIN program.stmts
  BY <1>1 DEF RankInv
<1>3. Pattern(r) = StmtAt(ip[r]).pattern /\ Op(r) = StmtAt(ip[r]).op /\ Pattern(r) \in Patterns
  BY <1>1, <1>2, AtTyped
<1>4. Ready(r)
  <2>1. calls[r] < Calls(Pattern(r)) /\ Calls(Pattern(r)) \in Nat /\ calls[r] \in Nat
    BY <1>1, <1>3, PatternTypes DEF Takes, Types, RankTypes
  <2>. QED BY <1>1, <2>1 DEF Ready, Moved
<1>5. v \in 0 .. Total(Pattern(r)) - 1
  <2>1. /\ CallBytes(Pattern(r)) \in Nat /\ pos[r] \in Nat
        /\ pos[r] + CallBytes(Pattern(r)) <= Total(Pattern(r))
    BY <1>1, <1>4, WindowBelow
  <2>2. length[r] \in 0 .. CallBytes(Pattern(r)) /\ Total(Pattern(r)) \in Nat
    BY <1>3, PatternTypes DEF Takes
  <2>. QED BY <2>1, <2>2 DEF Window
<1>6. \A q \in Ranks : Passed(q, ip[r])
  <2>1. Transferred(r, ip[r])
    BY <1>1 DEF Transferred, Within
  <2>. QED BY <1>1, <1>2, <1>3, <2>1 DEF TogetherInv
<1>. QED BY <1>2, <1>3, <1>5, <1>6 DEF Byte, Source

LEMMA SourceStays ==
  ASSUME WalkInv, Walk, NEW b, NEW w, Source(b, w)
  PROVE  Source(b, w)'
<1>1. w.stmt \in Nat
  BY StmtTyped DEF Source, WalkInv, Types
<1>2. \A q \in Ranks : Passed(q, w.stmt)'
  BY <1>1, PassedStays DEF Source
<1>3. program' = program
  BY DEF Walk
<1>. QED BY <1>2, <1>3 DEF Source, StmtAt

LEMMA WrittenNext ==
  ASSUME WalkInv, Walk, TogetherInv, WrittenInv
  PROVE  WrittenInv'
<1>1. CASE file' = file
  BY <1>1, SourceStays DEF WrittenInv
<1>2. CASE FileDeleted
  <2>1. DOMAIN file' = {}
    BY <1>2 DEF FileDeleted
  <2>. QED BY <2>1 DEF WrittenInv
<1>3. ASSUME NEW R \in SUBSET Ranks, NEW length, \A r \in R : Takes(r, length[r]), FilePut(R, length)
      PROVE  WrittenInv'
  <2>1. SUFFICES ASSUME NEW b \in DOMAIN file' PROVE Source(b, file'[b])
    BY SourceStays DEF WrittenInv
  <2>2. CASE b \in DOMAIN file /\ file'[b] = file[b]
    BY <2>2 DEF WrittenInv
  <2>3. CASE PutAt(R, length, b)
    BY <1>3, <2>3, PutSource DEF PutAt
  <2>. QED BY <1>3, <2>2, <2>3 DEF FilePut
<1>. QED BY <1>1, <1>2, <1>3 DEF Walk

Inv == WalkInv /\ TogetherInv /\ WrittenInv

LEMMA InvInit == Init => Inv
<1>. SUFFICES ASSUME Init PROVE Inv
  OBVIOUS
<1>1. WalkInv
  BY WalkInit
<1>2. TogetherInv
  BY DEF Init, TogetherInv, Transferred, Succeeded, Within
<1>3. DOMAIN file = {}
  BY DEF Init
<1>. QED BY <1>1, <1>2, <1>3 DEF Inv, WrittenInv

LEMMA InvNext == Inv /\ [Next]_vars => Inv' /\ Walk
BY WalkNext, TogetherNext, WrittenNext DEF Inv

LEMMA InvAlways == Spec => []Inv
<1>1. Inv /\ [Next]_vars => Inv'
  BY InvNext
<1>. QED BY InvInit, <1>1, PTL DEF Spec

-------------------------------------------------------------------------------
(* Theorems.                                                                     *)

LEMMA TypeOKOf == Inv => TypeOK
<1>. SUFFICES ASSUME Inv PROVE TypeOK
  OBVIOUS
<1>1. Types /\ \A r \in Ranks : RankInv(r)
  BY DEF Inv, WalkInv
<1>2. \A b \in DOMAIN file : b \in Nat /\ file[b].writer \in Ranks
  BY <1>1 DEF Types, FileTypes
<1>3. ASSUME NEW r \in Ranks, pc[r] # "begin", Op(r) \in Writes \cup Reads
      PROVE  count[r] \in 0 .. Total(Pattern(r)) /\ calls[r] \in 0 .. Calls(Pattern(r))
  <2>1. Pattern(r) \in Patterns
    BY <1>1, <1>3, AtTyped DEF RankInv
  <2>2. PICK n \in Nat, k \in Nat, c \in Nat, t \in Nat :
          n = CallBytes(Pattern(r)) /\ k = Calls(Pattern(r)) /\ c = calls[r] /\ t = Total(Pattern(r))
    BY <1>1, <2>1, PatternTypes DEF Types, RankTypes
  <2>3. count[r] \in Nat /\ pos[r] \in Nat /\ t = k * n
    BY <1>1, <2>1, <2>2, PatternTypes DEF Types, RankTypes
  <2>4. CASE pc[r] \in {"open", "view"}
    BY <1>1, <2>2, <2>4 DEF RankInv
  <2>5. CASE pc[r] \in {"access", "close", "report"}
    <3>1. c <= k /\ pos[r] = c * n /\ count[r] <= pos[r]
      BY <1>1, <1>3, <2>2, <2>5 DEF RankInv, Amounts, Transfers
    <3>2. c * n <= k * n /\ c * n \in Nat
      BY <3>1, MulMono, MulNat
    <3>. QED BY <2>2, <2>3, <3>1, <3>2
  <2>. QED BY <1>1, <1>3, <2>4, <2>5 DEF Types, RankTypes, Points
<1>4. ASSUME NEW r \in Ranks
      PROVE  /\ ip[r] \in 1 .. Len(program.stmts) + 1 /\ Len(result[r]) = ip[r] - 1
             /\ pc[r] \in Points /\ fh[r] \in Handles
             /\ pc[r] = "begin" => pos[r] = 0 /\ calls[r] = 0 /\ fh[r].own = "unset"
  BY <1>1 DEF Types, RankTypes, RankInv, OwnHandle
<1>. QED BY <1>1, <1>2, <1>3, <1>4 DEF TypeOK, Types, Points, Handles

\* The state has its types: a rank's position, calls and count stay within its pattern,
\* however transfers fall short, handles fail and files are deleted, and it enters a
\* statement with all of them at zero and no file of its own (iio_mpi.c:44-575).
THEOREM TypeCorrect == Spec => []TypeOK
BY InvAlways, TypeOKOf, PTL

LEMMA StripesOf == Inv => Stripes
<1>. SUFFICES ASSUME Inv, NEW b \in DOMAIN file
     PROVE LET w == file[b]
               p == StmtAt(w.stmt).pattern
           IN /\ (b \div p.elem) % GroupSize(p) = Column(p, w.writer)
              /\ w.at = (b \div (p.elem * GroupSize(p))) * p.elem + (b % p.elem)
              /\ w.at < Total(p)
  BY DEF Stripes
<1>1. PICK w : w = file[b]
  OBVIOUS
<1>2. PICK p : p = StmtAt(w.stmt).pattern
  OBVIOUS
<1>3. Source(b, w)
  BY <1>1 DEF Inv, WrittenInv
<1>4. p \in Patterns
  BY <1>2, <1>3, StmtTyped DEF Source, Inv, WalkInv, Types
<1>5. w.at \in 0 .. Total(p) - 1 /\ b = Offset(p, w.writer, w.at)
  BY <1>2, <1>3 DEF Source
<1>6. Total(p) \in Nat
  BY <1>4, PatternTypes
<1>7. w.at < Total(p)
  BY <1>5, <1>6
<1>8. /\ (b \div p.elem) % GroupSize(p) = Column(p, w.writer)
      /\ w.at = (b \div (p.elem * GroupSize(p))) * p.elem + (b % p.elem)
  BY <1>4, <1>5, OffsetPlace
<1>. QED BY <1>1, <1>2, <1>7, <1>8, Zenon

\* All levels and both pattern types lay out the file in the same rows: every byte lies
\* in its writer's column, in the order of the writer's view, and within the pattern
\* (patterns.c:73-104, iio_mpi.c:44-204 and 369-527).
THEOREM LayoutStriped == Spec => []Stripes
BY InvAlways, StripesOf, PTL

LEMMA NeverOverwrittenOf ==
  ASSUME Inv, Walk, NEW b \in DOMAIN file \cap DOMAIN file', file'[b] # file[b],
         {file[b].writer, file'[b].writer} \subseteq StmtAt(file[b].stmt).pattern.group
  PROVE  file'[b].stmt > file[b].stmt
<1>1. ~FileDeleted
  BY DEF FileDeleted
<1>2. PICK R : \E length :
        R \in SUBSET Ranks /\ (\A r \in R : Takes(r, length[r])) /\ FilePut(R, length)
  BY <1>1 DEF Walk
<1>3. PICK length :
        R \in SUBSET Ranks /\ (\A r \in R : Takes(r, length[r])) /\ FilePut(R, length)
  BY <1>2
<1>4. PICK r \in R : /\ Op(r) \in Writes
                    /\ \E v \in Window(r, length[r]) :
                         b = Offset(Pattern(r), r, v) /\ file'[b] = Byte(r, v)
  BY <1>3 DEF FilePut, PutAt
<1>5. PICK v \in Window(r, length[r]) : b = Offset(Pattern(r), r, v) /\ file'[b] = Byte(r, v)
  BY <1>4
<1>6. PICK w : w = file[b]
  OBVIOUS
<1>7. Source(b, w)
  BY <1>6 DEF Inv, WrittenInv
<1>8. Source(b, Byte(r, v)) /\ Byte(r, v) = [writer |-> r, stmt |-> ip[r], at |-> v]
  BY <1>3, <1>4, <1>5, PutSource DEF Inv
<1>9. file'[b].writer = r /\ file'[b].stmt = ip[r] /\ file'[b].at = v
  BY <1>5, <1>8
<1>10. ip[r] \in Nat /\ w.stmt \in Nat /\ ip[r] >= w.stmt
  <2>1. Passed(r, w.stmt) /\ ip[r] \in Nat /\ w.stmt \in Nat
    BY <1>3, <1>7, StmtTyped DEF Source, Inv, WalkInv, Types, RankTypes
  <2>. QED BY <2>1 DEF Passed
<1>11. SUFFICES ASSUME ip[r] = w.stmt PROVE FALSE
  BY <1>6, <1>9, <1>10
<1>12. PICK p \in Patterns : p = StmtAt(w.stmt).pattern
  BY <1>7, StmtTyped DEF Source, Inv, WalkInv, Types
<1>13. w.at \in 0 .. Total(p) - 1 /\ b = Offset(p, w.writer, w.at)
  BY <1>7, <1>12 DEF Source
<1>14. v \in 0 .. Total(p) - 1 /\ b = Offset(p, r, v)
  BY <1>8, <1>11, <1>12 DEF Source
<1>15. r \in p.group /\ w.writer \in p.group
  BY <1>6, <1>9, <1>12
<1>16. r = w.writer /\ v = w.at
  <2>1. PICK q \in p.group, u \in 0 .. Total(p) - 1 : q = w.writer /\ u = w.at
    BY <1>13, <1>15
  <2>2. Offset(p, r, v) = Offset(p, q, u)
    BY <1>13, <1>14, <2>1
  <2>. QED BY <1>14, <1>15, <2>1, <2>2, OffsetsDiffer
<1>17. file[b] \in [writer : Ranks, stmt : Nat, at : Nat]
  BY DEF Inv, WalkInv, Types, FileTypes
<1>18. w = [writer |-> r, stmt |-> ip[r], at |-> v]
  BY <1>6, <1>11, <1>16, <1>17
<1>. QED BY <1>5, <1>6, <1>8, <1>18

\* Ranks of the pattern's group never write a byte twice in the same statement: what
\* replaces a byte is of a later one, in whatever order they make their independent
\* calls (patterns.c:44-130, iio_mpi.c:74-123).
THEOREM WritesApart == Spec => NeverOverwritten
<1>1. ASSUME Inv, [Next]_vars
      PROVE  \A b \in DOMAIN file \cap DOMAIN file' :
               LET w == file[b]
                   p == StmtAt(w.stmt).pattern
               IN (file'[b] # w /\ {w.writer, file'[b].writer} \subseteq p.group) => file'[b].stmt > w.stmt
  <2>1. Walk
    BY <1>1, InvNext
  <2>. QED BY <1>1, <2>1, NeverOverwrittenOf
<1>2. Inv /\ [Next]_vars =>
        [\A b \in DOMAIN file \cap DOMAIN file' :
           LET w == file[b]
               p == StmtAt(w.stmt).pattern
           IN (file'[b] # w /\ {w.writer, file'[b].writer} \subseteq p.group) => file'[b].stmt > w.stmt]_vars
  BY <1>1
<1>. QED BY InvAlways, <1>2, PTL DEF Spec, NeverOverwritten

-------------------------------------------------------------------------------
(***************************************************************************)
(* Proofs that parallel I/O keeps its data, for every number of ranks and  *)
(* every program: a successful write is in the file entirely until later   *)
(* statements change it, and a successful read returns what was written.   *)
(***************************************************************************)

\* Some rank is at, or beyond, a later statement that may change what j wrote.
Disturbed(j) ==
  \E q \in Ranks, l \in DOMAIN program.stmts :
    j < l /\ l <= ip[q] /\ StmtAt(l).op \in Writes \cup {"pdelete"}

\* The file has, where rank r's byte v of statement j belongs, a byte of that statement.
InPlace(r, j, v) ==
  LET p == StmtAt(j).pattern
      b == Offset(p, r, v)
  IN  /\ b \in DOMAIN file /\ file[b].stmt = j
      /\ Apart(p) => file[b] = [writer |-> r, stmt |-> j, at |-> v]

Kept(r, j, n) == Disturbed(j) \/ \A v \in 0 .. n - 1 : InPlace(r, j, v)

\* What a rank has written without a short transfer is in the file.
KeptInv ==
  \A r \in Ranks, j \in DOMAIN program.stmts : StmtAt(j).op \in Writes =>
    /\ Succeeded(r, j) => Kept(r, j, Total(StmtAt(j).pattern))
    /\ ip[r] = j /\ Within(r) /\ count[r] = pos[r] => Kept(r, j, pos[r])

\* While a rank reads, another may have gone on, but only deleting the file.
ReadableInv ==
  \A r \in Ranks, j \in DOMAIN program.stmts :
    (/\ pc[r] = "access" /\ StmtAt(j).op \in Writes /\ Succeeded(r, j) /\ Untouched(j + 1, ip[r])) =>
      DOMAIN file = {} \/ \A v \in 0 .. Total(StmtAt(j).pattern) - 1 : InPlace(r, j, v)

\* The first n bytes of rank r's view of statement j.
Text(r, j, n) == [i \in 1 .. n |-> [writer |-> r, stmt |-> j, at |-> i - 1]]

\* Statement k reads what rank r wrote in statement j.
Rereads(r, j, k) ==
  LET p == StmtAt(j).pattern
      q == StmtAt(k).pattern
  IN  /\ j < k /\ StmtAt(j).op \in Writes /\ Succeeded(r, j) /\ StmtAt(k).op \in Reads
      /\ Untouched(j + 1, k) /\ Apart(p)
      /\ << p.iter, p.elem, p.group >> = << q.iter, q.elem, q.group >>

ReadInv ==
  \A r \in Ranks, j, k \in DOMAIN program.stmts : Rereads(r, j, k) =>
    /\ Succeeded(r, k) => result[r][k].read = Text(r, j, Total(StmtAt(j).pattern))
    /\ ip[r] = k /\ Within(r) /\ count[r] = pos[r] => buffer[r] = Text(r, j, pos[r])

-------------------------------------------------------------------------------
(* Steps.                                                                        *)

LEMMA IpGrows ==
  ASSUME Inv, Walk, NEW q \in Ranks
  PROVE  ip[q] \in Nat /\ ip'[q] \in Nat /\ ip[q] <= ip'[q]
<1>1. ip[q] \in Nat
  BY DEF Inv, WalkInv, Types, RankTypes
<1>2. ip'[q] = ip[q] \/ ip'[q] = ip[q] + 1
  BY DEF Walk, Idles, Goes, Takes, Returns
<1>. QED BY <1>1, <1>2

LEMMA StmtIn ==
  ASSUME Inv, NEW j \in DOMAIN program.stmts
  PROVE  /\ j \in Nat \ {0} /\ StmtAt(j).op \in Ops /\ StmtAt(j).pattern \in Patterns
         /\ Total(StmtAt(j).pattern) \in Nat
         /\ \A l : l \in DOMAIN program.stmts <=> l \in 1 .. Len(program.stmts)
         /\ Len(program.stmts) \in Nat
<1>1. program \in Programs
  BY DEF Inv, WalkInv, Types
<1>. QED BY <1>1, StmtTyped, LengthTyped, PatternTypes

LEMMA DisturbedStays ==
  ASSUME Inv, Walk, NEW j \in DOMAIN program.stmts, Disturbed(j)
  PROVE  Disturbed(j)'
<1>1. program' = program
  BY DEF Walk
<1>2. PICK q \in Ranks, l \in DOMAIN program.stmts :
        j < l /\ l <= ip[q] /\ StmtAt(l).op \in Writes \cup {"pdelete"}
  BY DEF Disturbed
<1>3. l <= ip'[q]
  BY <1>2, IpGrows, StmtIn
<1>. QED BY <1>1, <1>2, <1>3 DEF Disturbed, StmtAt

\* A rank that has passed j and does something to the file is still at j, or disturbs it.
LEMMA ChangesAt ==
  ASSUME Inv, Walk, NEW q \in Ranks, NEW j \in DOMAIN program.stmts, Passed(q, j),
         ip[q] \in DOMAIN program.stmts, Op(q) \in Writes \cup {"pdelete"}, ~Disturbed(j)'
  PROVE  ip[q] = j /\ Op(q) = StmtAt(j).op
<1>1. Types /\ program' = program
  BY DEF Inv, WalkInv, Walk
<1>2. Op(q) = StmtAt(ip[q]).op /\ ip[q] \in Nat /\ j \in Nat
  BY <1>1, AtTyped, StmtIn
<1>3. ~(j < ip[q])
  BY <1>1, <1>2, IpGrows DEF Disturbed, StmtAt
<1>. QED BY <1>2, <1>3 DEF Passed

\* A call that puts a byte where byte v of rank r belongs puts a byte of statement j
\* there, and that very byte if no stripes are shared.
LEMMA PutInPlace ==
  ASSUME Inv, Walk, NEW R \in SUBSET Ranks, NEW length, \A q \in R : Takes(q, length[q]),
         NEW r \in Ranks, NEW j \in DOMAIN program.stmts, StmtAt(j).op \in Writes,
         \A q \in Ranks : Passed(q, j), ~Disturbed(j)',
         NEW v \in 0 .. Total(StmtAt(j).pattern) - 1,
         PutAt(R, length, Offset(StmtAt(j).pattern, r, v))
  PROVE  InPlace(r, j, v)'
<1>1. PICK p \in Patterns : p = StmtAt(j).pattern
  BY StmtIn
<1>2. PICK b : b = Offset(p, r, v)
  OBVIOUS
<1>3. PICK q \in R : /\ Op(q) \in Writes
                    /\ \E u \in Window(q, length[q]) :
                         b = Offset(Pattern(q), q, u) /\ b \in DOMAIN file' /\ file'[b] = Byte(q, u)
  BY <1>1, <1>2 DEF PutAt
<1>4. PICK u \in Window(q, length[q]) :
        b = Offset(Pattern(q), q, u) /\ b \in DOMAIN file' /\ file'[b] = Byte(q, u)
  BY <1>3
<1>5. Source(b, Byte(q, u)) /\ Byte(q, u) = [writer |-> q, stmt |-> ip[q], at |-> u]
  BY <1>3, <1>4, PutSource DEF Inv
<1>6. ip[q] = j
  BY <1>3, <1>5, ChangesAt DEF Source
<1>7. u \in 0 .. Total(p) - 1 /\ b = Offset(p, q, u)
  BY <1>1, <1>5, <1>6 DEF Source
<1>8. ASSUME Apart(p) PROVE q = r /\ u = v
  <2>1. q \in p.group /\ r \in p.group /\ v \in 0 .. Total(p) - 1
    BY <1>1, <1>8 DEF Apart
  <2>2. Offset(p, q, u) = Offset(p, r, v)
    BY <1>2, <1>7
  <2>. QED BY <1>7, <2>1, <2>2, OffsetsDiffer
<1>9. program' = program
  BY DEF Walk
<1>10. b \in DOMAIN file' /\ file'[b].stmt = j /\ (Apart(p) => file'[b] = [writer |-> r, stmt |-> j, at |-> v])
  BY <1>4, <1>5, <1>6, <1>8
<1>. QED BY <1>1, <1>2, <1>9, <1>10 DEF InPlace, StmtAt

LEMMA InPlaceStays ==
  ASSUME Inv, Walk, NEW r \in Ranks, NEW j \in DOMAIN program.stmts, StmtAt(j).op \in Writes,
         \A q \in Ranks : Passed(q, j), ~Disturbed(j)',
         NEW v \in 0 .. Total(StmtAt(j).pattern) - 1, InPlace(r, j, v)
  PROVE  InPlace(r, j, v)'
<1>1. program' = program
  BY DEF Walk
<1>2. CASE file' = file
  BY <1>1, <1>2 DEF InPlace, StmtAt
<1>3. CASE FileDeleted
  <2>1. PICK q \in Ranks : ip[q] \in DOMAIN program.stmts /\ Op(q) = "pdelete"
    BY <1>3 DEF FileDeleted
  <2>2. StmtAt(j).op = "pdelete"
    BY <2>1, ChangesAt
  <2>. QED BY <2>2 DEF Writes
<1>4. ASSUME NEW R \in SUBSET Ranks, NEW length, \A q \in R : Takes(q, length[q]), FilePut(R, length)
      PROVE  InPlace(r, j, v)'
  <2>1. PICK b : b = Offset(StmtAt(j).pattern, r, v)
    OBVIOUS
  <2>2. b \in DOMAIN file'
    BY <1>4, <2>1 DEF FilePut, InPlace
  <2>3. CASE file'[b] = file[b]
    BY <1>1, <2>1, <2>2, <2>3 DEF InPlace, StmtAt
  <2>4. CASE PutAt(R, length, b)
    BY <1>4, <2>1, <2>4, PutInPlace
  <2>. QED BY <1>4, <2>2, <2>3, <2>4 DEF FilePut
<1>. QED BY <1>2, <1>3, <1>4 DEF Walk

LEMMA KeptStays ==
  ASSUME Inv, Walk, NEW r \in Ranks, NEW j \in DOMAIN program.stmts, StmtAt(j).op \in Writes,
         Transferred(r, j), NEW n \in Nat, n <= Total(StmtAt(j).pattern), Kept(r, j, n)
  PROVE  Kept(r, j, n)'
<1>1. \A q \in Ranks : Passed(q, j)
  BY DEF Inv, TogetherInv
<1>2. CASE Disturbed(j)
  BY <1>2, DisturbedStays DEF Kept
<1>3. CASE ~Disturbed(j) /\ ~Disturbed(j)'
  <2>1. Total(StmtAt(j).pattern) \in Nat
    BY StmtIn
  <2>2. ASSUME NEW v \in 0 .. n - 1 PROVE InPlace(r, j, v)'
    <3>1. v \in 0 .. Total(StmtAt(j).pattern) - 1 /\ InPlace(r, j, v)
      BY <1>3, <2>1 DEF Kept
    <3>. QED BY <1>1, <1>3, <3>1, InPlaceStays
  <2>. QED BY <2>2 DEF Kept
<1>. QED BY <1>2, <1>3 DEF Kept

\* At the end of a transfer all bytes have been asked for.
LEMMA AllAsked ==
  ASSUME Inv, NEW r \in Ranks, pc[r] = "report", ip[r] \in DOMAIN program.stmts,
         StmtAt(ip[r]).op \in Writes \cup Reads
  PROVE  pos[r] = Total(StmtAt(ip[r]).pattern) /\ Pattern(r) = StmtAt(ip[r]).pattern
<1>1. Types /\ RankInv(r)
  BY DEF Inv, WalkInv
<1>2. Pattern(r) \in Patterns /\ Pattern(r) = StmtAt(ip[r]).pattern /\ Op(r) = StmtAt(ip[r]).op
  BY <1>1, AtTyped
<1>3. Transfers(r)
  BY <1>2 DEF Transfers
<1>4. pos[r] = calls[r] * CallBytes(Pattern(r)) /\ calls[r] = Calls(Pattern(r))
  BY <1>1, <1>3 DEF RankInv, Amounts
<1>5. Calls(Pattern(r)) * CallBytes(Pattern(r)) = Total(Pattern(r))
  BY <1>2, PatternTypes
<1>. QED BY <1>2, <1>4, <1>5, Zenon

LEMMA AskedBelow ==
  ASSUME Inv, NEW r \in Ranks, Within(r), ip[r] \in DOMAIN program.stmts,
         StmtAt(ip[r]).op \in Writes \cup Reads
  PROVE  pos[r] <= Total(StmtAt(ip[r]).pattern)
<1>1. Types /\ RankInv(r)
  BY DEF Inv, WalkInv
<1>2. Pattern(r) \in Patterns /\ Pattern(r) = StmtAt(ip[r]).pattern /\ Op(r) = StmtAt(ip[r]).op
  BY <1>1, AtTyped
<1>3. PICK n \in Nat, k \in Nat, c \in Nat :
        n = CallBytes(Pattern(r)) /\ k = Calls(Pattern(r)) /\ c = calls[r]
  BY <1>1, <1>2, PatternTypes DEF Types, RankTypes
<1>4. c <= k /\ pos[r] = c * n
  BY <1>1, <1>2, <1>3 DEF Within, RankInv, Transfers, Amounts
<1>5. c * n <= k * n
  BY <1>4, MulMono
<1>6. k * n = Total(StmtAt(ip[r]).pattern)
  BY <1>2, <1>3, PatternTypes
<1>. QED BY <1>4, <1>5, <1>6

\* How a rank comes to be within a transfer.
LEMMA WithinBefore ==
  ASSUME Inv, Walk, NEW r \in Ranks, Within(r)', ip'[r] \in DOMAIN program.stmts,
         StmtAt(ip'[r]).op \in Writes \cup Reads
  PROVE  /\ ip[r] = ip'[r]
         /\ \/ pos'[r] = 0 /\ buffer'[r] = << >>
            \/ Within(r) /\ pos'[r] = pos[r] /\ count'[r] = count[r] /\ buffer'[r] = buffer[r]
            \/ \E R \in SUBSET Ranks : \E length :
                 /\ r \in R /\ (\A q \in R : Takes(q, length[q])) /\ FilePut(R, length)
<1>1. Types /\ RankInv(r) /\ pc[r] \in Points
  BY DEF Inv, WalkInv, Types, RankTypes
<1>2. CASE Idles(r)
  BY <1>2 DEF Idles, Within
<1>3. CASE Goes(r)
  <2>1. ip[r] = ip'[r] /\ pos'[r] = pos[r] /\ count'[r] = count[r] /\ buffer'[r] = buffer[r]
    BY <1>3 DEF Goes
  <2>2. Transfers(r)
    BY <1>1, <2>1, AtTyped DEF Transfers
  <2>3. pc[r] \in {"begin", "open"} => ~Within(r)'
    BY <1>3, <2>2 DEF Goes, Within
  <2>4. pc[r] = "view" => pos[r] = 0 /\ buffer[r] = << >>
    BY <1>1 DEF RankInv
  <2>. QED BY <1>1, <2>1, <2>3, <2>4 DEF Points, Within
<1>4. CASE Returns(r)
  BY <1>4 DEF Returns, Within
<1>5. ASSUME NEW R \in SUBSET Ranks, NEW length, r \in R, \A q \in R : Takes(q, length[q]), FilePut(R, length)
      PROVE  /\ ip[r] = ip'[r]
             /\ \E S \in SUBSET Ranks : \E l : r \in S /\ (\A q \in S : Takes(q, l[q])) /\ FilePut(S, l)
  BY <1>5 DEF Takes
<1>. QED BY <1>2, <1>3, <1>4, <1>5 DEF Walk

\* If all bytes were moved, they were before the last call, and it moved all of its own.
LEMMA FullTake ==
  ASSUME Inv, NEW r \in Ranks, NEW n, Takes(r, n), count'[r] = pos'[r]
  PROVE  /\ count[r] = pos[r] /\ pos'[r] = pos[r] + n /\ pos[r] \in Nat /\ n \in Nat
         /\ pos[r] + n <= Total(Pattern(r)) /\ Within(r)
<1>1. Types /\ RankInv(r) /\ pc[r] = "access"
  BY DEF Inv, WalkInv, Takes
<1>2. Pattern(r) \in Patterns
  BY <1>1, AtTyped DEF RankInv
<1>3. Ready(r)
  <2>1. calls[r] < Calls(Pattern(r)) /\ Calls(Pattern(r)) \in Nat /\ calls[r] \in Nat
    BY <1>1, <1>2, PatternTypes DEF Takes, Types, RankTypes
  <2>. QED BY <1>1, <2>1 DEF Ready, Moved
<1>4. /\ CallBytes(Pattern(r)) \in Nat /\ pos[r] \in Nat
      /\ pos[r] + CallBytes(Pattern(r)) <= Total(Pattern(r))
  BY <1>1, <1>3, WindowBelow
<1>5. count[r] <= pos[r] /\ count[r] \in Nat
  BY <1>1 DEF RankInv, Amounts, Types, RankTypes
<1>6. /\ pos'[r] = pos[r] + CallBytes(Pattern(r)) /\ count'[r] = count[r] + n
      /\ n \in 0 .. CallBytes(Pattern(r))
  BY DEF Takes
<1>7. n = CallBytes(Pattern(r)) /\ count[r] = pos[r] /\ n \in Nat
  BY <1>4, <1>5, <1>6
<1>. QED BY <1>1, <1>4, <1>6, <1>7 DEF Within

LEMMA KeptNext ==
  ASSUME Inv, Walk, KeptInv
  PROVE  KeptInv'
<1>1. program' = program
  BY DEF Walk
<1>2. SUFFICES ASSUME NEW r \in Ranks, NEW j \in DOMAIN program.stmts, StmtAt(j).op \in Writes
               PROVE  /\ Succeeded(r, j)' => Kept(r, j, Total(StmtAt(j).pattern))'
                      /\ (ip'[r] = j /\ Within(r)' /\ count'[r] = pos'[r]) => Kept(r, j, pos[r])'
  BY <1>1 DEF KeptInv, StmtAt
<1>3. PICK total \in Nat : total = Total(StmtAt(j).pattern)
  BY StmtIn
<1>4. total = Total(StmtAt(j).pattern)'
  BY <1>1, <1>3 DEF StmtAt
<1>5. ASSUME Succeeded(r, j)'
      PROVE  Kept(r, j, total)'
  <2>1. Transferred(r, j) /\ Kept(r, j, total)
    <3>1. CASE Succeeded(r, j)
      BY <1>2, <1>3, <3>1 DEF KeptInv, Transferred
    <3>2. CASE ip[r] = j /\ pc[r] = "report" /\ count[r] = Total(Pattern(r))
      <4>1. pos[r] = total /\ count[r] = total
        BY <1>2, <1>3, <3>2, AllAsked
      <4>2. Within(r)
        BY <3>2 DEF Within
      <4>. QED BY <1>2, <3>2, <4>1, <4>2 DEF KeptInv, Transferred
    <3>. QED BY <1>2, <1>5, <3>1, <3>2, SucceededBefore DEF Inv
  <2>. QED BY <1>2, <1>3, <2>1, KeptStays
<1>6. ASSUME ip'[r] = j, Within(r)', count'[r] = pos'[r], NEW n, n = pos'[r]
      PROVE  Kept(r, j, n)'
  <2>1. ip[r] = j /\ pos[r] \in Nat
    BY <1>2, <1>6, WithinBefore DEF Inv, WalkInv, Types, RankTypes
  <2>2. CASE pos'[r] = 0
    BY <1>6, <2>2 DEF Kept
  <2>3. ASSUME Within(r), pos[r] <= total, count[r] = pos[r]
        PROVE  Kept(r, j, pos[r]) /\ \A k : k = pos[r] => Kept(r, j, k)'
    <3>1. Transferred(r, j) /\ Kept(r, j, pos[r])
      BY <1>2, <2>1, <2>3 DEF KeptInv, Transferred
    <3>2. PICK k \in Nat : k = pos[r]
      BY <2>1
    <3>3. Kept(r, j, k)'
      BY <1>2, <1>3, <2>3, <3>1, <3>2, KeptStays
    <3>. QED BY <3>1, <3>2, <3>3
  <2>4. CASE Within(r) /\ pos'[r] = pos[r] /\ count'[r] = count[r]
    <3>1. pos[r] <= total
      BY <1>2, <1>3, <2>1, <2>4, AskedBelow
    <3>. QED BY <1>6, <2>3, <2>4, <3>1
  <2>5. ASSUME NEW R \in SUBSET Ranks, NEW length, r \in R, \A q \in R : Takes(q, length[q]),
               FilePut(R, length)
        PROVE  Kept(r, j, n)'
    <3>1. Types /\ Op(r) = StmtAt(j).op /\ Pattern(r) = StmtAt(j).pattern
      BY <1>2, <2>1, AtTyped DEF Inv, WalkInv
    <3>2. PICK l : l = length[r]
      OBVIOUS
    <3>3. /\ count[r] = pos[r] /\ n = pos[r] + l /\ pos[r] \in Nat /\ l \in Nat
          /\ pos[r] + l <= total /\ Within(r)
      BY <1>3, <1>6, <2>5, <3>1, <3>2, FullTake
    <3>4. PICK k \in Nat : k = pos[r]
      BY <3>3
    <3>5. Kept(r, j, k)'
      BY <2>3, <3>3, <3>4
    <3>6. Transferred(r, j)
      BY <2>1, <3>3 DEF Transferred
    <3>7. \A q \in Ranks : Passed(q, j)
      BY <1>2, <3>6 DEF Inv, TogetherInv
    <3>8. ASSUME ~Disturbed(j)', NEW v \in 0 .. n - 1
          PROVE  InPlace(r, j, v)'
      <4>1. CASE v < k
        BY <3>5, <3>8, <4>1 DEF Kept
      <4>2. CASE ~(v < k)
        <5>1. v \in Window(r, length[r]) /\ v \in 0 .. Total(StmtAt(j).pattern) - 1
          BY <1>3, <3>2, <3>3, <3>4, <4>2 DEF Window
        <5>2. PutAt(R, length, Offset(StmtAt(j).pattern, r, v))
          BY <1>2, <2>5, <3>1, <5>1 DEF FilePut
        <5>. QED BY <1>2, <2>5, <3>7, <3>8, <5>1, <5>2, PutInPlace
      <4>. QED BY <4>1, <4>2
    <3>. QED BY <3>8 DEF Kept
  <2>. QED BY <1>2, <1>6, <2>2, <2>4, <2>5, WithinBefore
<1>. QED BY <1>3, <1>4, <1>5, <1>6

LEMMA ReadableNext ==
  ASSUME Inv, Inv', Walk, KeptInv, KeptInv', ReadableInv
  PROVE  ReadableInv'
<1>1. program' = program
  BY DEF Walk
<1>2. SUFFICES ASSUME NEW r \in Ranks, NEW j \in DOMAIN program.stmts, pc'[r] = "access",
                      StmtAt(j).op \in Writes, Succeeded(r, j)', Untouched(j + 1, ip[r])',
                      DOMAIN file' # {}, NEW v \in 0 .. Total(StmtAt(j).pattern) - 1
               PROVE  InPlace(r, j, v)'
  BY <1>1 DEF ReadableInv, StmtAt
<1>3. /\ \A l \in j + 1 .. ip'[r] : StmtAt(l).op \notin Writes \cup {"pdelete"}
      /\ \A l \in Nat : j < l /\ l <= ip'[r] => StmtAt(l).op \notin Writes \cup {"pdelete"}
  <2>1. \A l \in j + 1 .. ip'[r] : StmtAt(l).op \notin Writes \cup {"pdelete"}
    BY <1>1, <1>2 DEF Untouched, StmtAt
  <2>. QED BY <2>1, IpGrows, StmtIn
<1>4. Succeeded(r, j) /\ ip'[r] = ip[r]
  <2>1. ~Returns(r)
    BY <1>2 DEF Returns
  <2>2. ip'[r] = ip[r]
    BY <2>1 DEF Walk, Idles, Goes, Takes
  <2>. QED BY <1>2, <2>1, <2>2, SucceededBefore DEF Inv
<1>5. CASE Joined
  <2>1. Kept(r, j, Total(StmtAt(j).pattern))'
    BY <1>1, <1>2 DEF KeptInv, StmtAt
  <2>2. \A q \in Ranks : ip'[q] = ip'[r]
    <3>1. ASSUME NEW q \in Ranks PROVE ip'[q] = ip[q]
      BY <1>5 DEF Joined, Walk, Idles, Goes, Takes, Returns
    <3>. QED BY <1>5, <3>1 DEF Joined
  <2>3. ~Disturbed(j)'
    BY <1>1, <1>3, <2>2, StmtIn DEF Disturbed, StmtAt
  <2>. QED BY <1>1, <1>2, <2>1, <2>3 DEF Kept, StmtAt
<1>6. CASE pc[r] = "access"
  <2>1. Untouched(j + 1, ip[r])
    BY <1>3, <1>4 DEF Untouched
  <2>2. DOMAIN file = {} \/ InPlace(r, j, v)
    BY <1>2, <1>4, <1>6, <2>1 DEF ReadableInv
  <2>3. CASE file' = file
    BY <1>1, <1>2, <2>2, <2>3 DEF InPlace, StmtAt
  <2>4. CASE FileDeleted
    BY <1>2, <2>4 DEF FileDeleted
  <2>5. ASSUME NEW R \in SUBSET Ranks, NEW length, \A q \in R : Takes(q, length[q]), FilePut(R, length)
        PROVE  InPlace(r, j, v)'
    <3>1. ASSUME NEW q \in R, Op(q) \in Writes PROVE FALSE
      <4>1. Types /\ RankInv(q) /\ RankInv(r) /\ pc[q] = "access"
        BY <2>5, <3>1 DEF Inv, WalkInv, Takes
      <4>2. /\ ip[q] \in DOMAIN program.stmts /\ ip[r] \in DOMAIN program.stmts
            /\ ip[q] \in Nat /\ ip[r] \in Nat
        BY <1>6, <4>1, StmtIn DEF RankInv
      <4>3. Op(q) = StmtAt(ip[q]).op /\ StmtAt(ip[r]).op \in Writes \cup Reads
        BY <1>6, <4>1, <4>2, AtTyped DEF RankInv, Transfers
      <4>4. Passed(r, ip[q]) /\ Passed(q, ip[r])
        BY <1>6, <3>1, <4>1, <4>2, <4>3 DEF Inv, TogetherInv, Transferred, Within
      <4>5. ip[q] = ip[r]
        BY <4>2, <4>4 DEF Passed
      <4>6. j < ip[r]
        BY <1>4, <4>1, <4>2 DEF Succeeded, Types, RankTypes, RankInv
      <4>. QED BY <1>3, <1>4, <3>1, <4>2, <4>3, <4>5, <4>6
    <3>2. \A b \in DOMAIN file' : b \in DOMAIN file /\ file'[b] = file[b]
      BY <2>5, <3>1 DEF FilePut, PutAt
    <3>3. InPlace(r, j, v)
      BY <1>2, <2>2, <3>2
    <3>4. DOMAIN file \subseteq DOMAIN file'
      BY <2>5 DEF FilePut
    <3>. QED BY <1>1, <3>2, <3>3, <3>4 DEF InPlace, StmtAt
  <2>. QED BY <2>3, <2>4, <2>5 DEF Walk
<1>7. pc[r] = "access" \/ Joined
  <2>1. pc[r] \in Points /\ RankInv(r)
    BY DEF Inv, WalkInv, Types, RankTypes
  <2>2. CASE Goes(r)
    <3>1. Transfers(r)
      <4>1. Transfers(r)' /\ ip'[r] = ip[r]
        BY <1>2, <2>2 DEF Inv, WalkInv, RankInv, Goes
      <4>. QED BY <1>1, <4>1, SameOp
    <3>2. pc[r] \notin {"begin", "open"}
      BY <1>2, <2>2, <3>1 DEF Goes
    <3>3. pc[r] \in {"view", "access"}
      BY <1>2, <2>1, <2>2, <3>2 DEF Goes, Points
    <3>. QED BY <2>2, <3>3 DEF Goes
  <2>. QED BY <1>2, <2>2 DEF Walk, Idles, Takes, Returns
<1>. QED BY <1>5, <1>6, <1>7

LEMMA SameOffset ==
  ASSUME NEW p \in Patterns, NEW q \in Patterns, NEW r,
         << p.iter, p.elem, p.group >> = << q.iter, q.elem, q.group >>
  PROVE  Total(p) = Total(q) /\ \A v \in 0 .. Total(p) - 1 : Offset(p, r, v) = Offset(q, r, v)
<1>1. p.iter = q.iter /\ p.elem = q.elem /\ p.group = q.group
  OBVIOUS
<1>2. Total(p) = Total(q)
  BY <1>1, Zenon DEF Total
<1>3. GroupSize(p) = GroupSize(q) /\ Column(p, r) = Column(q, r)
  BY <1>1, Zenon DEF GroupSize, Column
<1>4. ASSUME NEW v \in 0 .. Total(p) - 1 PROVE Offset(p, r, v) = Offset(q, r, v)
  <2>1. v \in 0 .. Total(q) - 1
    BY <1>2
  <2>2. Offset(p, r, v) = ((v \div p.elem) * GroupSize(p) + Column(p, r)) * p.elem + (v % p.elem)
    BY OffsetInRows
  <2>3. Offset(q, r, v) = ((v \div q.elem) * GroupSize(q) + Column(q, r)) * q.elem + (v % q.elem)
    BY <2>1, OffsetInRows
  <2>. QED BY <1>1, <1>3, <2>2, <2>3, Zenon
<1>. QED BY <1>2, <1>4

LEMMA TextTyped ==
  ASSUME NEW r, NEW j, NEW n \in Nat, NEW B, \A i \in Int : [writer |-> r, stmt |-> j, at |-> i] \in B
  PROVE  /\ Text(r, j, n) \in Seq(B) /\ Len(Text(r, j, n)) = n
         /\ \A i \in 1 .. n : Text(r, j, n)[i] = [writer |-> r, stmt |-> j, at |-> i - 1]
<1>1. PICK t : t = Text(r, j, n)
  OBVIOUS
<1>2. DOMAIN t = 1 .. n /\ \A i \in 1 .. n : t[i] = [writer |-> r, stmt |-> j, at |-> i - 1]
  BY <1>1 DEF Text
<1>3. \A i \in 1 .. n : t[i] \in B
  <2>1. \A i \in 1 .. n : i - 1 \in Int
    OBVIOUS
  <2>. QED BY <1>2, <2>1
<1>4. t = [i \in 1 .. n |-> t[i]]
  BY <1>1 DEF Text
<1>5. t \in [1 .. n -> B]
  BY <1>3, <1>4
<1>6. t \in Seq(B)
  BY <1>5, SeqDef
<1>. QED BY <1>1, <1>2, <1>6

\* The n bytes that follow the first m.
More(r, j, m, n) == [i \in 1 .. n |-> [writer |-> r, stmt |-> j, at |-> m + i - 1]]

LEMMA TextGrows ==
  ASSUME NEW r, NEW j, NEW m \in Nat, NEW n \in Nat
  PROVE  Text(r, j, m) \o More(r, j, m, n) = Text(r, j, m + n)
<1>0. PICK s : s = More(r, j, m, n)
  OBVIOUS
<1>1. PICK B : B = {[writer |-> r, stmt |-> j, at |-> i] : i \in Int}
  OBVIOUS
<1>2. \A i \in Int : [writer |-> r, stmt |-> j, at |-> i] \in B
  BY <1>1
<1>3. PICK t \in Seq(B) :
        /\ t = Text(r, j, m) /\ Len(t) = m
        /\ \A i \in 1 .. m : t[i] = [writer |-> r, stmt |-> j, at |-> i - 1]
  BY <1>2, TextTyped
<1>4. PICK u \in Seq(B) : u = s /\ Len(u) = n
  <2>1. s \in [1 .. n -> B]
    <3>1. \A i \in 1 .. n : m + i - 1 \in Int
      OBVIOUS
    <3>. QED BY <1>0, <1>2, <3>1 DEF More
  <2>2. \A x \in [1 .. n -> B] : x \in Seq(B) /\ Len(x) = n
    BY SeqDef
  <2>. QED BY <2>1, <2>2, Zenon
<1>5. PICK w \in Seq(B) :
        /\ w = Text(r, j, m + n) /\ Len(w) = m + n
        /\ \A i \in 1 .. m + n : w[i] = [writer |-> r, stmt |-> j, at |-> i - 1]
  <2>1. PICK k \in Nat : k = m + n
    OBVIOUS
  <2>2. /\ Text(r, j, k) \in Seq(B) /\ Len(Text(r, j, k)) = k
        /\ \A i \in 1 .. k : Text(r, j, k)[i] = [writer |-> r, stmt |-> j, at |-> i - 1]
    BY <1>2, TextTyped
  <2>. QED BY <2>1, <2>2
<1>6. t \o u \in Seq(B) /\ Len(t \o u) = m + n
  BY <1>3, <1>4
<1>7. ASSUME NEW i \in 1 .. m + n PROVE (t \o u)[i] = w[i]
  <2>1. w[i] = [writer |-> r, stmt |-> j, at |-> i - 1]
    BY <1>5
  <2>2. CASE i <= m
    <3>1. (t \o u)[i] = t[i]
      BY <1>3, <1>4, <2>2
    <3>2. t[i] = [writer |-> r, stmt |-> j, at |-> i - 1]
      BY <1>3, <2>2
    <3>. QED BY <2>1, <3>1, <3>2
  <2>3. CASE ~(i <= m)
    <3>1. (t \o u)[i] = u[i - m] /\ i - m \in 1 .. n
      <4>1. i - m \in 1 .. n
        BY <2>3
      <4>2. (t \o u)[i] = u[i - m]
        BY <1>3, <1>4, <2>3
      <4>. QED BY <4>1, <4>2
    <3>2. u[i - m] = [writer |-> r, stmt |-> j, at |-> m + (i - m) - 1]
      BY <1>0, <1>4, <3>1 DEF More
    <3>3. m + (i - m) - 1 = i - 1
      OBVIOUS
    <3>. QED BY <2>1, <3>1, <3>2, <3>3
  <2>. QED BY <2>2, <2>3
<1>8. t \o u = w
  <2>1. PICK x \in Seq(B) : x = t \o u /\ Len(x) = Len(w)
    BY <1>5, <1>6
  <2>2. \A i \in 1 .. Len(x) : x[i] = w[i]
    BY <1>5, <1>7, <2>1
  <2>. QED BY <2>1, <2>2, SeqEqual
<1>. QED BY <1>0, <1>3, <1>4, <1>5, <1>8, Zenon

\* A call that reads what is in place reads it.
LEMMA TakeReads ==
  ASSUME Inv, NEW r \in Ranks, NEW j \in DOMAIN program.stmts, NEW k \in DOMAIN program.stmts,
         Rereads(r, j, k), ip[r] = k, NEW n, Takes(r, n), count'[r] = pos'[r], ReadableInv,
         buffer[r] = Text(r, j, pos[r])
  PROVE  buffer'[r] = Text(r, j, pos'[r])
<1>1. PICK p \in Patterns, q \in Patterns : p = StmtAt(j).pattern /\ q = StmtAt(k).pattern
  BY StmtIn
<1>2. Pattern(r) = q /\ Op(r) \in Reads
  BY <1>1, AtTyped DEF Rereads, Inv, WalkInv
<1>3. Total(p) = Total(q) /\ \A v \in 0 .. Total(p) - 1 : Offset(p, r, v) = Offset(q, r, v)
  BY <1>1, SameOffset DEF Rereads
<1>4. PICK m \in Nat : m = pos[r] /\ pos'[r] = m + n /\ n \in Nat /\ m + n <= Total(p)
  BY <1>2, <1>3, FullTake
<1>5. DOMAIN file = {} \/ \A v \in 0 .. Total(p) - 1 : InPlace(r, j, v)
  BY <1>1 DEF ReadableInv, Rereads, Takes
<1>6. PICK s : s = [i \in 1 .. n |-> ByteAt(Offset(q, r, m + i - 1))]
  OBVIOUS
<1>7. buffer'[r] = Text(r, j, m) \o s
  BY <1>2, <1>4, <1>6 DEF Takes
<1>8. ASSUME NEW i \in 1 .. n
      PROVE  ByteAt(Offset(q, r, m + i - 1)) = [writer |-> r, stmt |-> j, at |-> m + i - 1]
  <2>1. PICK v \in 0 .. Total(p) - 1 : v = m + i - 1
    BY <1>1, <1>4, PatternTypes
  <2>2. DOMAIN file # {}
    BY <1>2, <1>4, <1>8 DEF Takes
  <2>3. InPlace(r, j, v)
    BY <1>5, <2>2
  <2>4. Apart(p) /\ Offset(q, r, v) = Offset(p, r, v)
    BY <1>1, <1>3 DEF Rereads
  <2>5. Offset(p, r, v) \in DOMAIN file /\ file[Offset(p, r, v)] = [writer |-> r, stmt |-> j, at |-> v]
    BY <1>1, <2>3, <2>4 DEF InPlace
  <2>. QED BY <2>1, <2>4, <2>5 DEF ByteAt
<1>9. s = More(r, j, m, n)
  BY <1>6, <1>8 DEF More
<1>10. Text(r, j, m) \o s = Text(r, j, m + n)
  BY <1>4, <1>9, TextGrows
<1>. QED BY <1>4, <1>7, <1>10, Zenon

LEMMA ReadNext ==
  ASSUME Inv, Walk, ReadableInv, ReadInv
  PROVE  ReadInv'
<1>1. program' = program
  BY DEF Walk
<1>2. SUFFICES ASSUME NEW r \in Ranks, NEW j \in DOMAIN program.stmts, NEW k \in DOMAIN program.stmts,
                      Rereads(r, j, k)'
               PROVE  /\ Succeeded(r, k)' => result'[r][k].read = Text(r, j, Total(StmtAt(j).pattern))
                      /\ (ip'[r] = k /\ Within(r)' /\ count'[r] = pos'[r]) =>
                           buffer'[r] = Text(r, j, pos'[r])
  BY <1>1 DEF ReadInv, StmtAt, Text, Total
<1>3. /\ j < k /\ StmtAt(j).op \in Writes /\ StmtAt(k).op \in Reads /\ Succeeded(r, j)'
      /\ Succeeded(r, j) => Rereads(r, j, k)
      /\ Total(StmtAt(j).pattern) = Total(StmtAt(k).pattern)
  <2>1. PICK p \in Patterns, q \in Patterns : p = StmtAt(j).pattern /\ q = StmtAt(k).pattern
    BY StmtIn
  <2>2. /\ j < k /\ StmtAt(j).op \in Writes /\ StmtAt(k).op \in Reads /\ Succeeded(r, j)'
        /\ Succeeded(r, j) => Rereads(r, j, k)
        /\ << p.iter, p.elem, p.group >> = << q.iter, q.elem, q.group >>
    BY <1>1, <1>2, <2>1 DEF Rereads, StmtAt, Untouched, Apart
  <2>. QED BY <2>1, <2>2, SameOffset
<1>4. j \in Nat /\ k \in Nat
  BY StmtIn
<1>5. Succeeded(r, j) \/ (ip[r] = j /\ Returns(r))
  <2>1. StmtAt(j).op \in Writes \cup Reads /\ Succeeded(r, j)' /\ WalkInv
    BY <1>3 DEF Inv
  <2>. QED BY <2>1, SucceededBefore
<1>6. ASSUME Succeeded(r, k)'
      PROVE  result'[r][k].read = Text(r, j, Total(StmtAt(j).pattern))
  <2>1. CASE Succeeded(r, k) /\ result'[r][k] = result[r][k]
    <3>1. k <= ip[r] - 1 /\ ip[r] \in Nat
      BY <2>1 DEF Succeeded, Inv, WalkInv, Types, RankTypes, RankInv
    <3>2. Rereads(r, j, k)
      BY <1>3, <1>4, <1>5, <3>1
    <3>. QED BY <2>1, <3>2 DEF ReadInv
  <2>2. CASE /\ Returns(r) /\ ip[r] = k /\ pc[r] = "report" /\ count[r] = Total(Pattern(r))
             /\ result'[r][k].read = buffer[r]
    <3>1. Rereads(r, j, k)
      BY <1>3, <1>4, <1>5, <2>2
    <3>2. pos[r] = Total(StmtAt(k).pattern) /\ count[r] = pos[r]
      BY <1>3, <2>2, AllAsked
    <3>3. buffer[r] = Text(r, j, pos[r])
      BY <2>2, <3>1, <3>2 DEF ReadInv, Within
    <3>. QED BY <1>3, <2>2, <3>2, <3>3
  <2>. QED BY <1>3, <1>6, <2>1, <2>2, SucceededBefore DEF Inv
<1>7. ASSUME ip'[r] = k, Within(r)', count'[r] = pos'[r]
      PROVE  buffer'[r] = Text(r, j, pos'[r])
  <2>1. /\ ip[r] = k
        /\ \/ pos'[r] = 0 /\ buffer'[r] = << >>
           \/ Within(r) /\ pos'[r] = pos[r] /\ count'[r] = count[r] /\ buffer'[r] = buffer[r]
           \/ \E n : Takes(r, n)
    BY <1>3, <1>7, WithinBefore
  <2>2. Rereads(r, j, k)
    BY <1>3, <1>4, <1>5, <2>1
  <2>3. CASE pos'[r] = 0 /\ buffer'[r] = << >>
    BY <2>3 DEF Text
  <2>4. CASE Within(r) /\ pos'[r] = pos[r] /\ count'[r] = count[r] /\ buffer'[r] = buffer[r]
    BY <1>7, <2>1, <2>2, <2>4 DEF ReadInv
  <2>5. ASSUME NEW n, Takes(r, n) PROVE buffer'[r] = Text(r, j, pos'[r])
    <3>1. count[r] = pos[r] /\ Within(r)
      BY <1>7, <2>5, FullTake
    <3>2. buffer[r] = Text(r, j, pos[r])
      BY <2>1, <2>2, <3>1 DEF ReadInv
    <3>. QED BY <1>7, <2>1, <2>2, <2>5, <3>2, TakeReads
  <2>. QED BY <2>1, <2>3, <2>4, <2>5
<1>. QED BY <1>6, <1>7

-------------------------------------------------------------------------------
(* Theorems.                                                                     *)

DataInv == Inv /\ KeptInv /\ ReadableInv /\ ReadInv

LEMMA DataAlways == Spec => []DataInv
<1>1. Init => DataInv
  <2>. SUFFICES ASSUME Init PROVE DataInv
    OBVIOUS
  <2>1. \A r \in Ranks : pc[r] = "begin" /\ DOMAIN result[r] = {}
    BY DEF Init
  <2>. QED BY <2>1, InvInit DEF DataInv, KeptInv, ReadableInv, ReadInv, Rereads, Succeeded, Within
<1>2. DataInv /\ [Next]_vars => DataInv'
  BY InvNext, KeptNext, ReadableNext, ReadNext DEF DataInv
<1>. QED BY <1>1, <1>2, PTL DEF Spec

LEMMA CompleteOf == DataInv => Complete
<1>. SUFFICES ASSUME DataInv, NEW k \in DOMAIN program.stmts,
                     StmtAt(k).op \in Writes, Untouched(k + 1, Len(program.stmts))
              PROVE  LET p == StmtAt(k).pattern IN
                     /\ \A r \in Ranks : Succeeded(r, k) =>
                          \A v \in 0 .. Total(p) - 1 :
                            LET b == Offset(p, r, v) IN
                            b \in DOMAIN file /\ file[b].stmt = k /\ (Apart(p) => file[b].writer = r)
                     /\ (p.group \subseteq Ranks /\ \A r \in p.group : Succeeded(r, k)) =>
                          0 .. GroupSize(p) * Total(p) - 1 \subseteq DOMAIN file
  BY DEF Complete
<1>1. Inv /\ KeptInv
  BY DEF DataInv
<1>2. PICK p \in Patterns : p = StmtAt(k).pattern
  BY <1>1, StmtIn
<1>3. ~Disturbed(k)
  BY <1>1, StmtIn DEF Disturbed, Untouched
<1>4. ASSUME NEW r \in Ranks, Succeeded(r, k), NEW v \in 0 .. Total(p) - 1
      PROVE  LET b == Offset(p, r, v) IN
             b \in DOMAIN file /\ file[b].stmt = k /\ (Apart(p) => file[b].writer = r)
  <2>1. InPlace(r, k, v)
    BY <1>1, <1>2, <1>3, <1>4 DEF KeptInv, Kept
  <2>2. PICK b : b = Offset(p, r, v)
    OBVIOUS
  <2>3. b \in DOMAIN file /\ file[b].stmt = k /\ (Apart(p) => file[b] = [writer |-> r, stmt |-> k, at |-> v])
    BY <1>2, <2>1, <2>2 DEF InPlace
  <2>4. b \in DOMAIN file /\ file[b].stmt = k /\ (Apart(p) => file[b].writer = r)
    BY <2>3
  <2>. QED BY <2>2, <2>4
<1>5. ASSUME p.group \subseteq Ranks, \A r \in p.group : Succeeded(r, k),
             NEW b \in 0 .. GroupSize(p) * Total(p) - 1
      PROVE  b \in DOMAIN file
  <2>1. PICK r \in p.group, v \in 0 .. Total(p) - 1 : Offset(p, r, v) = b
    BY OffsetsTaken
  <2>. QED BY <1>4, <1>5, <2>1
<1>. QED BY <1>2, <1>4, <1>5

\* A write that a rank counted as successful is in the file entirely, unless a later
\* statement may have changed it, and where all ranks of the group succeeded there are no
\* holes: whatever the level, and however the ranks' calls interleave
\* (iio_mpi.c:44-204 and 369-527).
THEOREM WritesComplete == Spec => []Complete
BY DataAlways, CompleteOf, PTL

LEMMA ReadBackOf == DataInv => ReadBack
<1>. SUFFICES ASSUME DataInv, NEW r \in Ranks, NEW k \in DOMAIN program.stmts, NEW j \in 1 .. k - 1,
                     StmtAt(j).op \in Writes, Succeeded(r, j), StmtAt(k).op \in Reads, Succeeded(r, k),
                     Untouched(j + 1, k), Apart(StmtAt(j).pattern),
                     << StmtAt(j).pattern.iter, StmtAt(j).pattern.elem, StmtAt(j).pattern.group >>
                       = << StmtAt(k).pattern.iter, StmtAt(k).pattern.elem, StmtAt(k).pattern.group >>
              PROVE  result[r][k].read = Text(r, j, Total(StmtAt(j).pattern))
  BY DEF ReadBack, Text
<1>1. Inv /\ ReadInv
  BY DEF DataInv
<1>2. j \in DOMAIN program.stmts /\ j < k
  BY <1>1, StmtIn
<1>3. Rereads(r, j, k)
  BY <1>2 DEF Rereads
<1>. QED BY <1>1, <1>2, <1>3 DEF ReadInv

\* What a rank has written it reads back in the same order, also through the other type
\* of pattern or another level, and while other ranks go on to later statements, which
\* may even delete the file: then the read is short and not counted as successful
\* (iio_mpi.c:44-204 and 369-527, patterns.c:73-104).
THEOREM ReadsBack == Spec => []ReadBack
BY DataAlways, ReadBackOf, PTL

===============================================================================
