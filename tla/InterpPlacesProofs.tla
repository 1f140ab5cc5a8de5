-------------------------- MODULE InterpPlacesProofs --------------------------
(***************************************************************************)
(* Proofs about where the ranks are and how often statements are executed, *)
(* for every number of ranks, every group mapping and every kernel: in a   *)
(* balanced kernel the ranks that meet in a collective call are at the     *)
(* same place, and never wait for each other for good; an I/O statement    *)
(* has been executed at each place it has that the rank has passed, and it *)
(* has as many places as the blocks around it say.                         *)
(***************************************************************************)
EXTENDS InterpProofs, FiniteSetTheorems

-------------------------------------------------------------------------------
(* Kernels: p is a program.                                                     *)

NodesOf(p) == DOMAIN p.kernel.stmt
ParentOf(p, n) == p.kernel.parent[n]
TypeOf(p, n) == p.kernel.stmt[n].type
\* What comes after the last statement of a block.
Past(p) == Len(p.kernel.stmt) + 1

LEMMA TreeTypes ==
  ASSUME NEW p \in Programs
  PROVE  /\ Len(p.kernel.stmt) \in Nat /\ NodesOf(p) = 1 .. Len(p.kernel.stmt)
         /\ Past(p) \in Nat /\ Past(p) > 0 /\ \A n \in NodesOf(p) : n \in Nat /\ n > 0 /\ n < Past(p)
         /\ \A n \in NodesOf(p) :
              /\ ParentOf(p, n) \in Nat /\ ParentOf(p, n) < n
              /\ ParentOf(p, n) \in NodesOf(p) \cup {0}
              /\ ParentOf(p, n) # 0 => TypeOf(p, ParentOf(p, n)) \in BlockTypes
              /\ \A m \in NodesOf(p) : ParentOf(p, n) < m /\ m < n => ParentOf(p, m) >= ParentOf(p, n)
<1>1. /\ Len(p.kernel.stmt) \in Nat /\ DOMAIN p.kernel.stmt = 1 .. Len(p.kernel.stmt)
      /\ DOMAIN p.kernel.parent = DOMAIN p.kernel.stmt
      /\ \A n \in DOMAIN p.kernel.parent :
           /\ p.kernel.parent[n] \in 0 .. n - 1
           /\ p.kernel.parent[n] = 0 \/ p.kernel.stmt[p.kernel.parent[n]].type \in BlockTypes
           /\ \A m \in p.kernel.parent[n] + 1 .. n - 1 : p.kernel.parent[m] >= p.kernel.parent[n]
  BY ProgramsAssumption
<1>2. /\ Len(p.kernel.stmt) \in Nat /\ NodesOf(p) = 1 .. Len(p.kernel.stmt)
      /\ Past(p) \in Nat /\ Past(p) > 0 /\ \A n \in NodesOf(p) : n \in Nat /\ n > 0 /\ n < Past(p)
  BY <1>1 DEF NodesOf, Past
<1>3. ASSUME NEW n \in NodesOf(p)
      PROVE  /\ ParentOf(p, n) \in Nat /\ ParentOf(p, n) < n
             /\ ParentOf(p, n) \in NodesOf(p) \cup {0}
             /\ ParentOf(p, n) # 0 => TypeOf(p, ParentOf(p, n)) \in BlockTypes
             /\ \A m \in NodesOf(p) : ParentOf(p, n) < m /\ m < n => ParentOf(p, m) >= ParentOf(p, n)
  <2>1. /\ ParentOf(p, n) \in 0 .. n - 1 /\ n \in Nat
        /\ ParentOf(p, n) = 0 \/ TypeOf(p, ParentOf(p, n)) \in BlockTypes
        /\ \A m \in ParentOf(p, n) + 1 .. n - 1 : ParentOf(p, m) >= ParentOf(p, n)
    BY <1>1, <1>2 DEF NodesOf, ParentOf, TypeOf
  <2>2. \A m \in NodesOf(p) : ParentOf(p, n) < m /\ m < n => m \in ParentOf(p, n) + 1 .. n - 1
    BY <1>2, <2>1
  <2>. QED BY <1>2, <2>1, <2>2
<1>. QED BY <1>2, <1>3

\* The function Around is defined by.
IsUp(p, n, up) ==
  up = [m \in 0 .. n |-> IF m = 0 \/ ParentOf(p, m) = 0 THEN {}
                         ELSE {ParentOf(p, m)} \cup up[ParentOf(p, m)]]

LEMMA UpUnique ==
  ASSUME NEW p \in Programs, NEW n \in NodesOf(p) \cup {0}, NEW f, NEW g, IsUp(p, n, f), IsUp(p, n, g)
  PROVE  f = g
<1>. DEFINE D == {m \in 0 .. n : f[m] # g[m]}
<1>1. /\ \A m \in 0 .. n : f[m] = IF m = 0 \/ ParentOf(p, m) = 0 THEN {}
                                  ELSE {ParentOf(p, m)} \cup f[ParentOf(p, m)]
      /\ \A m \in 0 .. n : g[m] = IF m = 0 \/ ParentOf(p, m) = 0 THEN {}
                                  ELSE {ParentOf(p, m)} \cup g[ParentOf(p, m)]
      /\ f = [m \in 0 .. n |-> f[m]] /\ g = [m \in 0 .. n |-> g[m]]
  BY DEF IsUp
<1>2. D = {}
  <2>1. SUFFICES ASSUME D # {} PROVE FALSE
    OBVIOUS
  <2>2. PICK m \in D : \A k \in D : m <= k
    <3>1. D \subseteq Nat
      BY TreeTypes
    <3>. HIDE DEF D
    <3>. QED BY <2>1, <3>1, Least
  <2>3. m # 0 /\ m \in NodesOf(p)
    <3>1. m # 0
      BY <1>1
    <3>2. m \in 0 .. n
      OBVIOUS
    <3>. HIDE DEF D
    <3>. QED BY <3>1, <3>2, TreeTypes
  <2>4. ParentOf(p, m) \in 0 .. n /\ ParentOf(p, m) < m
    BY <2>3, TreeTypes
  <2>5. ParentOf(p, m) \notin D
    BY <2>2, <2>3, <2>4, TreeTypes
  <2>6. f[ParentOf(p, m)] = g[ParentOf(p, m)]
    BY <2>4, <2>5
  <2>. QED BY <1>1, <2>6
<1>. QED BY <1>1, <1>2

LEMMA UpExists ==
  ASSUME NEW p \in Programs, NEW n \in NodesOf(p) \cup {0}
  PROVE  \E f : IsUp(p, n, f)
<1>. DEFINE D == {k \in NodesOf(p) \cup {0} : ~\E f : IsUp(p, k, f)}
<1>1. SUFFICES ASSUME D # {} PROVE FALSE
  OBVIOUS
<1>2. PICK k \in D : \A m \in D : k <= m
  <2>1. D \subseteq Nat
    BY TreeTypes
  <2>. HIDE DEF D
  <2>. QED BY <1>1, <2>1, Least
<1>3. k # 0
  <2>1. [m \in 0 .. 0 |-> {}] = [m \in 0 .. 0 |-> IF m = 0 \/ ParentOf(p, m) = 0 THEN {}
                         ELSE {ParentOf(p, m)} \cup [i \in 0 .. 0 |-> {}][ParentOf(p, m)]]
    OBVIOUS
  <2>2. IsUp(p, 0, [m \in 0 .. 0 |-> {}])
    BY <2>1 DEF IsUp
  <2>. QED BY <2>2
<1>4. k \in NodesOf(p) /\ k \in Nat /\ k - 1 \in NodesOf(p) \cup {0} /\ k - 1 \notin D
  <2>1. k \in NodesOf(p)
    BY <1>3
  <2>. HIDE DEF D
  <2>2. k \in Nat /\ k - 1 \in NodesOf(p) \cup {0}
    BY <1>3, <2>1, TreeTypes
  <2>3. ~(k <= k - 1)
    BY <2>2
  <2>. QED BY <1>2, <2>1, <2>2, <2>3
<1>5. PICK f : IsUp(p, k - 1, f)
  BY <1>4
<1>. DEFINE g == [m \in 0 .. k |-> IF m = 0 \/ ParentOf(p, m) = 0 THEN {}
                                   ELSE {ParentOf(p, m)} \cup f[ParentOf(p, m)]]
<1>6. \A m \in 0 .. k : m # 0 => ParentOf(p, m) \in 0 .. k - 1
  <2>. TAKE m \in 0 .. k
  <2>1. m # 0 => m \in NodesOf(p)
    BY <1>4, TreeTypes
  <2>. QED BY <1>4, <2>1, TreeTypes
<1>7. \A m \in 0 .. k - 1 : g[m] = f[m]
  <2>1. \A m \in 0 .. k - 1 : f[m] = IF m = 0 \/ ParentOf(p, m) = 0 THEN {}
                                     ELSE {ParentOf(p, m)} \cup f[ParentOf(p, m)]
    BY <1>5 DEF IsUp
  <2>2. \A m \in 0 .. k - 1 : m \in 0 .. k
    BY <1>4
  <2>. QED BY <2>1, <2>2
<1>8. g = [m \in 0 .. k |-> IF m = 0 \/ ParentOf(p, m) = 0 THEN {}
                            ELSE {ParentOf(p, m)} \cup g[ParentOf(p, m)]]
  <2>1. \A m \in 0 .. k : g[m] = IF m = 0 \/ ParentOf(p, m) = 0 THEN {}
                                 ELSE {ParentOf(p, m)} \cup f[ParentOf(p, m)]
    OBVIOUS
  <2>2. g = [m \in 0 .. k |-> g[m]]
    OBVIOUS
  <2>. HIDE DEF g
  <2>3. \A m \in 0 .. k : g[m] = IF m = 0 \/ ParentOf(p, m) = 0 THEN {}
                                 ELSE {ParentOf(p, m)} \cup g[ParentOf(p, m)]
    BY <1>6, <1>7, <2>1
  <2>. QED BY <2>2, <2>3
<1>9. IsUp(p, k, g)
  <2>. HIDE DEF g
  <2>. QED BY <1>8 DEF IsUp
<1>. QED BY <1>2, <1>9

LEMMA UpIsAround ==
  ASSUME NEW p \in Programs, NEW n \in NodesOf(p) \cup {0}, NEW m \in 0 .. n, NEW f, IsUp(p, n, f)
  PROVE  Around(p, m) = f[m]
<1>. DEFINE up == CHOOSE g : IsUp(p, m, g)
            g == [k \in 0 .. m |-> f[k]]
<1>1. m \in NodesOf(p) \cup {0} /\ n \in Nat /\ m \in Nat
  BY TreeTypes
<1>2. \A k \in 0 .. m : k # 0 => ParentOf(p, k) \in 0 .. m
  <2>. TAKE k \in 0 .. m
  <2>1. k # 0 => k \in NodesOf(p)
    <3>1. PICK top \in Nat : NodesOf(p) = 1 .. top
      BY TreeTypes
    <3>. QED BY <1>1, <3>1
  <2>. QED BY <1>1, <2>1, TreeTypes
<1>3. \A k \in 0 .. m : g[k] = IF k = 0 \/ ParentOf(p, k) = 0 THEN {}
                               ELSE {ParentOf(p, k)} \cup g[ParentOf(p, k)]
  <2>1. \A k \in 0 .. n : f[k] = IF k = 0 \/ ParentOf(p, k) = 0 THEN {}
                                 ELSE {ParentOf(p, k)} \cup f[ParentOf(p, k)]
    BY DEF IsUp
  <2>2. \A k \in 0 .. m : k \in 0 .. n
    BY <1>1
  <2>3. \A k \in 0 .. m : g[k] = f[k]
    OBVIOUS
  <2>. HIDE DEF g
  <2>. QED BY <1>2, <2>1, <2>2, <2>3
<1>4. IsUp(p, m, g)
  <2>1. g = [k \in 0 .. m |-> g[k]]
    OBVIOUS
  <2>. HIDE DEF g
  <2>. QED BY <1>3, <2>1 DEF IsUp
<1>5. IsUp(p, m, up)
  <2>. HIDE DEF g
  <2>. QED BY <1>4
<1>6. Around(p, m) = up[m]
  BY DEF Around, IsUp, ParentOf
<1>7. up = g
  <2>. HIDE DEF up, g
  <2>. QED BY <1>1, <1>4, <1>5, UpUnique
<1>8. g[m] = f[m]
  BY <1>1
<1>. HIDE DEF up, g
<1>. QED BY <1>6, <1>7, <1>8

\* The statements around a node are its parent and those around that.
LEMMA AroundOf ==
  ASSUME NEW p \in Programs
  PROVE  /\ Around(p, 0) = {}
         /\ \A n \in NodesOf(p) :
              Around(p, n) = IF ParentOf(p, n) = 0 THEN {}
                             ELSE {ParentOf(p, n)} \cup Around(p, ParentOf(p, n))
<1>1. Around(p, 0) = {}
  <2>1. PICK f : IsUp(p, 0, f)
    BY UpExists
  <2>2. Around(p, 0) = f[0]
    BY <2>1, UpIsAround
  <2>. QED BY <2>1, <2>2 DEF IsUp
<1>2. ASSUME NEW n \in NodesOf(p)
      PROVE  Around(p, n) = IF ParentOf(p, n) = 0 THEN {}
                            ELSE {ParentOf(p, n)} \cup Around(p, ParentOf(p, n))
  <2>1. PICK f : IsUp(p, n, f)
    BY UpExists
  <2>2. n \in 0 .. n /\ ParentOf(p, n) \in 0 .. n /\ n # 0
    BY TreeTypes
  <2>3. Around(p, n) = f[n] /\ Around(p, ParentOf(p, n)) = f[ParentOf(p, n)]
    BY <2>1, <2>2, UpIsAround
  <2>4. f[n] = IF n = 0 \/ ParentOf(p, n) = 0 THEN {} ELSE {ParentOf(p, n)} \cup f[ParentOf(p, n)]
    BY <2>1, <2>2 DEF IsUp
  <2>. QED BY <2>2, <2>3, <2>4
<1>. QED BY <1>1, <1>2

LEMMA AroundTypes ==
  ASSUME NEW p \in Programs, NEW n \in NodesOf(p) \cup {0}
  PROVE  \A a \in Around(p, n) : a \in NodesOf(p) /\ a < n
<1>. DEFINE D == {k \in NodesOf(p) \cup {0} : ~\A a \in Around(p, k) : a \in NodesOf(p) /\ a < k}
<1>1. SUFFICES ASSUME D # {} PROVE FALSE
  OBVIOUS
<1>2. PICK k \in D : \A m \in D : k <= m
  <2>1. D \subseteq Nat
    BY TreeTypes
  <2>. HIDE DEF D
  <2>. QED BY <1>1, <2>1, Least
<1>3. k \in NodesOf(p)
  BY AroundOf
<1>4. ParentOf(p, k) # 0
  BY <1>3, AroundOf
<1>5. ParentOf(p, k) \in NodesOf(p) /\ ParentOf(p, k) < k
  BY <1>3, <1>4, TreeTypes
<1>6. ParentOf(p, k) \notin D
  BY <1>2, <1>3, <1>5, TreeTypes
<1>7. \A a \in Around(p, ParentOf(p, k)) : a \in NodesOf(p) /\ a < ParentOf(p, k)
  BY <1>5, <1>6
<1>8. \A a \in Around(p, k) : a \in NodesOf(p) /\ a < k
  BY <1>3, <1>4, <1>5, <1>7, AroundOf, TreeTypes
<1>. QED BY <1>8

-------------------------------------------------------------------------------
(* Positions.                                                                   *)

\* A position says, for the root and the statements around a point of the walk, in which
\* iteration they are and which of their statements is being executed or comes next.
Legs == [round : Nat, next : Nat]
IsChild(p, t, c) == c \in NodesOf(p) /\ ParentOf(p, c) = t
IsPosition(p, z) ==
  /\ z \in [DOMAIN z -> Legs]
  /\ 0 \in DOMAIN z /\ DOMAIN z \subseteq NodesOf(p) \cup {0}
  /\ \A a \in DOMAIN z \ {0} : ParentOf(p, a) \in DOMAIN z /\ z[ParentOf(p, a)].next = a
  /\ \A a \in DOMAIN z : z[a].next = Past(p) \/ IsChild(p, a, z[a].next)
  /\ \A a, b \in DOMAIN z : a < b => z[a].next \in DOMAIN z /\ z[a].next <= b

\* The positions at which leaf n comes next.
IsPlace(p, n, x) ==
  /\ IsPosition(p, x)
  /\ n \in NodesOf(p) /\ TypeOf(p, n) \notin BlockTypes
  /\ ParentOf(p, n) \in DOMAIN x /\ n \notin DOMAIN x
  /\ x[ParentOf(p, n)].next = n

\* Position x comes before z: where they first differ, it is in an earlier iteration or
\* at an earlier statement.
Earlier(x, z, a) ==
  \/ x[a].round < z[a].round
  \/ x[a].round = z[a].round /\ x[a].next < z[a].next
Agree(x, z, a) == \A e \in DOMAIN x \cap DOMAIN z : e < a => x[e] = z[e]
Before(x, z) == \E a \in DOMAIN x \cap DOMAIN z : Agree(x, z, a) /\ Earlier(x, z, a)

LEMMA PositionTypes ==
  ASSUME NEW p \in Programs, NEW z, IsPosition(p, z)
  PROVE  /\ DOMAIN z \subseteq Nat
         /\ \A a \in DOMAIN z :
              /\ z[a] \in Legs /\ z[a] = [round |-> z[a].round, next |-> z[a].next]
              /\ z[a].round \in Nat /\ z[a].next \in Nat
              /\ a < z[a].next /\ z[a].next <= Past(p) /\ a < Past(p)
         /\ \A a \in DOMAIN z \ {0} : ParentOf(p, a) < a
<1>1. ASSUME NEW a \in DOMAIN z
      PROVE  /\ a \in Nat /\ a < Past(p)
             /\ z[a] \in Legs /\ z[a] = [round |-> z[a].round, next |-> z[a].next]
             /\ z[a].round \in Nat /\ z[a].next \in Nat
  <2>1. z[a] \in Legs
    BY DEF IsPosition
  <2>2. a \in NodesOf(p) \cup {0}
    BY DEF IsPosition
  <2>3. a \in Nat /\ a < Past(p)
    BY <2>2, TreeTypes
  <2>. QED BY <2>1, <2>3 DEF Legs
<1>2. ASSUME NEW a \in DOMAIN z
      PROVE  a < z[a].next /\ z[a].next <= Past(p)
  <2>1. z[a].next = Past(p) \/ (z[a].next \in NodesOf(p) /\ ParentOf(p, z[a].next) = a)
    BY DEF IsPosition, IsChild
  <2>. QED BY <1>1, <2>1, TreeTypes
<1>3. \A a \in DOMAIN z \ {0} : ParentOf(p, a) < a
  BY TreeTypes DEF IsPosition
<1>. QED BY <1>1, <1>2, <1>3

\* Positions that share a statement share those around it.
LEMMA Shared ==
  ASSUME NEW p \in Programs, NEW y, IsPosition(p, y), NEW z, IsPosition(p, z),
         NEW b \in DOMAIN y \cap DOMAIN z, NEW a \in DOMAIN y, a < b
  PROVE  a \in DOMAIN z
<1>. DEFINE D == {d \in DOMAIN y \cap DOMAIN z : a < d}
<1>1. SUFFICES ASSUME a \notin DOMAIN z PROVE FALSE
  OBVIOUS
<1>2. PICK d \in D : \A m \in D : d <= m
  <2>1. D \subseteq Nat /\ D # {}
    BY PositionTypes
  <2>. HIDE DEF D
  <2>. QED BY <2>1, Least
<1>3. /\ d \in Nat /\ a \in Nat /\ d # 0 /\ d \in DOMAIN y /\ d \in DOMAIN z /\ a < d
      /\ DOMAIN y \subseteq Nat
  BY PositionTypes
<1>4. /\ ParentOf(p, d) \in DOMAIN y \cap DOMAIN z /\ ParentOf(p, d) < d
      /\ y[ParentOf(p, d)].next = d
  BY <1>3, PositionTypes DEF IsPosition
<1>5. ParentOf(p, d) \notin D
  BY <1>2, <1>3, <1>4
<1>6. ParentOf(p, d) < a
  BY <1>1, <1>3, <1>4, <1>5
<1>7. d <= a
  BY <1>4, <1>6 DEF IsPosition
<1>. QED BY <1>3, <1>7

\* What is around a statement of a position.
LEMMA AroundIn ==
  ASSUME NEW p \in Programs, NEW z, IsPosition(p, z), NEW b \in DOMAIN z
  PROVE  Around(p, b) = {a \in DOMAIN z : a # 0 /\ a < b}
<1>. DEFINE D == {d \in DOMAIN z : Around(p, d) # {a \in DOMAIN z : a # 0 /\ a < d}}
<1>1. SUFFICES ASSUME D # {} PROVE FALSE
  OBVIOUS
<1>2. PICK d \in D : \A m \in D : d <= m
  <2>1. D \subseteq Nat
    BY PositionTypes
  <2>. HIDE DEF D
  <2>. QED BY <1>1, <2>1, Least
<1>3. d \in DOMAIN z /\ d \in Nat /\ DOMAIN z \subseteq Nat
  BY PositionTypes
<1>4. d # 0
  <2>1. {a \in DOMAIN z : a # 0 /\ a < 0} = {}
    BY <1>3
  <2>2. Around(p, 0) = {}
    BY AroundOf
  <2>. QED BY <2>1, <2>2
<1>. DEFINE e == ParentOf(p, d)
<1>5. d \in NodesOf(p) /\ e \in DOMAIN z /\ z[e].next = d /\ e < d /\ e \in Nat
  BY <1>3, <1>4, PositionTypes DEF IsPosition
<1>6. e \notin D
  <2>. HIDE DEF D
  <2>. QED BY <1>2, <1>3, <1>5
<1>7. Around(p, e) = {a \in DOMAIN z : a # 0 /\ a < e}
  BY <1>5, <1>6
<1>8. Around(p, d) = IF e = 0 THEN {} ELSE {e} \cup Around(p, e)
  BY <1>5, AroundOf
<1>9. \A a \in DOMAIN z : e < a => d <= a
  BY <1>5 DEF IsPosition
<1>10. {a \in DOMAIN z : a # 0 /\ a < d} = IF e = 0 THEN {} ELSE {e} \cup Around(p, e)
  <2>. HIDE DEF e
  <2>1. \A a \in DOMAIN z : a < d <=> a <= e
    BY <1>3, <1>5, <1>9
  <2>. QED BY <1>3, <1>5, <1>7, <2>1
<1>. QED BY <1>8, <1>10

\* The blocks around a leaf are those its position tells about.
LEMMA PlaceTypes ==
  ASSUME NEW p \in Programs, NEW n, NEW x, IsPlace(p, n, x)
  PROVE  /\ IsPosition(p, x) /\ n \in NodesOf(p) /\ n \notin DOMAIN x
         /\ ParentOf(p, n) \in DOMAIN x /\ x[ParentOf(p, n)].next = n
         /\ \A a \in DOMAIN x : a <= ParentOf(p, n)
         /\ \A a \in DOMAIN x : a < ParentOf(p, n) => x[a].next \in DOMAIN x
         /\ \A a \in DOMAIN x : IsChild(p, a, x[a].next)
         /\ \A a \in DOMAIN x \ {0} : TypeOf(p, a) \in BlockTypes
         /\ Around(p, n) = DOMAIN x \ {0}
<1>. DEFINE t == ParentOf(p, n)
<1>1. /\ IsPosition(p, x) /\ n \in NodesOf(p) /\ n \notin DOMAIN x /\ t \in DOMAIN x /\ x[t].next = n
      /\ t \in Nat /\ DOMAIN x \subseteq Nat
  BY PositionTypes DEF IsPlace
<1>2. \A a \in DOMAIN x : a <= t
  <2>1. \A a \in DOMAIN x : ~(t < a)
    BY <1>1 DEF IsPosition
  <2>. QED BY <1>1, <2>1
<1>3. \A a \in DOMAIN x : a < t => x[a].next \in DOMAIN x
  BY <1>1 DEF IsPosition
<1>4. ASSUME NEW a \in DOMAIN x PROVE IsChild(p, a, x[a].next)
  <2>1. a = t \/ a < t
    BY <1>1, <1>2
  <2>2. x[a].next # Past(p)
    <3>1. Past(p) \notin DOMAIN x /\ Past(p) # n
      BY <1>1, PositionTypes, TreeTypes
    <3>. QED BY <1>1, <1>3, <2>1, <3>1
  <2>. QED BY <1>1, <2>2 DEF IsPosition
<1>5. \A a \in DOMAIN x \ {0} : TypeOf(p, a) \in BlockTypes
  BY <1>4, TreeTypes DEF IsChild
<1>6. Around(p, n) = DOMAIN x \ {0}
  <2>1. Around(p, n) = IF t = 0 THEN {} ELSE {t} \cup Around(p, t)
    BY <1>1, AroundOf
  <2>2. Around(p, t) = {a \in DOMAIN x : a # 0 /\ a < t}
    BY <1>1, AroundIn
  <2>3. DOMAIN x \ {0} = IF t = 0 THEN {} ELSE {t} \cup {a \in DOMAIN x : a # 0 /\ a < t}
    <3>. HIDE DEF t
    <3>. QED BY <1>1, <1>2
  <2>. QED BY <2>1, <2>2, <2>3
<1>. QED BY <1>1, <1>2, <1>3, <1>4, <1>5, <1>6

-------------------------------------------------------------------------------
(* Their order.                                                                 *)

LEMMA NotBeforeItself == ASSUME NEW p \in Programs, NEW z, IsPosition(p, z) PROVE ~Before(z, z)
BY PositionTypes DEF Before, Earlier

LEMMA BeforeTransitive ==
  ASSUME NEW p \in Programs, NEW x, IsPosition(p, x), NEW y, IsPosition(p, y),
         NEW z, IsPosition(p, z), Before(x, y), Before(y, z)
  PROVE  Before(x, z)
<1>1. PICK a \in DOMAIN x \cap DOMAIN y : Agree(x, y, a) /\ Earlier(x, y, a)
  BY DEF Before
<1>2. PICK b \in DOMAIN y \cap DOMAIN z : Agree(y, z, b) /\ Earlier(y, z, b)
  BY DEF Before
<1>3. a \in Nat /\ b \in Nat /\ DOMAIN x \subseteq Nat /\ DOMAIN z \subseteq Nat
  BY PositionTypes
<1>4. \A e \in DOMAIN x : e < a => e \in DOMAIN y /\ x[e] = y[e]
  BY <1>1, Shared DEF Agree
<1>5. CASE a < b
  <2>1. a \in DOMAIN z /\ y[a] = z[a]
    BY <1>2, <1>5, Shared DEF Agree
  <2>2. \A e \in DOMAIN x \cap DOMAIN z : e < a => x[e] = z[e]
    BY <1>2, <1>3, <1>4, <1>5 DEF Agree
  <2>. QED BY <1>1, <2>1, <2>2 DEF Before, Earlier, Agree
<1>6. CASE a = b
  <2>1. Earlier(x, z, a)
    <3>1. /\ x[a].round \in Nat /\ y[a].round \in Nat /\ z[a].round \in Nat
          /\ x[a].next \in Nat /\ y[a].next \in Nat /\ z[a].next \in Nat
      BY <1>6, PositionTypes
    <3>. QED BY <1>1, <1>2, <1>6, <3>1 DEF Earlier
  <2>2. \A e \in DOMAIN x \cap DOMAIN z : e < a => x[e] = z[e]
    BY <1>2, <1>4, <1>6 DEF Agree
  <2>. QED BY <1>6, <2>1, <2>2 DEF Before, Agree
<1>7. CASE b < a
  <2>1. b \in DOMAIN x /\ x[b] = y[b]
    BY <1>1, <1>7, Shared DEF Agree
  <2>2. \A e \in DOMAIN x \cap DOMAIN z : e < b => x[e] = z[e]
    BY <1>2, <1>3, <1>4, <1>7 DEF Agree
  <2>. QED BY <1>2, <2>1, <2>2 DEF Before, Earlier, Agree
<1>. QED BY <1>3, <1>5, <1>6, <1>7

\* Of two positions that agree wherever both tell, neither of which is inside a leaf, the
\* one tells about what the other does.
LEMMA AgreeingPlaces ==
  ASSUME NEW p \in Programs, NEW m, NEW n, NEW x, NEW y, IsPlace(p, m, x), IsPlace(p, n, y),
         \A e \in DOMAIN x \cap DOMAIN y : x[e] = y[e]
  PROVE  DOMAIN x \subseteq DOMAIN y
<1>. DEFINE D == DOMAIN x \ DOMAIN y
<1>1. SUFFICES ASSUME D # {} PROVE FALSE
  OBVIOUS
<1>2. PICK b \in D : \A k \in D : b <= k
  <2>1. D \subseteq Nat
    BY PlaceTypes, PositionTypes
  <2>. HIDE DEF D
  <2>. QED BY <1>1, <2>1, Least
<1>. DEFINE e == ParentOf(p, b)
<1>3. b # 0 /\ b \in Nat
  BY PlaceTypes, PositionTypes DEF IsPosition
<1>4. e \in DOMAIN x /\ x[e].next = b /\ e < b /\ e \in Nat
  BY <1>3, PlaceTypes, PositionTypes DEF IsPosition
<1>5. e \notin D
  <2>. HIDE DEF D
  <2>. QED BY <1>2, <1>3, <1>4
<1>6. e \in DOMAIN y /\ y[e].next = b
  BY <1>4, <1>5
<1>7. e = ParentOf(p, n)
  <2>1. e <= ParentOf(p, n) /\ ParentOf(p, n) \in Nat
    BY <1>6, PlaceTypes, PositionTypes
  <2>2. ~(e < ParentOf(p, n))
    BY <1>6, PlaceTypes
  <2>. QED BY <1>4, <2>1, <2>2
<1>8. b = n
  BY <1>6, <1>7, PlaceTypes
<1>9. TypeOf(p, b) \in BlockTypes
  BY <1>3, PlaceTypes
<1>. QED BY <1>8, <1>9 DEF IsPlace

LEMMA Comparable ==
  ASSUME NEW p \in Programs, NEW m, NEW n, NEW x, NEW y, IsPlace(p, m, x), IsPlace(p, n, y)
  PROVE  Before(x, y) \/ Before(y, x) \/ (x = y /\ m = n)
<1>. DEFINE D == {a \in DOMAIN x \cap DOMAIN y : x[a] # y[a]}
<1>1. CASE D = {}
  <2>1. DOMAIN x = DOMAIN y
    BY <1>1, AgreeingPlaces
  <2>2. x = y
    BY <1>1, <2>1 DEF IsPlace, IsPosition
  <2>3. ParentOf(p, m) = ParentOf(p, n)
    <3>1. /\ ParentOf(p, m) <= ParentOf(p, n) /\ ParentOf(p, n) <= ParentOf(p, m)
          /\ ParentOf(p, m) \in Nat /\ ParentOf(p, n) \in Nat
      BY <2>2, PlaceTypes, PositionTypes
    <3>. QED BY <3>1
  <2>. QED BY <2>2, <2>3, PlaceTypes
<1>2. CASE D # {}
  <2>1. PICK a \in D : \A k \in D : a <= k
    <3>1. D \subseteq Nat
      BY PlaceTypes, PositionTypes
    <3>. HIDE DEF D
    <3>. QED BY <1>2, <3>1, Least
  <2>2. /\ a \in DOMAIN x \cap DOMAIN y /\ x[a] # y[a]
        /\ a \in Nat /\ x[a].round \in Nat /\ y[a].round \in Nat /\ x[a].next \in Nat /\ y[a].next \in Nat
        /\ x[a] = [round |-> x[a].round, next |-> x[a].next]
        /\ y[a] = [round |-> y[a].round, next |-> y[a].next]
        /\ DOMAIN x \subseteq Nat
    BY PlaceTypes, PositionTypes
  <2>3. Agree(x, y, a) /\ Agree(y, x, a)
    <3>1. ASSUME NEW e \in DOMAIN x \cap DOMAIN y, e < a PROVE x[e] = y[e]
      <4>1. ~(a <= e)
        BY <2>2, <3>1
      <4>. QED BY <2>1, <4>1
    <3>. QED BY <3>1 DEF Agree
  <2>4. Earlier(x, y, a) \/ Earlier(y, x, a)
    <3>1. x[a].round # y[a].round \/ x[a].next # y[a].next
      BY <2>2
    <3>2. /\ x[a].round \in Nat /\ y[a].round \in Nat
          /\ x[a].next \in Nat /\ y[a].next \in Nat
      BY <2>2
    <3>. QED BY <3>1, <3>2 DEF Earlier
  <2>. QED BY <2>2, <2>3, <2>4 DEF Before
<1>. QED BY <1>1, <1>2

-------------------------------------------------------------------------------
(* Moves.                                                                       *)

\* Rank r is to be at position x some time.
Reaches(p, r, x) == x[0].round = 0 /\ \A a \in DOMAIN x \ {0} : x[a].round < Rounds(p, r, a)

\* k is the statement after c in block t, or past all of them.
Following(p, t, c, k) ==
  /\ c < k
  /\ k = Past(p) \/ IsChild(p, t, k)
  /\ \A d : IsChild(p, t, d) /\ c < d => k <= d

IsTop(z, t) == t \in DOMAIN z /\ \A a \in DOMAIN z : a <= t
Same(z, y, S) == \A a \in S : y[a] = z[a]

\* From position z rank r goes to y: over the statement that comes next, a leaf or a block it
\* does not execute; into it; back to the begin of the block it is in; or out of that.
MovesOver(p, r, t, z, y) ==
  /\ IsChild(p, t, z[t].next)
  /\ TypeOf(p, z[t].next) \in BlockTypes => Rounds(p, r, z[t].next) = 0
  /\ DOMAIN y = DOMAIN z /\ Same(z, y, DOMAIN z \ {t})
  /\ y[t].round = z[t].round /\ Following(p, t, z[t].next, y[t].next)
MovesInto(p, r, t, z, y) ==
  LET c == z[t].next IN
  /\ IsChild(p, t, c) /\ TypeOf(p, c) \in BlockTypes /\ Rounds(p, r, c) > 0
  /\ DOMAIN y = DOMAIN z \cup {c} /\ Same(z, y, DOMAIN z)
  /\ y[c].round = 0 /\ Following(p, c, 0, y[c].next)
MovesBack(p, r, t, z, y) ==
  /\ z[t].next = Past(p) /\ t # 0 /\ TypeOf(p, t) = "REPEAT" /\ z[t].round + 1 < Rounds(p, r, t)
  /\ DOMAIN y = DOMAIN z /\ Same(z, y, DOMAIN z \ {t})
  /\ y[t].round = z[t].round + 1 /\ Following(p, t, 0, y[t].next)
MovesOut(p, r, t, z, y) ==
  LET e == ParentOf(p, t) IN
  /\ z[t].next = Past(p) /\ t # 0 /\ TypeOf(p, t) \in BlockTypes
  /\ z[t].round + 1 = Rounds(p, r, t)
  /\ DOMAIN y = DOMAIN z \ {t} /\ Same(z, y, DOMAIN z \ {t, e})
  /\ y[e].round = z[e].round /\ Following(p, e, t, y[e].next)
Moves(p, r, z, y) ==
  \E t : /\ IsTop(z, t)
         /\ \/ MovesOver(p, r, t, z, y) \/ MovesInto(p, r, t, z, y)
            \/ MovesBack(p, r, t, z, y) \/ MovesOut(p, r, t, z, y)

\* Two positions that agree around a statement both are in the block of.
LEMMA SameTop ==
  ASSUME NEW p \in Programs, NEW n, NEW x, IsPlace(p, n, x), NEW z, IsPosition(p, z),
         NEW t, IsTop(z, t), t = ParentOf(p, n), Agree(x, z, t), x[t] = z[t]
  PROVE  x = z
<1>1. IsPosition(p, x) /\ t \in DOMAIN x /\ t \in DOMAIN z /\ \A a \in DOMAIN x : a <= t
  BY PlaceTypes DEF IsTop
<1>2. DOMAIN x \subseteq Nat /\ DOMAIN z \subseteq Nat
  BY <1>1, PositionTypes
<1>3. \A a \in DOMAIN x : a # t => a < t /\ a \in DOMAIN z
  BY <1>1, <1>2, Shared
<1>4. \A a \in DOMAIN z : a # t => a < t /\ a \in DOMAIN x
  <2>1. \A a \in DOMAIN z : a # t => a < t
    BY <1>1, <1>2 DEF IsTop
  <2>. QED BY <1>1, <2>1, Shared
<1>5. DOMAIN x = DOMAIN z /\ \A a \in DOMAIN x : x[a] = z[a]
  BY <1>1, <1>3, <1>4 DEF Agree
<1>. QED BY <1>1, <1>5 DEF IsPosition

LEMMA BeforeOver ==
  ASSUME NEW p \in Programs, NEW r, NEW n, NEW x, IsPlace(p, n, x), Reaches(p, r, x),
         NEW z, IsPosition(p, z), NEW y, IsPosition(p, y), NEW t, IsTop(z, t), MovesOver(p, r, t, z, y)
  PROVE  Before(x, y) <=> Before(x, z) \/ x = z
<1>. DEFINE c == z[t].next
<1>1. /\ IsPosition(p, x) /\ DOMAIN x \subseteq Nat /\ DOMAIN z \subseteq Nat /\ t \in DOMAIN z /\ t \in Nat
      /\ DOMAIN y = DOMAIN z /\ \A a \in DOMAIN z : a # t => y[a] = z[a]
      /\ y[t].round = z[t].round /\ c < y[t].next /\ c \in Nat /\ y[t].next \in Nat
      /\ z[t].round \in Nat /\ \A a \in DOMAIN z : a <= t
  BY PlaceTypes, PositionTypes DEF IsTop, MovesOver, Same, Following
<1>2. \A a \in DOMAIN x \cap DOMAIN z : Agree(x, y, a) <=> Agree(x, z, a)
  BY <1>1 DEF Agree
<1>3. ASSUME Before(x, z)
      PROVE  Before(x, y)
  <2>1. PICK a \in DOMAIN x \cap DOMAIN z : Agree(x, z, a) /\ Earlier(x, z, a)
    BY <1>3 DEF Before
  <2>2. Earlier(x, y, a)
    <3>1. CASE a = t
      <4>1. x[t].round \in Nat /\ x[t].next \in Nat
        BY <1>1, <2>1, <3>1, PositionTypes
      <4>. QED BY <1>1, <2>1, <3>1, <4>1 DEF Earlier
    <3>2. CASE a # t
      BY <1>1, <2>1, <3>2 DEF Earlier
    <3>. QED BY <3>1, <3>2
  <2>. QED BY <1>1, <1>2, <2>1, <2>2 DEF Before
<1>4. ASSUME x = z
      PROVE  Before(x, y)
  <2>1. Agree(x, y, t) /\ Earlier(x, y, t)
    BY <1>1, <1>4 DEF Agree, Earlier
  <2>. QED BY <1>1, <1>4, <2>1 DEF Before
<1>5. ASSUME Before(x, y), ~Before(x, z)
      PROVE  x = z
  <2>1. PICK a \in DOMAIN x \cap DOMAIN z : Agree(x, z, a) /\ Earlier(x, y, a)
    BY <1>1, <1>2, <1>5 DEF Before
  <2>2. ~Earlier(x, z, a)
    BY <1>5, <2>1 DEF Before
  <2>3. a = t
    BY <1>1, <2>1, <2>2 DEF Earlier
  <2>4. x[t].round \in Nat /\ x[t].next \in Nat /\ t \in DOMAIN x /\ IsChild(p, t, x[t].next)
    BY <1>1, <2>1, <2>3, PositionTypes, PlaceTypes
  <2>5. x[t].round = z[t].round /\ c <= x[t].next /\ x[t].next < y[t].next
    BY <1>1, <2>1, <2>2, <2>3, <2>4 DEF Earlier
  <2>6. x[t].next = c
    <3>1. c < x[t].next => y[t].next <= x[t].next
      BY <2>4 DEF MovesOver, Following
    <3>. QED BY <1>1, <2>4, <2>5, <3>1
  <2>7. CASE t = ParentOf(p, n)
    <3>1. x[t] = z[t]
      BY <1>1, <2>4, <2>5, <2>6, PositionTypes
    <3>. QED BY <2>1, <2>3, <2>7, <3>1, SameTop
  <2>8. CASE t # ParentOf(p, n)
    <3>1. t < ParentOf(p, n)
      <4>1. t <= ParentOf(p, n) /\ ParentOf(p, n) \in Nat
        BY <1>1, <2>4, PlaceTypes
      <4>. QED BY <1>1, <2>8, <4>1
    <3>2. c \in DOMAIN x
      BY <2>4, <2>6, <3>1, PlaceTypes
    <3>3. c # 0
      BY <2>4, <2>6, TreeTypes DEF IsChild
    <3>4. TypeOf(p, c) \in BlockTypes /\ x[c].round < Rounds(p, r, c) /\ x[c].round \in Nat
      BY <1>1, <3>2, <3>3, PlaceTypes, PositionTypes DEF Reaches
    <3>5. Rounds(p, r, c) = 0
      BY <3>4 DEF MovesOver
    <3>. QED BY <3>4, <3>5
  <2>. QED BY <2>7, <2>8
<1>. QED BY <1>3, <1>4, <1>5

LEMMA BeforeInto ==
  ASSUME NEW p \in Programs, NEW r, NEW n, NEW x, IsPlace(p, n, x), Reaches(p, r, x),
         NEW z, IsPosition(p, z), NEW y, IsPosition(p, y), NEW t, IsTop(z, t), MovesInto(p, r, t, z, y)
  PROVE  Before(x, y) <=> Before(x, z) \/ x = z
<1>. DEFINE c == z[t].next
<1>1. /\ IsPosition(p, x) /\ DOMAIN x \subseteq Nat /\ DOMAIN z \subseteq Nat /\ t \in DOMAIN z /\ t \in Nat
      /\ DOMAIN y = DOMAIN z \cup {c} /\ \A a \in DOMAIN z : y[a] = z[a]
      /\ y[c].round = 0 /\ c \in Nat /\ t < c
      /\ \A a \in DOMAIN z : a <= t
  BY PlaceTypes, PositionTypes DEF IsTop, MovesInto, Same, Following
<1>2. ASSUME NEW a \in DOMAIN x \cap DOMAIN z
      PROVE  /\ Agree(x, y, a) <=> Agree(x, z, a)
             /\ Earlier(x, y, a) <=> Earlier(x, z, a)
  <2>1. \A e \in DOMAIN x \cap DOMAIN y : e < a => e \in DOMAIN z
    BY <1>1
  <2>. QED BY <1>1, <2>1 DEF Agree, Earlier
<1>3. ASSUME Before(x, z) PROVE Before(x, y)
  BY <1>1, <1>2, <1>3 DEF Before
<1>4. x # z
  <2>1. SUFFICES ASSUME x = z PROVE FALSE
    OBVIOUS
  <2>2. t = ParentOf(p, n)
    <3>1. t <= ParentOf(p, n) /\ ParentOf(p, n) <= t /\ ParentOf(p, n) \in Nat
      BY <1>1, <2>1, PlaceTypes
    <3>. QED BY <1>1, <3>1
  <2>3. c = n
    BY <2>1, <2>2, PlaceTypes
  <2>. QED BY <2>3 DEF IsPlace, MovesInto
<1>5. ASSUME Before(x, y) PROVE Before(x, z)
  <2>1. PICK a \in DOMAIN x \cap DOMAIN y : Agree(x, y, a) /\ Earlier(x, y, a)
    BY <1>5 DEF Before
  <2>2. a # c
    <3>1. SUFFICES ASSUME a = c PROVE FALSE
      OBVIOUS
    <3>2. x[c].round \in Nat /\ x[c].next \in Nat /\ y[c].next \in Nat /\ IsChild(p, c, x[c].next)
      BY <1>1, <2>1, <3>1, PositionTypes, PlaceTypes
    <3>3. 0 < x[c].next
      BY <3>2, TreeTypes DEF IsChild
    <3>4. y[c].next <= x[c].next
      BY <3>2, <3>3 DEF MovesInto, Following
    <3>. QED BY <1>1, <2>1, <3>1, <3>2, <3>4 DEF Earlier
  <2>3. a \in DOMAIN x \cap DOMAIN z
    BY <1>1, <2>1, <2>2
  <2>. QED BY <1>2, <2>1, <2>3 DEF Before
<1>. QED BY <1>3, <1>4, <1>5

LEMMA BeforeBack ==
  ASSUME NEW p \in Programs, NEW r, NEW n, NEW x, IsPlace(p, n, x), Reaches(p, r, x),
         NEW z, IsPosition(p, z), NEW y, IsPosition(p, y), NEW t, IsTop(z, t), MovesBack(p, r, t, z, y)
  PROVE  Before(x, y) <=> Before(x, z) \/ x = z
<1>1. /\ IsPosition(p, x) /\ DOMAIN x \subseteq Nat /\ DOMAIN z \subseteq Nat /\ t \in DOMAIN z /\ t \in Nat
      /\ DOMAIN y = DOMAIN z /\ \A a \in DOMAIN z : a # t => y[a] = z[a]
      /\ y[t].round = z[t].round + 1 /\ z[t].round \in Nat /\ y[t].next \in Nat /\ z[t].next = Past(p)
      /\ \A a \in DOMAIN z : a <= t
  BY PlaceTypes, PositionTypes DEF IsTop, MovesBack, Same
<1>2. \A a \in DOMAIN x \cap DOMAIN z : Agree(x, y, a) <=> Agree(x, z, a)
  BY <1>1 DEF Agree
<1>3. ASSUME NEW a \in DOMAIN x \cap DOMAIN z
      PROVE  Earlier(x, y, a) <=> Earlier(x, z, a)
  <2>1. CASE a # t
    BY <1>1, <2>1 DEF Earlier
  <2>2. CASE a = t
    <3>1. x[t].round \in Nat /\ x[t].next \in Nat /\ Past(p) \in Nat /\ IsChild(p, t, x[t].next)
      BY <1>1, <2>2, PositionTypes, PlaceTypes, TreeTypes
    <3>2. 0 < x[t].next /\ x[t].next < Past(p)
      BY <3>1, TreeTypes DEF IsChild
    <3>3. y[t].next <= x[t].next
      BY <3>1, <3>2 DEF MovesBack, Following
    <3>. QED BY <1>1, <2>2, <3>1, <3>2, <3>3 DEF Earlier
  <2>. QED BY <2>1, <2>2
<1>4. x # z
  BY <1>1, PlaceTypes, TreeTypes DEF IsChild
<1>. QED BY <1>1, <1>2, <1>3, <1>4 DEF Before

LEMMA BeforeOut ==
  ASSUME NEW p \in Programs, NEW r, NEW n, NEW x, IsPlace(p, n, x), Reaches(p, r, x),
         NEW z, IsPosition(p, z), NEW y, IsPosition(p, y), NEW t, IsTop(z, t), MovesOut(p, r, t, z, y)
  PROVE  Before(x, y) <=> Before(x, z) \/ x = z
<1>. DEFINE e == ParentOf(p, t)
<1>1. /\ IsPosition(p, x) /\ DOMAIN x \subseteq Nat /\ DOMAIN z \subseteq Nat
      /\ t \in DOMAIN z /\ t \in Nat /\ t # 0
      /\ DOMAIN y = DOMAIN z \ {t} /\ \A a \in DOMAIN z : a # t /\ a # e => y[a] = z[a]
      /\ y[e].round = z[e].round /\ z[t].round \in Nat /\ z[t].next = Past(p)
      /\ z[t].round + 1 = Rounds(p, r, t)
      /\ \A a \in DOMAIN z : a <= t
  BY PlaceTypes, PositionTypes DEF IsTop, MovesOut, Same
<1>2. /\ e \in DOMAIN z /\ e \in Nat /\ e < t /\ z[e].next = t /\ e \in DOMAIN y
      /\ z[e].round \in Nat /\ y[e].next \in Nat /\ t < y[e].next
      /\ \A a \in DOMAIN z : a # t => a <= e
  <2>1. e \in DOMAIN z /\ e \in Nat /\ e < t /\ z[e].next = t
    BY <1>1, PositionTypes DEF IsPosition
  <2>2. e \in DOMAIN y
    BY <1>1, <2>1
  <2>3. \A a \in DOMAIN z : a # t => a <= e
    <3>1. \A a \in DOMAIN z : e < a => t <= a
      BY <2>1 DEF IsPosition
    <3>. HIDE DEF e
    <3>. QED BY <1>1, <2>1, <3>1
  <2>. QED BY <2>1, <2>2, <2>3, PositionTypes DEF MovesOut, Following
<1>3. x # z
  BY <1>1, PlaceTypes, TreeTypes DEF IsChild
<1>. HIDE DEF e
<1>4. ASSUME NEW a \in DOMAIN x \cap DOMAIN y
      PROVE  Agree(x, y, a) <=> Agree(x, z, a)
  <2>1. a <= e /\ a \in Nat
    BY <1>1, <1>2
  <2>2. \A d \in DOMAIN x \cap DOMAIN y : d < a => d \in DOMAIN z /\ y[d] = z[d]
    BY <1>1, <1>2, <2>1
  <2>3. \A d \in DOMAIN x \cap DOMAIN z : d < a => d \in DOMAIN y
    BY <1>1, <1>2, <2>1
  <2>. QED BY <2>2, <2>3 DEF Agree
<1>5. ASSUME Before(x, z) PROVE Before(x, y)
  <2>1. PICK a \in DOMAIN x \cap DOMAIN z : Agree(x, z, a) /\ Earlier(x, z, a)
    BY <1>5 DEF Before
  <2>2. CASE a = t
    <3>1. e \in DOMAIN x
      BY <1>1, <1>2, <2>1, <2>2, Shared
    <3>2. x[e] = z[e]
      BY <1>2, <2>1, <2>2, <3>1 DEF Agree
    <3>3. Earlier(x, y, e)
      BY <1>1, <1>2, <3>2 DEF Earlier
    <3>4. Agree(x, z, e)
      BY <1>1, <1>2, <2>1, <2>2 DEF Agree
    <3>. QED BY <1>2, <1>4, <3>1, <3>3, <3>4 DEF Before
  <2>3. CASE a = e
    <3>1. x[e].round \in Nat /\ x[e].next \in Nat
      BY <1>1, <2>1, <2>3, PositionTypes
    <3>2. Earlier(x, y, e)
      BY <1>1, <1>2, <2>1, <2>3, <3>1 DEF Earlier
    <3>. QED BY <1>2, <1>4, <2>1, <2>3, <3>2 DEF Before
  <2>4. CASE a # t /\ a # e
    <3>1. Earlier(x, y, a) /\ a \in DOMAIN y
      BY <1>1, <2>1, <2>4 DEF Earlier
    <3>. QED BY <1>4, <2>1, <3>1 DEF Before
  <2>. QED BY <2>2, <2>3, <2>4
<1>6. ASSUME Before(x, y) PROVE Before(x, z)
  <2>1. PICK a \in DOMAIN x \cap DOMAIN y : Agree(x, y, a) /\ Earlier(x, y, a)
    BY <1>6 DEF Before
  <2>2. a \in DOMAIN z /\ Agree(x, z, a)
    BY <1>1, <1>4, <2>1
  <2>3. CASE a # e
    BY <1>1, <2>1, <2>2, <2>3 DEF Before, Earlier
  <2>4. CASE a = e
    <3>1. x[e].round \in Nat /\ x[e].next \in Nat /\ e \in DOMAIN x /\ IsChild(p, e, x[e].next)
      BY <1>1, <2>1, <2>4, PositionTypes, PlaceTypes
    <3>2. CASE Earlier(x, z, e)
      BY <2>1, <2>2, <2>4, <3>2 DEF Before
    <3>3. CASE ~Earlier(x, z, e)
      <4>1. x[e].round = z[e].round /\ t <= x[e].next /\ x[e].next < y[e].next
        BY <1>1, <1>2, <2>1, <2>4, <3>1, <3>3 DEF Earlier
      <4>2. x[e].next = t
        <5>1. t < x[e].next => y[e].next <= x[e].next
          BY <3>1 DEF MovesOut, Following, e
        <5>. QED BY <1>1, <1>2, <3>1, <4>1, <5>1
      <4>3. t # n
        BY DEF IsPlace, MovesOut
      <4>4. e # ParentOf(p, n) /\ t \in DOMAIN x
        <5>1. e # ParentOf(p, n)
          BY <4>2, <4>3 DEF IsPlace
        <5>2. e < ParentOf(p, n)
          <6>1. e <= ParentOf(p, n) /\ ParentOf(p, n) \in Nat
            BY <1>1, <3>1, PlaceTypes
          <6>. QED BY <1>2, <5>1, <6>1
        <5>. QED BY <3>1, <4>2, <5>1, <5>2, PlaceTypes
      <4>5. x[t].round < Rounds(p, r, t) /\ x[t].round \in Nat /\ x[t].next \in Nat /\ IsChild(p, t, x[t].next)
        BY <1>1, <4>4, PositionTypes, PlaceTypes DEF Reaches
      <4>6. x[t].next < z[t].next /\ z[t].next \in Nat
        BY <1>1, <4>5, TreeTypes DEF IsChild
      <4>7. Earlier(x, z, t)
        BY <1>1, <4>5, <4>6 DEF Earlier
      <4>8. Agree(x, z, t)
        <5>1. x[e] = z[e]
          BY <1>1, <1>2, <3>1, <4>1, <4>2, PositionTypes
        <5>2. \A d \in DOMAIN x \cap DOMAIN z : d < t => d < e \/ d = e
          BY <1>1, <1>2
        <5>. QED BY <2>2, <2>4, <5>1, <5>2 DEF Agree
      <4>. QED BY <1>1, <4>4, <4>7, <4>8 DEF Before
    <3>. QED BY <3>2, <3>3
  <2>. QED BY <2>3, <2>4
<1>. QED BY <1>3, <1>5, <1>6

\* A rank that moves leaves behind where it was, and nothing else that it is to be at.
LEMMA BeforeMoves ==
  ASSUME NEW p \in Programs, NEW r, NEW n, NEW x, IsPlace(p, n, x), Reaches(p, r, x),
         NEW z, IsPosition(p, z), NEW y, IsPosition(p, y), Moves(p, r, z, y)
  PROVE  Before(x, y) <=> Before(x, z) \/ x = z
BY BeforeOver, BeforeInto, BeforeBack, BeforeOut DEF Moves

-------------------------------------------------------------------------------
(* Where a rank is.                                                             *)

\* Its position: what comes next is the first statement pending in the innermost block, and
\* in each other block the one that is being executed.
DepthOf(r, a) == CHOOSE i \in 1 .. Len(frames[r]) : frames[r][i].node = a
Coming(r) == IF Pending(r) = {} THEN Past(program) ELSE Current(r)
Position(r) ==
  [a \in OnPath(r) |->
     [round |-> frames[r][DepthOf(r, a)].round,
      next  |-> IF DepthOf(r, a) = 1 THEN Coming(r) ELSE frames[r][DepthOf(r, a) - 1].node]]

LEMMA FollowingUnique ==
  ASSUME NEW p \in Programs, NEW t, NEW c \in Nat, NEW k, Following(p, t, c, k), NEW m, Following(p, t, c, m)
  PROVE  k = m
<1>1. k \in Nat /\ m \in Nat /\ k <= Past(p) /\ m <= Past(p) /\ Past(p) \in Nat
  BY TreeTypes DEF Following, IsChild
<1>2. k <= m /\ m <= k
  BY <1>1 DEF Following
<1>. QED BY <1>1, <1>2

LEMMA ProgramTypes ==
  ASSUME Types
  PROVE  /\ program \in Programs /\ NodesOf(program) = Nodes
         /\ \A n \in Nodes : ParentOf(program, n) = program.kernel.parent[n] /\ TypeOf(program, n) = Stmt(n).type
BY ProgramsAssumption DEF Types, NodesOf, Nodes, ParentOf, TypeOf, Stmt

\* The least statement that is pending, when one is.
LEMMA CurrentIs ==
  ASSUME Types, NEW r, Pending(r) # {}
  PROVE  /\ Current(r) \in Pending(r) /\ \A d \in Pending(r) : Current(r) <= d
         /\ \A c \in Pending(r) : (\A d \in Pending(r) : c <= d) => c = Current(r)
<1>1. Pending(r) \subseteq Nat
  BY KernelTypes DEF Pending
<1>2. PICK c \in Pending(r) : \A d \in Pending(r) : c <= d
  BY <1>1, Least
<1>3. Current(r) \in Pending(r) /\ \A d \in Pending(r) : Current(r) <= d
  BY <1>2 DEF Current
<1>4. ASSUME NEW d \in Pending(r), \A e \in Pending(r) : d <= e
      PROVE  d = Current(r)
  <2>1. d <= Current(r) /\ Current(r) <= d /\ d \in Nat /\ Current(r) \in Nat
    BY <1>1, <1>3, <1>4
  <2>. QED BY <2>1
<1>. QED BY <1>3, <1>4

LEMMA ComingIs ==
  ASSUME Safe, NEW r \in Ranks
  PROVE  /\ Following(program, frames[r][1].node, frames[r][1].last, Coming(r))
         /\ frames[r][1].last \in Nat
<1>1. /\ Top(r) = frames[r][1] /\ frames[r][1].last \in Nodes \cup {0}
  BY TopTypes DEF Safe, FrameInv
<1>2. /\ program \in Programs /\ frames[r][1].last \in Nat /\ frames[r][1].last < Past(program)
      /\ Nodes = NodesOf(program)
  BY <1>1, ProgramTypes, TreeTypes DEF Safe
<1>3. \A d : d \in Pending(r) <=> IsChild(program, frames[r][1].node, d) /\ frames[r][1].last < d
  <2>1. \A d \in Nodes : d \in Nat /\ ParentOf(program, d) = program.kernel.parent[d]
    BY KernelTypes, ProgramTypes DEF Safe
  <2>. QED BY <1>1, <1>2, <2>1 DEF Pending, IsChild
<1>4. CASE Pending(r) = {}
  BY <1>2, <1>3, <1>4 DEF Coming, Following
<1>5. CASE Pending(r) # {}
  BY <1>2, <1>3, <1>5, CurrentIs DEF Coming, Following, Safe
<1>. QED BY <1>2, <1>4, <1>5

\* Nodes of a path grow from the root.
LEMMA Descending ==
  ASSUME Safe, NEW r \in Ranks
  PROVE  /\ \A i \in 1 .. Len(frames[r]) :
              frames[r][i].node \in Nat /\ frames[r][i].node \in Nodes \cup {0}
         /\ \A i, j \in 1 .. Len(frames[r]) : i < j => frames[r][j].node < frames[r][i].node
<1>. DEFINE L == Len(frames[r])
            node == [i \in 1 .. Len(frames[r]) |-> frames[r][i].node]
<1>1. L \in Nat /\ L >= 1 /\ node[L] = 0
  BY TopTypes DEF Safe, PathInv
<1>2. \A i \in 1 .. L - 1 : node[i] \in Nodes /\ node[i + 1] = ParentOf(program, node[i])
  BY ProgramTypes DEF Safe, PathInv
<1>3. \A i \in 1 .. L : node[i] \in Nat /\ node[i] \in Nodes \cup {0}
  <2>1. \A i \in 1 .. L : i = L \/ i \in 1 .. L - 1
    BY <1>1
  <2>. HIDE DEF L, node
  <2>. QED BY <1>1, <1>2, <2>1, KernelTypes DEF Safe
<1>4. \A i \in 1 .. L - 1 : node[i + 1] < node[i]
  <2>. HIDE DEF L, node
  <2>. QED BY <1>2, TreeTypes, ProgramTypes DEF Safe
<1>5. ASSUME NEW i \in 1 .. L, NEW j \in 1 .. L, i < j
      PROVE  node[j] < node[i]
  <2>. DEFINE D == {k \in i + 1 .. L : ~(node[k] < node[i])}
  <2>1. D = {}
    <3>1. SUFFICES ASSUME D # {} PROVE FALSE
      OBVIOUS
    <3>2. PICK k \in D : \A m \in D : k <= m
      <4>1. D \subseteq Nat
        BY <1>1
      <4>. HIDE DEF D
      <4>. QED BY <3>1, <4>1, Least
    <3>. HIDE DEF L, node
    <3>3. k - 1 \in 1 .. L - 1 /\ k \in 1 .. L /\ k \in Nat /\ (k - 1) + 1 = k /\ k - 1 < k
      BY <1>1
    <3>4. node[k] < node[k - 1] /\ node[k] \in Nat /\ node[k - 1] \in Nat /\ node[i] \in Nat
      <4>1. node[(k - 1) + 1] < node[k - 1]
        BY <1>4, <3>3
      <4>2. k - 1 \in 1 .. L
        BY <1>1, <3>3
      <4>. QED BY <1>3, <3>3, <4>1, <4>2
    <3>5. k - 1 = i \/ k - 1 \in i + 1 .. L
      BY <1>1, <3>3
    <3>6. k - 1 \notin D
      BY <3>2, <3>3
    <3>. QED BY <3>4, <3>5, <3>6
  <2>2. j \in i + 1 .. L
    BY <1>1, <1>5
  <2>. QED BY <2>1, <2>2
<1>. QED BY <1>3, <1>5

LEMMA PositionAt ==
  ASSUME Safe, NEW r \in Ranks
  PROVE  /\ DOMAIN Position(r) = OnPath(r)
         /\ \A i \in 1 .. Len(frames[r]) :
              /\ frames[r][i].node \in OnPath(r)
              /\ Position(r)[frames[r][i].node].round = frames[r][i].round
              /\ LET leg == Position(r)[frames[r][i].node] IN
                 leg = [round |-> leg.round, next |-> leg.next]
              /\ i = 1 => Position(r)[frames[r][i].node].next = Coming(r)
              /\ i # 1 => Position(r)[frames[r][i].node].next = frames[r][i - 1].node
<1>1. ASSUME NEW i \in 1 .. Len(frames[r])
      PROVE  frames[r][i].node \in OnPath(r) /\ DepthOf(r, frames[r][i].node) = i
  <2>1. frames[r][i].node \in OnPath(r)
    BY DEF OnPath
  <2>2. PICK j : j = DepthOf(r, frames[r][i].node)
    OBVIOUS
  <2>3. j \in 1 .. Len(frames[r]) /\ frames[r][j].node = frames[r][i].node
    BY <2>2 DEF DepthOf
  <2>4. ~(i < j) /\ ~(j < i) /\ i \in Nat /\ j \in Nat
    <3>1. frames[r][i].node \in Nat /\ frames[r][j].node \in Nat /\ Len(frames[r]) \in Nat
      BY <2>3, Descending, TopTypes DEF Safe
    <3>. QED BY <2>3, <3>1, Descending
  <2>. QED BY <2>1, <2>2, <2>4
<1>. QED BY <1>1 DEF Position

LEMMA PositionOf ==
  ASSUME Safe, NEW r \in Ranks
  PROVE  IsPosition(program, Position(r)) /\ IsTop(Position(r), frames[r][1].node)
<1>. DEFINE L == Len(frames[r])
            node == [i \in 1 .. Len(frames[r]) |-> frames[r][i].node]
            z == Position(r)
<1>1. /\ L \in Nat /\ 1 \in 1 .. L /\ L \in 1 .. L /\ node[L] = 0
      /\ program \in Programs /\ Nodes = NodesOf(program)
  BY TopTypes, ProgramTypes DEF Safe, PathInv
<1>2. \A i \in 1 .. L - 1 : node[i] \in Nodes /\ node[i + 1] = ParentOf(program, node[i])
  BY ProgramTypes DEF Safe, PathInv
<1>3. /\ \A i \in 1 .. L : node[i] \in Nat /\ node[i] \in Nodes \cup {0}
      /\ \A i, j \in 1 .. L : i < j => node[j] < node[i]
  BY Descending
<1>4. /\ DOMAIN z = {node[i] : i \in 1 .. L}
      /\ \A i \in 1 .. L :
           /\ z[node[i]].round = frames[r][i].round
           /\ z[node[i]] = [round |-> z[node[i]].round, next |-> z[node[i]].next]
      /\ z[node[1]].next = Coming(r)
      /\ \A i \in 1 .. L - 1 : z[node[i + 1]].next = node[i]
  <2>1. /\ DOMAIN z = {node[i] : i \in 1 .. L}
        /\ \A i \in 1 .. L :
             /\ z[node[i]].round = frames[r][i].round
             /\ z[node[i]] = [round |-> z[node[i]].round, next |-> z[node[i]].next]
        /\ z[node[1]].next = Coming(r)
    <3>1. \A i \in 1 .. L : node[i] = frames[r][i].node
      OBVIOUS
    <3>2. /\ DOMAIN z = {frames[r][i].node : i \in 1 .. L}
          /\ \A i \in 1 .. L :
               /\ z[frames[r][i].node].round = frames[r][i].round
               /\ z[frames[r][i].node] = [round |-> z[frames[r][i].node].round,
                                          next |-> z[frames[r][i].node].next]
          /\ z[frames[r][1].node].next = Coming(r)
      BY <1>1, PositionAt DEF OnPath
    <3>. HIDE DEF z, node, L
    <3>3. {frames[r][i].node : i \in 1 .. L} = {node[i] : i \in 1 .. L}
      BY <3>1
    <3>4. ASSUME NEW i \in 1 .. L
          PROVE  /\ z[node[i]].round = frames[r][i].round
                 /\ z[node[i]] = [round |-> z[node[i]].round, next |-> z[node[i]].next]
      <4>1. node[i] = frames[r][i].node
        BY <3>1
      <4>. QED BY <3>2, <4>1
    <3>5. z[node[1]].next = Coming(r)
      BY <1>1, <3>1, <3>2
    <3>. QED BY <3>2, <3>3, <3>4, <3>5
  <2>2. ASSUME NEW i \in 1 .. L - 1 PROVE z[node[i + 1]].next = node[i]
    <3>1. i + 1 \in 1 .. L /\ i + 1 # 1 /\ (i + 1) - 1 = i /\ i \in 1 .. L
      BY <1>1
    <3>2. z[node[i + 1]].next = node[(i + 1) - 1]
      BY <3>1, PositionAt
    <3>. QED BY <3>1, <3>2
  <2>. QED BY <2>1, <2>2
<1>5. \A i \in 1 .. L : frames[r][i].round \in Nat
  BY TopTypes DEF Safe, Frames
<1>6. /\ Following(program, node[1], frames[r][1].last, Coming(r)) /\ Coming(r) \in Nat
      /\ Past(program) \in Nat
  BY <1>1, ComingIs, TreeTypes DEF Following, IsChild
<1>7. z = [a \in DOMAIN z |-> z[a]]
  BY DEF Position
<1>. HIDE DEF z, node, L
<1>15. \A i \in 1 .. L : z[node[i]].next \in Nat => z[node[i]] \in Legs
  <2>1. \A rd, nx \in Nat : [round |-> rd, next |-> nx] \in Legs
    BY DEF Legs
  <2>. TAKE i \in 1 .. L
  <2>2. /\ z[node[i]].round \in Nat
        /\ z[node[i]] = [round |-> z[node[i]].round, next |-> z[node[i]].next]
    BY <1>4, <1>5
  <2>. QED BY <2>1, <2>2
<1>8. ASSUME NEW i \in 1 .. L
      PROVE  /\ z[node[i]] \in Legs
             /\ z[node[i]].next = Past(program) \/ IsChild(program, node[i], z[node[i]].next)
  <2>1. CASE i = 1
    BY <1>4, <1>6, <1>15, <2>1 DEF Following
  <2>2. CASE i # 1
    <3>1. i - 1 \in 1 .. L - 1 /\ i - 1 \in 1 .. L /\ (i - 1) + 1 = i
      BY <1>1, <2>2
    <3>2. node[i - 1] \in Nodes /\ node[i] = ParentOf(program, node[i - 1]) /\ node[i - 1] \in Nat
      BY <1>2, <1>3, <3>1
    <3>3. z[node[i]].next = node[i - 1]
      BY <1>4, <3>1
    <3>. QED BY <1>1, <1>15, <3>2, <3>3 DEF IsChild
  <2>. QED BY <2>1, <2>2
<1>9. ASSUME NEW i \in 1 .. L, node[i] # 0
      PROVE  ParentOf(program, node[i]) \in DOMAIN z /\ z[ParentOf(program, node[i])].next = node[i]
  <2>1. i \in 1 .. L - 1 /\ i + 1 \in 1 .. L
    BY <1>1, <1>9
  <2>2. ParentOf(program, node[i]) = node[i + 1]
    BY <1>2, <2>1
  <2>3. z[node[i + 1]].next = node[i]
    BY <1>4, <2>1
  <2>. QED BY <1>4, <2>1, <2>2, <2>3
<1>10. ASSUME NEW i \in 1 .. L, NEW j \in 1 .. L, node[i] < node[j]
       PROVE  z[node[i]].next \in DOMAIN z /\ z[node[i]].next <= node[j]
  <2>1. j < i
    <3>1. node[i] # node[j] /\ ~(node[j] < node[i])
      BY <1>3, <1>10
    <3>. QED BY <1>1, <1>3, <3>1
  <2>2. i - 1 \in 1 .. L - 1 /\ (i - 1) + 1 = i /\ i - 1 \in 1 .. L /\ (j = i - 1 \/ j < i - 1)
    BY <1>1, <2>1
  <2>3. z[node[i]].next = node[i - 1]
    BY <1>4, <2>2
  <2>. QED BY <1>3, <1>4, <2>2, <2>3
<1>11. 0 \in DOMAIN z /\ DOMAIN z \subseteq NodesOf(program) \cup {0}
  BY <1>1, <1>3, <1>4
<1>12. IsPosition(program, z)
  <2>1. z \in [DOMAIN z -> Legs]
    BY <1>4, <1>7, <1>8
  <2>2. \A a \in DOMAIN z \ {0} : ParentOf(program, a) \in DOMAIN z /\ z[ParentOf(program, a)].next = a
    BY <1>4, <1>9
  <2>3. \A a \in DOMAIN z : z[a].next = Past(program) \/ IsChild(program, a, z[a].next)
    BY <1>4, <1>8
  <2>4. \A a, b \in DOMAIN z : a < b => z[a].next \in DOMAIN z /\ z[a].next <= b
    BY <1>4, <1>10
  <2>. QED BY <1>11, <2>1, <2>2, <2>3, <2>4 DEF IsPosition
<1>13. IsTop(z, node[1])
  <2>1. \A i \in 1 .. L : i = 1 \/ 1 < i
    BY <1>1
  <2>2. \A i \in 1 .. L : node[i] <= node[1]
    BY <1>1, <1>3, <2>1
  <2>. QED BY <1>1, <1>4, <2>2 DEF IsTop
<1>14. node[1] = frames[r][1].node
  BY <1>1 DEF node, L
<1>. QED BY <1>12, <1>13, <1>14 DEF z

-------------------------------------------------------------------------------
(* Communicators and rounds.                                                    *)

\* The active communicator at a statement is that of the group block it is in, if it is
\* directly in one, or else that at the block.
LEMMA LexicalOf ==
  ASSUME NEW p \in Programs, NEW r, NEW n \in NodesOf(p)
  PROVE  LexicalComm(p, r, n) =
           IF ParentOf(p, n) = 0 THEN World
           ELSE IF TypeOf(p, ParentOf(p, n)) = "GROUP"
                THEN CommOf(r, p.kernel.stmt[ParentOf(p, n)].arg)
                ELSE LexicalComm(p, r, ParentOf(p, n))
<1>. DEFINE e == ParentOf(p, n)
            groups(m) == {a \in Around(p, m) : p.kernel.stmt[a].type = "GROUP"}
<1>1. CASE e = 0
  <2>1. groups(n) = {}
    BY <1>1, AroundOf
  <2>. QED BY <1>1, <2>1 DEF LexicalComm
<1>2. CASE e # 0 /\ TypeOf(p, e) = "GROUP"
  <2>1. groups(n) = {e} \cup groups(e)
    BY <1>2, AroundOf DEF TypeOf
  <2>2. e \in NodesOf(p) /\ \A b \in groups(e) : b \in Nat /\ b < e
    BY <1>2, TreeTypes, AroundTypes
  <2>3. PICK S : S = groups(n)
    OBVIOUS
  <2>4. \A a \in S : (\A b \in S : b <= a) <=> a = e
    <3>. HIDE DEF groups, e
    <3>1. e \in Nat /\ e \in S /\ \A b \in S : b = e \/ (b \in Nat /\ b < e)
      BY <2>1, <2>2, <2>3, TreeTypes
    <3>. QED BY <3>1
  <2>5. (CHOOSE a \in S : \A b \in S : b <= a) = e
    <3>1. e \in S
      BY <2>1, <2>3
    <3>. QED BY <2>4, <3>1
  <2>6. LexicalComm(p, r, n) =
          IF S = {} THEN World ELSE CommOf(r, p.kernel.stmt[CHOOSE a \in S : \A b \in S : b <= a].arg)
    BY <2>3 DEF LexicalComm
  <2>7. S # {}
    BY <2>1, <2>3
  <2>. QED BY <1>2, <2>5, <2>6, <2>7
<1>3. CASE e # 0 /\ TypeOf(p, e) # "GROUP"
  <2>1. groups(n) = groups(e)
    BY <1>3, AroundOf DEF TypeOf
  <2>2. PICK S, m : S = groups(n) /\ m = e /\ S = groups(m)
    BY <2>1
  <2>3. LexicalComm(p, r, n) =
          IF S = {} THEN World ELSE CommOf(r, p.kernel.stmt[CHOOSE a \in S : \A b \in S : b <= a].arg)
    BY <2>2 DEF LexicalComm
  <2>4. LexicalComm(p, r, m) =
          IF S = {} THEN World ELSE CommOf(r, p.kernel.stmt[CHOOSE a \in S : \A b \in S : b <= a].arg)
    <3>1. S = {a \in Around(p, m) : p.kernel.stmt[a].type = "GROUP"}
      BY <2>2
    <3>. HIDE DEF groups, e
    <3>. QED BY <3>1 DEF LexicalComm
  <2>. QED BY <1>3, <2>2, <2>3, <2>4
<1>. QED BY <1>1, <1>2, <1>3

\* So is the one that is active for a rank.
LEMMA ActiveIsLexical ==
  ASSUME Types, PathInv, ContextInv, NEW r \in Ranks, NEW c \in Nodes,
         program.kernel.parent[c] = frames[r][1].node
  PROVE  ActiveComm(r) = LexicalComm(program, r, c)
<1>1. PICK ctx : ContextsOf(ctx) /\ \A q \in Ranks : Follows(q, ctx)
  BY DEF ContextInv
<1>2. /\ program \in Programs /\ Nodes = NodesOf(program)
      /\ \A n \in Nodes : ParentOf(program, n) = program.kernel.parent[n] /\ TypeOf(program, n) = Stmt(n).type
  BY ProgramTypes
<1>. DEFINE D == {n \in DOMAIN ctx : \E d \in Nodes : /\ ParentOf(program, d) = n
                                                      /\ CommUnder(r, ctx[n].groups) # LexicalComm(program, r, d)}
<1>3. D = {}
  <2>1. SUFFICES ASSUME D # {} PROVE FALSE
    OBVIOUS
  <2>2. PICK n \in D : \A m \in D : n <= m
    <3>1. D \subseteq Nat
      BY <1>1, KernelTypes DEF ContextsOf
    <3>. HIDE DEF D
    <3>. QED BY <2>1, <3>1, Least
  <2>3. PICK d \in Nodes : /\ ParentOf(program, d) = n
                           /\ CommUnder(r, ctx[n].groups) # LexicalComm(program, r, d)
    OBVIOUS
  <2>4. n # 0
    <3>1. n = 0 => CommUnder(r, ctx[n].groups) = World /\ LexicalComm(program, r, d) = World
      BY <1>1, <1>2, <2>3, LexicalOf DEF CommUnder, ContextsOf
    <3>. QED BY <2>3, <3>1
  <2>. DEFINE e == ParentOf(program, n)
  <2>5. n \in DOMAIN ctx /\ n \in Nodes /\ n \in Nat /\ e < n /\ e \in Nat /\ e \in DOMAIN ctx
    <3>1. n \in DOMAIN ctx /\ n \in Nodes
      BY <1>1, <2>4 DEF ContextsOf
    <3>2. program.kernel.parent[n] \in DOMAIN ctx
      BY <1>1, <2>4, <3>1 DEF ContextsOf
    <3>. QED BY <1>2, <3>1, <3>2, TreeTypes
  <2>6. ctx[n] = Context(n, ctx[e])
    BY <1>1, <1>2, <2>4, <2>5 DEF ContextsOf
  <2>7. e \notin D
    <3>. HIDE DEF D, e
    <3>. QED BY <2>2, <2>5
  <2>8. CommUnder(r, ctx[e].groups) = LexicalComm(program, r, n)
    BY <2>5, <2>7
  <2>9. CASE TypeOf(program, n) = "GROUP"
    <3>1. ctx[n].groups = << Stmt(n).arg >> \o ctx[e].groups
      BY <1>2, <2>5, <2>6, <2>9 DEF Context
    <3>2. ctx[e].groups \in Seq(GroupNames)
      BY <1>1, <2>5 DEF ContextsOf, Contexts
    <3>3. PICK g, s : g = Stmt(n).arg /\ s = ctx[e].groups
      OBVIOUS
    <3>4. s \in Seq(GroupNames) /\ << g >> \o s # << >> /\ Head(<< g >> \o s) = g
      BY <3>2, <3>3
    <3>5. CommUnder(r, ctx[n].groups) = CommOf(r, Stmt(n).arg)
      BY <3>1, <3>3, <3>4 DEF CommUnder
    <3>. QED BY <1>2, <2>3, <2>4, <2>9, <3>5, LexicalOf DEF Stmt
  <2>10. CASE TypeOf(program, n) # "GROUP"
    <3>1. ctx[n].groups = ctx[e].groups
      BY <1>2, <2>5, <2>6, <2>10 DEF Context
    <3>. QED BY <1>2, <2>3, <2>4, <2>8, <2>10, <3>1, LexicalOf
  <2>. QED BY <2>9, <2>10
<1>4. /\ frames[r][1].node \in DOMAIN ctx /\ ActiveComm(r) = CommUnder(r, ctx[frames[r][1].node].groups)
  <2>1. Top(r) = frames[r][1] /\ frames[r][1].node \in OnPath(r)
    BY TopTypes DEF OnPath
  <2>2. frames[r][1].node \in DOMAIN ctx /\ groupStack[r] = ctx[frames[r][1].node].groups
    BY <1>1, <2>1 DEF Follows
  <2>. QED BY <2>2 DEF ActiveComm, CommUnder
<1>. QED BY <1>2, <1>3, <1>4

LEMMA RoundsTypes ==
  ASSUME NEW p \in Programs, NEW r \in Ranks, NEW a \in NodesOf(p)
  PROVE  /\ Rounds(p, r, a) \in Nat
         /\ Rounds(p, r, a) > 1 => TypeOf(p, a) = "REPEAT"
<1>1. TimesOf(p.kernel.stmt[a], r) \in Int
  BY ProgramsAssumption DEF NodesOf, TimesOf, Ranks
<1>. QED BY <1>1 DEF Rounds, TypeOf

-------------------------------------------------------------------------------
(* How ranks move.                                                              *)

\* A block that is being executed is what the call around it did last, and it is to be
\* repeated as often as the kernel says.
Course(r) ==
  /\ \A i \in 1 .. Len(frames[r]) - 1 : frames[r][i + 1].last = frames[r][i].node
  /\ \A i \in 1 .. Len(frames[r]) :
       /\ frames[r][i].node = 0 => frames[r][i].count = 1
       /\ frames[r][i].node # 0 => /\ frames[r][i].count = Rounds(program, r, frames[r][i].node)
                                   /\ Stmt(frames[r][i].node).type \in BlockTypes
CourseInv == \A r \in Ranks : Course(r)

PositionFacts(r) ==
  /\ IsPosition(program, Position(r)) /\ IsTop(Position(r), frames[r][1].node)
  /\ Following(program, frames[r][1].node, frames[r][1].last, Coming(r))
  /\ frames[r][1].last \in Nat
  /\ DOMAIN Position(r) = OnPath(r)
  /\ \A i \in 1 .. Len(frames[r]) :
       /\ frames[r][i].node \in OnPath(r)
       /\ Position(r)[frames[r][i].node].round = frames[r][i].round
       /\ LET leg == Position(r)[frames[r][i].node] IN leg = [round |-> leg.round, next |-> leg.next]
       /\ i = 1 => Position(r)[frames[r][i].node].next = Coming(r)
       /\ i # 1 => Position(r)[frames[r][i].node].next = frames[r][i - 1].node
  /\ \A i, j \in 1 .. Len(frames[r]) : i < j => frames[r][j].node < frames[r][i].node

LEMMA Positions == Safe => \A r \in Ranks : PositionFacts(r)
BY PositionOf, PositionAt, ComingIs, Descending DEF PositionFacts

LEMMA NextPositions == Safe' => (\A r \in Ranks : PositionFacts(r))'
BY Positions, PTL

LEMMA SamePosition ==
  ASSUME NEW q, program' = program, frames'[q] = frames[q]
  PROVE  Position(q)' = Position(q)
<1>1. Pending(q)' = Pending(q)
  BY SamePending
<1>2. Coming(q)' = Coming(q)
  BY <1>1 DEF Coming, Current
<1>3. OnPath(q)' = OnPath(q) /\ \A a : DepthOf(q, a)' = DepthOf(q, a)
  BY DEF OnPath, DepthOf
<1>. QED BY <1>2, <1>3 DEF Position

\* The ways to go on.
IsNext(r, c) == c \in Pending(r) /\ \A d \in Pending(r) : c <= d
GoesOver(r, c) ==
  /\ IsNext(r, c) /\ StepOver(r, c)
  /\ Stmt(c).type \in BlockTypes => Rounds(program, r, c) = 0
GoesInto(r, c) ==
  /\ IsNext(r, c) /\ Stmt(c).type \in BlockTypes /\ Rounds(program, r, c) > 0
  /\ \E start \in Nat : StepInto(r, c, Frame(c, Rounds(program, r, c), start))
GoesBack(r) ==
  /\ Pending(r) = {} /\ Top(r).node # 0 /\ Stmt(Top(r).node).type = "REPEAT"
  /\ Top(r).round + 1 < Top(r).count
  /\ frames' = [frames EXCEPT ![r][1].last = 0, ![r][1].round = Top(r).round + 1]
GoesOut(r) ==
  /\ Pending(r) = {} /\ Top(r).node # 0
  /\ ~(Top(r).round + 1 < Top(r).count)
  /\ Leave(r)

Going == Safe /\ CourseInv /\ Safe' /\ program' = program

LEMMA NextIsComing ==
  ASSUME Safe, NEW r \in Ranks, NEW c, IsNext(r, c)
  PROVE  c \in Nodes /\ Coming(r) = c /\ program.kernel.parent[c] = frames[r][1].node
<1>1. c \in Pending(r) /\ Pending(r) # {}
  BY DEF IsNext
<1>2. c = Current(r)
  BY <1>1, CurrentIs DEF IsNext, Safe
<1>3. c \in Nodes /\ program.kernel.parent[c] = frames[r][1].node
  BY <1>1, TopTypes DEF Pending, Safe
<1>. QED BY <1>1, <1>2, <1>3 DEF Coming

LEMMA CourseStep ==
  ASSUME CourseInv, program' = program, NEW r \in Ranks, \A q \in Ranks \ {r} : frames'[q] = frames[q],
         Course(r)'
  PROVE  CourseInv'
<1>1. ASSUME NEW q \in Ranks, q # r PROVE Course(q)'
  <2>1. Course(q) /\ frames'[q] = frames[q]
    BY <1>1 DEF CourseInv
  <2>. QED BY <2>1 DEF Course, Stmt
<1>. QED BY <1>1 DEF CourseInv

LEMMA OverMoves ==
  ASSUME Going, NEW r \in Ranks, NEW c, GoesOver(r, c)
  PROVE  Moves(program, r, Position(r), Position(r)') /\ CourseInv'
<1>. DEFINE t == frames[r][1].node
<1>1. /\ Types /\ PathInv /\ program' = program /\ c \in Nodes /\ Coming(r) = c
      /\ program.kernel.parent[c] = t /\ program \in Programs
      /\ Len(frames[r]) \in Nat /\ 1 \in 1 .. Len(frames[r])
  BY NextIsComing, ProgramTypes, TopTypes DEF Going, GoesOver, Safe
<1>2. Stays(r) /\ frames'[r][1] = [frames[r][1] EXCEPT !.last = c]
  BY <1>1, StepsOver DEF GoesOver
<1>3. frames[r][1] \in Frames
  BY <1>1, TopTypes
<1>4. /\ frames'[r][1].node = t /\ frames'[r][1].last = c
      /\ frames'[r][1].round = frames[r][1].round /\ frames'[r][1].count = frames[r][1].count
      /\ Len(frames'[r]) = Len(frames[r])
      /\ \A i \in 1 .. Len(frames[r]) : i # 1 => frames'[r][i] = frames[r][i]
      /\ \A i \in 1 .. Len(frames[r]) : frames'[r][i].node = frames[r][i].node
      /\ \A q \in Ranks \ {r} : frames'[q] = frames[q]
  BY <1>2, <1>3 DEF Stays, Frames
<1>5. PositionFacts(r) /\ PositionFacts(r)'
  BY Positions, NextPositions DEF Going
<1>6. PICK z, y : z = Position(r) /\ y = Position(r)'
  OBVIOUS
<1>7. DOMAIN y = DOMAIN z
  <2>1. OnPath(r)' = OnPath(r)
    BY <1>4 DEF OnPath
  <2>. QED BY <1>5, <1>6, <2>1 DEF PositionFacts
<1>8. Same(z, y, DOMAIN z \ {t})
  <2>1. SUFFICES ASSUME NEW a \in DOMAIN z, a # t PROVE y[a] = z[a]
    BY DEF Same
  <2>2. PICK i \in 1 .. Len(frames[r]) : a = frames[r][i].node
    BY <1>5, <1>6 DEF PositionFacts, OnPath
  <2>3. i # 1 /\ i - 1 \in 1 .. Len(frames[r])
    BY <1>1, <2>1, <2>2
  <2>4. /\ z[a].round = frames[r][i].round /\ z[a].next = frames[r][i - 1].node
        /\ z[a] = [round |-> z[a].round, next |-> z[a].next]
    BY <1>5, <1>6, <2>2, <2>3 DEF PositionFacts
  <2>5. /\ y[a].round = frames'[r][i].round /\ y[a].next = frames'[r][i - 1].node
        /\ y[a] = [round |-> y[a].round, next |-> y[a].next]
    BY <1>4, <1>5, <1>6, <2>2, <2>3 DEF PositionFacts
  <2>. QED BY <1>4, <2>3, <2>4, <2>5
<1>9. /\ z[t].next = c /\ y[t].round = z[t].round
      /\ Following(program, t, c, y[t].next) /\ IsTop(z, t)
  <2>1. z[t].next = c /\ z[t].round = frames[r][1].round /\ IsTop(z, t)
    BY <1>1, <1>5, <1>6 DEF PositionFacts
  <2>2. y[t].round = frames[r][1].round
    BY <1>1, <1>4, <1>5, <1>6 DEF PositionFacts
  <2>3. y[t].next = Coming(r)' /\ Following(program, t, c, Coming(r)')
    BY <1>1, <1>4, <1>5, <1>6 DEF PositionFacts
  <2>. QED BY <2>1, <2>2, <2>3
<1>10. MovesOver(program, r, t, z, y)
  <2>1. IsChild(program, t, c) /\ (TypeOf(program, c) \in BlockTypes => Rounds(program, r, c) = 0)
    BY <1>1, ProgramTypes DEF GoesOver, IsChild
  <2>. QED BY <1>7, <1>8, <1>9, <2>1 DEF MovesOver
<1>11. CourseInv'
  <2>1. ASSUME NEW i \in 1 .. Len(frames[r]) - 1 PROVE frames'[r][i + 1].last = frames'[r][i].node
    <3>1. i + 1 \in 1 .. Len(frames[r]) /\ i + 1 # 1 /\ i \in 1 .. Len(frames[r])
      BY <1>1
    <3>. QED BY <1>4, <3>1 DEF Going, CourseInv, Course
  <2>2. \A i \in 1 .. Len(frames[r]) : frames'[r][i].count = frames[r][i].count
    BY <1>4
  <2>3. \A i \in 1 .. Len(frames[r]) :
          /\ frames[r][i].node = 0 => frames[r][i].count = 1
          /\ frames[r][i].node # 0 => /\ frames[r][i].count = Rounds(program, r, frames[r][i].node)
                                      /\ Stmt(frames[r][i].node).type \in BlockTypes
    BY DEF Going, CourseInv, Course
  <2>4. Course(r)'
    BY <1>1, <1>4, <2>1, <2>2, <2>3 DEF Course, Stmt
  <2>. QED BY <1>1, <1>4, <2>4, CourseStep DEF Going
<1>. QED BY <1>6, <1>9, <1>10, <1>11 DEF Moves

LEMMA BackMoves ==
  ASSUME Going, NEW r \in Ranks, GoesBack(r)
  PROVE  Moves(program, r, Position(r), Position(r)') /\ CourseInv'
<1>. DEFINE t == frames[r][1].node
            next == frames[r][1].round + 1
<1>1. /\ Types /\ PathInv /\ program' = program /\ program \in Programs
      /\ Len(frames[r]) \in Nat /\ 1 \in 1 .. Len(frames[r]) /\ Top(r) = frames[r][1]
      /\ frames[r][1] \in Frames /\ next \in Nat
  <2>1. /\ Types /\ PathInv /\ program' = program /\ program \in Programs
        /\ Len(frames[r]) \in Nat /\ 1 \in 1 .. Len(frames[r]) /\ Top(r) = frames[r][1]
        /\ frames[r][1] \in Frames
    BY ProgramTypes, TopTypes DEF Going, Safe
  <2>. QED BY <2>1 DEF Frames
<1>2. /\ Stays(r)
      /\ frames'[r][1].last = 0 /\ frames'[r][1].round = next
      /\ frames'[r][1].count = frames[r][1].count
  <2>1. frames' = [frames EXCEPT ![r][1].last = 0, ![r][1].round = next]
    BY <1>1 DEF GoesBack
  <2>. HIDE DEF next
  <2>. QED BY <1>1, <2>1, StepsBack
<1>3. /\ frames'[r][1].node = t
      /\ Len(frames'[r]) = Len(frames[r])
      /\ \A i \in 1 .. Len(frames[r]) : i # 1 => frames'[r][i] = frames[r][i]
      /\ \A i \in 1 .. Len(frames[r]) : frames'[r][i].node = frames[r][i].node
      /\ \A q \in Ranks \ {r} : frames'[q] = frames[q]
  BY <1>2 DEF Stays
<1>4. PositionFacts(r) /\ PositionFacts(r)'
  BY Positions, NextPositions DEF Going
<1>5. PICK z, y : z = Position(r) /\ y = Position(r)'
  OBVIOUS
<1>6. DOMAIN y = DOMAIN z
  <2>1. OnPath(r)' = OnPath(r)
    BY <1>3 DEF OnPath
  <2>. QED BY <1>4, <1>5, <2>1 DEF PositionFacts
<1>7. Same(z, y, DOMAIN z \ {t})
  <2>1. SUFFICES ASSUME NEW a \in DOMAIN z, a # t PROVE y[a] = z[a]
    BY DEF Same
  <2>2. PICK i \in 1 .. Len(frames[r]) : a = frames[r][i].node
    BY <1>4, <1>5 DEF PositionFacts, OnPath
  <2>3. i # 1 /\ i - 1 \in 1 .. Len(frames[r])
    BY <1>1, <2>1, <2>2
  <2>4. /\ z[a].round = frames[r][i].round /\ z[a].next = frames[r][i - 1].node
        /\ z[a] = [round |-> z[a].round, next |-> z[a].next]
    BY <1>4, <1>5, <2>2, <2>3 DEF PositionFacts
  <2>5. /\ y[a].round = frames'[r][i].round /\ y[a].next = frames'[r][i - 1].node
        /\ y[a] = [round |-> y[a].round, next |-> y[a].next]
    BY <1>3, <1>4, <1>5, <2>2, <2>3 DEF PositionFacts
  <2>. QED BY <1>3, <2>3, <2>4, <2>5
<1>8. /\ z[t].next = Past(program) /\ y[t].round = z[t].round + 1
      /\ Following(program, t, 0, y[t].next) /\ IsTop(z, t)
      /\ z[t].round = frames[r][1].round
  <2>1. z[t].next = Past(program) /\ z[t].round = frames[r][1].round /\ IsTop(z, t)
    BY <1>1, <1>4, <1>5 DEF PositionFacts, GoesBack, Coming
  <2>2. y[t].round = next /\ y[t].next = Coming(r)'
    <3>1. PositionFacts(r)' /\ 1 \in 1 .. Len(frames'[r])
      BY <1>1, <1>3, <1>4
    <3>. QED BY <1>2, <1>3, <1>5, <3>1 DEF PositionFacts
  <2>3. Following(program, t, 0, Coming(r)')
    BY <1>1, <1>2, <1>3, <1>4 DEF PositionFacts
  <2>. QED BY <2>1, <2>2, <2>3
<1>9. /\ t # 0 /\ TypeOf(program, t) = "REPEAT" /\ z[t].round + 1 < Rounds(program, r, t)
  <2>1. t # 0 /\ Stmt(t).type = "REPEAT" /\ next < frames[r][1].count
    BY <1>1 DEF GoesBack
  <2>2. frames[r][1].count = Rounds(program, r, t)
    BY <1>1, <2>1 DEF Going, CourseInv, Course
  <2>. QED BY <1>8, <2>1, <2>2 DEF TypeOf, Stmt
<1>10. MovesBack(program, r, t, z, y)
  BY <1>6, <1>7, <1>8, <1>9 DEF MovesBack
<1>11. CourseInv'
  <2>1. ASSUME NEW i \in 1 .. Len(frames[r]) - 1 PROVE frames'[r][i + 1].last = frames'[r][i].node
    <3>1. i + 1 \in 1 .. Len(frames[r]) /\ i + 1 # 1 /\ i \in 1 .. Len(frames[r])
      BY <1>1
    <3>. QED BY <1>3, <3>1 DEF Going, CourseInv, Course
  <2>2. \A i \in 1 .. Len(frames[r]) : frames'[r][i].count = frames[r][i].count
    BY <1>2, <1>3
  <2>3. \A i \in 1 .. Len(frames[r]) :
          /\ frames[r][i].node = 0 => frames[r][i].count = 1
          /\ frames[r][i].node # 0 => /\ frames[r][i].count = Rounds(program, r, frames[r][i].node)
                                      /\ Stmt(frames[r][i].node).type \in BlockTypes
    BY DEF Going, CourseInv, Course
  <2>4. Course(r)'
    BY <1>1, <1>3, <2>1, <2>2, <2>3 DEF Course, Stmt
  <2>. QED BY <1>1, <1>3, <2>4, CourseStep DEF Going
<1>. QED BY <1>5, <1>8, <1>10, <1>11 DEF Moves

LEMMA IntoMoves ==
  ASSUME Going, NEW r \in Ranks, NEW c, GoesInto(r, c)
  PROVE  Moves(program, r, Position(r), Position(r)') /\ CourseInv'
<1>. DEFINE t == frames[r][1].node
            rounds == Rounds(program, r, c)
            L == Len(frames[r])
<1>1. /\ Types /\ PathInv /\ program' = program /\ c \in Nodes /\ c \in Nat /\ c # 0 /\ Coming(r) = c
      /\ program.kernel.parent[c] = t /\ program \in Programs /\ Nodes = NodesOf(program)
      /\ L \in Nat /\ 1 \in 1 .. L /\ frames[r][1] \in Frames
  BY NextIsComing, ProgramTypes, TopTypes, KernelTypes DEF Going, GoesInto, Safe
<1>2. PICK start \in Nat : StepInto(r, c, Frame(c, rounds, start))
  BY DEF GoesInto
<1>3. rounds \in Nat /\ rounds > 0
  BY <1>1, RoundsTypes DEF GoesInto
<1>4. PICK frame \in Frames :
        /\ frame = Frame(c, rounds, start)
        /\ frame.node = c /\ frame.last = 0 /\ frame.round = 0 /\ frame.count = rounds
  <2>. HIDE DEF rounds
  <2>1. PICK count \in Int : count = rounds
    BY <1>3
  <2>2. PICK frame : frame = Frame(c, count, start)
    OBVIOUS
  <2>3. /\ frame \in Frames
        /\ frame.node = c /\ frame.last = 0 /\ frame.round = 0 /\ frame.count = count
    BY <1>1, <2>2 DEF Frame, Frames
  <2>. QED BY <2>1, <2>2, <2>3
<1>5. /\ Enters(r, c) /\ frames'[r][1] = frame
      /\ frames'[r][2] = [frames[r][1] EXCEPT !.last = c]
  BY <1>1, <1>2, <1>4, StepsInto
<1>. HIDE DEF rounds
<1>6. /\ frames'[r][1].node = c /\ frames'[r][1].last = 0
      /\ frames'[r][1].round = 0 /\ frames'[r][1].count = rounds
  <2>1. PICK first : first = frames'[r][1]
    OBVIOUS
  <2>2. first = frame
    BY <1>5, <2>1
  <2>3. first.node = c /\ first.last = 0 /\ first.round = 0 /\ first.count = rounds
    BY <1>4, <2>2
  <2>. QED BY <2>1, <2>3
<1>7. /\ Len(frames'[r]) = L + 1
      /\ \A i \in 1 .. Len(frames'[r]) : i > 2 => frames'[r][i] = frames[r][i - 1]
      /\ frames'[r][2].node = t /\ frames'[r][2].last = c
      /\ frames'[r][2].round = frames[r][1].round /\ frames'[r][2].count = frames[r][1].count
      /\ \A q \in Ranks \ {r} : frames'[q] = frames[q]
  BY <1>1, <1>5 DEF Enters, Frames
<1>8. ASSUME NEW i \in 1 .. L
      PROVE  /\ i + 1 \in 1 .. Len(frames'[r]) /\ i + 1 # 1 /\ (i + 1) - 1 = i
             /\ frames'[r][i + 1].node = frames[r][i].node
             /\ frames'[r][i + 1].round = frames[r][i].round
             /\ frames'[r][i + 1].count = frames[r][i].count
             /\ i # 1 => frames'[r][i + 1] = frames[r][i]
             /\ frames'[r][i].node = IF i = 1 THEN c ELSE frames[r][i - 1].node
  <2>1. /\ i + 1 \in 1 .. Len(frames'[r]) /\ i + 1 # 1 /\ (i + 1) - 1 = i
    BY <1>1, <1>7
  <2>2. CASE i = 1
    BY <1>6, <1>7, <2>1, <2>2
  <2>3. CASE i # 1
    <3>1. i + 1 > 2
      BY <1>1, <2>3
    <3>2. frames'[r][i + 1] = frames[r][i]
      BY <1>7, <2>1, <3>1
    <3>3. frames'[r][i].node = frames[r][i - 1].node
      <4>1. CASE i = 2
        BY <1>7, <4>1
      <4>2. CASE i # 2
        <5>1. i > 2 /\ i \in 1 .. Len(frames'[r])
          BY <1>1, <1>7, <2>3, <4>2
        <5>. QED BY <1>7, <5>1
      <4>. QED BY <4>1, <4>2
    <3>. QED BY <2>1, <2>3, <3>2, <3>3
  <2>. QED BY <2>2, <2>3
<1>9. PositionFacts(r) /\ PositionFacts(r)' /\ 1 \in 1 .. Len(frames'[r])
  BY <1>1, <1>7, Positions, NextPositions DEF Going
<1>10. PICK z, y : z = Position(r) /\ y = Position(r)'
  OBVIOUS
<1>11. DOMAIN y = DOMAIN z \cup {c}
  <2>1. DOMAIN y = {frames'[r][i].node : i \in 1 .. Len(frames'[r])}
    BY <1>9, <1>10 DEF PositionFacts, OnPath
  <2>2. DOMAIN z = {frames[r][i].node : i \in 1 .. L}
    BY <1>9, <1>10 DEF PositionFacts, OnPath
  <2>3. frames'[r][1].node = c
    BY <1>6
  <2>4. \A i \in 1 .. Len(frames'[r]) : i = 1 \/ (i - 1 \in 1 .. L /\ (i - 1) + 1 = i)
    BY <1>1, <1>7
  <2>5. ASSUME NEW i \in 1 .. Len(frames'[r]), i # 1 PROVE frames'[r][i].node = frames[r][i - 1].node
    <3>1. frames'[r][(i - 1) + 1].node = frames[r][i - 1].node
      BY <1>8, <2>4, <2>5
    <3>. QED BY <2>4, <2>5, <3>1
  <2>6. ASSUME NEW i \in 1 .. L PROVE frames[r][i].node \in DOMAIN y
    <3>1. PICK j \in 1 .. Len(frames'[r]) : frames'[r][j].node = frames[r][i].node
      BY <1>8
    <3>. QED BY <2>1, <3>1
  <2>7. c \in DOMAIN y
    BY <1>9, <2>1, <2>3
  <2>8. \A i \in 1 .. Len(frames'[r]) : frames'[r][i].node \in DOMAIN z \cup {c}
    BY <2>2, <2>3, <2>4, <2>5
  <2>. QED BY <2>1, <2>2, <2>6, <2>7, <2>8
<1>12. Same(z, y, DOMAIN z)
  <2>1. SUFFICES ASSUME NEW a \in DOMAIN z PROVE y[a] = z[a]
    BY DEF Same
  <2>2. PICK i \in 1 .. L : a = frames[r][i].node
    BY <1>9, <1>10 DEF PositionFacts, OnPath
  <2>3. /\ z[a].round = frames[r][i].round
        /\ z[a].next = IF i = 1 THEN c ELSE frames[r][i - 1].node
        /\ z[a] = [round |-> z[a].round, next |-> z[a].next]
    BY <1>1, <1>9, <1>10, <2>2 DEF PositionFacts
  <2>4. PICK j \in 1 .. Len(frames'[r]) : j = i + 1 /\ j # 1 /\ j - 1 = i
    BY <1>8
  <2>5. frames'[r][j].node = a /\ frames'[r][j].round = frames[r][i].round
    BY <1>8, <2>2, <2>4
  <2>6. /\ y[a].round = frames'[r][j].round /\ y[a].next = frames'[r][j - 1].node
        /\ y[a] = [round |-> y[a].round, next |-> y[a].next]
    BY <1>9, <1>10, <2>4, <2>5 DEF PositionFacts
  <2>7. frames'[r][j - 1].node = IF i = 1 THEN c ELSE frames[r][i - 1].node
    BY <1>8, <2>4
  <2>. QED BY <2>3, <2>5, <2>6, <2>7
<1>13. /\ IsTop(z, t) /\ z[t].next = c /\ y[c].round = 0 /\ Following(program, c, 0, y[c].next)
  <2>1. z[t].next = c /\ IsTop(z, t)
    BY <1>1, <1>9, <1>10 DEF PositionFacts
  <2>2. y[c].round = 0 /\ y[c].next = Coming(r)'
    BY <1>6, <1>9, <1>10 DEF PositionFacts
  <2>3. Following(program, c, 0, Coming(r)')
    BY <1>1, <1>6, <1>9 DEF PositionFacts
  <2>. QED BY <2>1, <2>2, <2>3
<1>14. MovesInto(program, r, t, z, y)
  <2>1. IsChild(program, t, c) /\ TypeOf(program, c) \in BlockTypes
    BY <1>1, ProgramTypes DEF GoesInto, IsChild
  <2>. QED BY <1>3, <1>11, <1>12, <1>13, <2>1 DEF MovesInto, rounds
<1>15. Course(r)'
  <2>1. ASSUME NEW i \in 1 .. L PROVE frames'[r][i + 1].last = frames'[r][i].node
    <3>1. CASE i = 1
      BY <1>6, <1>7, <3>1
    <3>2. CASE i # 1
      <4>1. i - 1 \in 1 .. L - 1 /\ (i - 1) + 1 = i
        BY <1>1, <3>2
      <4>2. frames[r][(i - 1) + 1].last = frames[r][i - 1].node
        BY <4>1 DEF Going, CourseInv, Course
      <4>. QED BY <1>8, <3>2, <4>1, <4>2
    <3>. QED BY <3>1, <3>2
  <2>2. ASSUME NEW i \in 1 .. Len(frames'[r])
        PROVE  /\ frames'[r][i].node = 0 => frames'[r][i].count = 1
               /\ frames'[r][i].node # 0 => /\ frames'[r][i].count = Rounds(program, r, frames'[r][i].node)
                                           /\ Stmt(frames'[r][i].node).type \in BlockTypes
    <3>1. CASE i = 1
      BY <1>1, <1>6, <3>1 DEF GoesInto, rounds
    <3>2. CASE i # 1
      <4>1. PICK j \in 1 .. L : j = i - 1 /\ j + 1 = i
        BY <1>1, <1>7, <3>2
      <4>2. frames'[r][i].node = frames[r][j].node /\ frames'[r][i].count = frames[r][j].count
        BY <1>8, <4>1
      <4>. QED BY <4>2 DEF Going, CourseInv, Course
    <3>. QED BY <3>1, <3>2
  <2>3. Len(frames'[r]) - 1 = L
    BY <1>1, <1>7
  <2>. QED BY <1>1, <2>1, <2>2, <2>3 DEF Course, Stmt
<1>16. CourseInv'
  BY <1>1, <1>7, <1>15, CourseStep DEF Going
<1>. QED BY <1>10, <1>13, <1>14, <1>16 DEF Moves

LEMMA OutMoves ==
  ASSUME Going, NEW r \in Ranks, GoesOut(r)
  PROVE  Moves(program, r, Position(r), Position(r)') /\ CourseInv'
<1>. DEFINE t == frames[r][1].node
            e == frames[r][2].node
            L == Len(frames[r])
<1>1. /\ Types /\ PathInv /\ program' = program /\ program \in Programs
      /\ L \in Nat /\ 1 \in 1 .. L /\ Top(r) = frames[r][1] /\ frames[r][1] \in Frames
  BY ProgramTypes, TopTypes DEF Going, Safe
<1>2. L >= 2 /\ t # 0 /\ t \in Nodes /\ e = ParentOf(program, t) /\ 2 \in 1 .. L
  BY <1>1, BelowRoot, ProgramTypes DEF GoesOut
<1>3. Leaves(r)
  BY <1>1, StepsOut DEF GoesOut
<1>4. /\ Len(frames'[r]) = L - 1
      /\ \A q \in Ranks \ {r} : frames'[q] = frames[q]
      /\ \A i \in 1 .. L - 1 : frames'[r][i] = frames[r][i + 1]
  BY <1>3 DEF Leaves
<1>5. ASSUME NEW i \in 1 .. L, i # 1
      PROVE  i - 1 \in 1 .. Len(frames'[r]) /\ frames'[r][i - 1] = frames[r][i]
  <2>1. i - 1 \in 1 .. L - 1 /\ (i - 1) + 1 = i
    BY <1>1, <1>5
  <2>2. frames'[r][i - 1] = frames[r][(i - 1) + 1]
    BY <1>4, <2>1
  <2>. QED BY <1>4, <2>1, <2>2
<1>6. PositionFacts(r) /\ PositionFacts(r)' /\ 1 \in 1 .. Len(frames'[r]) /\ frames'[r][1] = frames[r][2]
  BY <1>1, <1>2, <1>4, Positions, NextPositions DEF Going
<1>7. PICK z, y : z = Position(r) /\ y = Position(r)'
  OBVIOUS
<1>8. DOMAIN y = DOMAIN z \ {t}
  <2>1. DOMAIN y = {frames'[r][i].node : i \in 1 .. Len(frames'[r])}
    BY <1>6, <1>7 DEF PositionFacts, OnPath
  <2>2. DOMAIN z = {frames[r][i].node : i \in 1 .. L}
    BY <1>6, <1>7 DEF PositionFacts, OnPath
  <2>3. ASSUME NEW i \in 1 .. L, i # 1 PROVE frames[r][i].node # t
    <3>1. 1 < i
      BY <1>1, <2>3
    <3>2. frames[r][i].node < frames[r][1].node
      BY <1>1, <1>6, <3>1 DEF PositionFacts
    <3>3. frames[r][i].node \in Nat
      BY Descending DEF Going
    <3>. QED BY <3>2, <3>3
  <2>4. ASSUME NEW i \in 1 .. Len(frames'[r])
        PROVE  frames'[r][i].node \in DOMAIN z \ {t}
    <3>1. i \in 1 .. L - 1 /\ i + 1 \in 1 .. L /\ i + 1 # 1
      BY <1>1, <1>4
    <3>. QED BY <1>4, <2>2, <2>3, <3>1
  <2>5. ASSUME NEW i \in 1 .. L, frames[r][i].node # t
        PROVE  frames[r][i].node \in DOMAIN y
    BY <1>5, <2>1, <2>5
  <2>. QED BY <2>1, <2>2, <2>4, <2>5
<1>9. Same(z, y, DOMAIN z \ {t, e})
  <2>1. SUFFICES ASSUME NEW a \in DOMAIN z, a # t, a # e PROVE y[a] = z[a]
    BY DEF Same
  <2>2. PICK i \in 1 .. L : a = frames[r][i].node
    BY <1>6, <1>7 DEF PositionFacts, OnPath
  <2>3. i # 1 /\ i # 2 /\ i - 1 \in 1 .. L /\ i - 1 # 1
    BY <1>1, <2>1, <2>2
  <2>4. /\ z[a].round = frames[r][i].round /\ z[a].next = frames[r][i - 1].node
        /\ z[a] = [round |-> z[a].round, next |-> z[a].next]
    BY <1>6, <1>7, <2>2, <2>3 DEF PositionFacts
  <2>5. PICK j \in 1 .. Len(frames'[r]) : j = i - 1 /\ j # 1 /\ frames'[r][j] = frames[r][i]
    BY <1>5, <2>3
  <2>6. /\ y[a].round = frames'[r][j].round /\ y[a].next = frames'[r][j - 1].node
        /\ y[a] = [round |-> y[a].round, next |-> y[a].next]
    BY <1>6, <1>7, <2>2, <2>5 DEF PositionFacts
  <2>7. frames'[r][j - 1] = frames[r][j]
    BY <1>5, <2>3, <2>5
  <2>. QED BY <2>4, <2>5, <2>6, <2>7
<1>10. frames[r][2].last = t
  <2>1. 1 \in 1 .. L - 1 /\ 1 + 1 = 2
    BY <1>1, <1>2
  <2>2. frames[r][1 + 1].last = frames[r][1].node
    BY <2>1 DEF Going, CourseInv, Course
  <2>. QED BY <2>1, <2>2
<1>11. /\ IsTop(z, t) /\ z[t].next = Past(program) /\ y[e].round = z[e].round
       /\ Following(program, e, t, y[e].next) /\ z[t].round = frames[r][1].round
  <2>1. z[t].next = Past(program) /\ IsTop(z, t) /\ z[t].round = frames[r][1].round
    BY <1>1, <1>6, <1>7 DEF PositionFacts, GoesOut, Coming
  <2>2. z[e].round = frames[r][2].round
    BY <1>2, <1>6, <1>7 DEF PositionFacts
  <2>3. y[e].round = frames[r][2].round /\ y[e].next = Coming(r)'
    <3>1. PICK f : f = frames'[r][1]
      OBVIOUS
    <3>2. y[f.node].round = f.round /\ y[f.node].next = Coming(r)'
      BY <1>6, <1>7, <3>1 DEF PositionFacts
    <3>. QED BY <1>6, <3>1, <3>2
  <2>4. Following(program, e, t, Coming(r)')
    BY <1>1, <1>6, <1>10 DEF PositionFacts
  <2>. QED BY <2>1, <2>2, <2>3, <2>4
<1>12. TypeOf(program, t) \in BlockTypes /\ z[t].round + 1 = Rounds(program, r, t)
  <2>1. frames[r][1].count = Rounds(program, r, t) /\ Stmt(t).type \in BlockTypes
    BY <1>1, <1>2 DEF Going, CourseInv, Course
  <2>2. /\ frames[r][1].round < frames[r][1].count
        /\ ~(frames[r][1].round + 1 < frames[r][1].count)
    BY <1>1 DEF Going, Safe, FrameInv, GoesOut
  <2>3. frames[r][1].round \in Nat /\ frames[r][1].count \in Int
    BY <1>1 DEF Frames
  <2>. QED BY <1>11, <2>1, <2>2, <2>3 DEF TypeOf, Stmt
<1>13. MovesOut(program, r, t, z, y)
  BY <1>2, <1>8, <1>9, <1>11, <1>12 DEF MovesOut
<1>14. Course(r)'
  <2>1. ASSUME NEW i \in 1 .. Len(frames'[r]) - 1 PROVE frames'[r][i + 1].last = frames'[r][i].node
    <3>1. i \in 1 .. L - 1 /\ i + 1 \in 1 .. L - 1
      BY <1>1, <1>4
    <3>. QED BY <1>4, <3>1 DEF Going, CourseInv, Course
  <2>2. ASSUME NEW i \in 1 .. Len(frames'[r])
        PROVE  \E j \in 1 .. L : frames'[r][i] = frames[r][j]
    <3>1. i \in 1 .. L - 1 /\ i + 1 \in 1 .. L
      BY <1>1, <1>4
    <3>. QED BY <1>4, <3>1
  <2>3. \A j \in 1 .. L :
          /\ frames[r][j].node = 0 => frames[r][j].count = 1
          /\ frames[r][j].node # 0 => /\ frames[r][j].count = Rounds(program, r, frames[r][j].node)
                                      /\ Stmt(frames[r][j].node).type \in BlockTypes
    BY DEF Going, CourseInv, Course
  <2>4. \A i \in 1 .. Len(frames'[r]) :
          /\ frames'[r][i].node = 0 => frames'[r][i].count = 1
          /\ frames'[r][i].node # 0 =>
               /\ frames'[r][i].count = Rounds(program, r, frames'[r][i].node)
               /\ Stmt(frames'[r][i].node).type \in BlockTypes
    <3>. HIDE DEF L
    <3>. QED BY <2>2, <2>3
  <2>5. \A n : Stmt(n)' = Stmt(n) /\ Rounds(program', r, n) = Rounds(program, r, n)
    BY <1>1 DEF Stmt
  <2>. QED BY <1>1, <2>1, <2>4, <2>5 DEF Course
<1>15. CourseInv'
  BY <1>1, <1>4, <1>14, CourseStep DEF Going
<1>. QED BY <1>7, <1>11, <1>13, <1>15 DEF Moves

\* A rank that moves goes on in one of these ways.
Goes(r) == (\E c : GoesOver(r, c) \/ GoesInto(r, c)) \/ GoesBack(r) \/ GoesOut(r)

LEMMA GoMoves ==
  ASSUME Going, NEW r \in Ranks, Goes(r)
  PROVE  Moves(program, r, Position(r), Position(r)') /\ CourseInv'
BY OverMoves, IntoMoves, BackMoves, OutMoves DEF Goes

\* A statement that is about to be executed is the next one.
LEMMA AtNext ==
  ASSUME Safe, NEW r \in Ranks, NEW c \in Nodes, NEW type, At(r, c, type)
  PROVE  /\ IsNext(r, c) /\ Stmt(c).type = type /\ mpi[r] = NoCall
         /\ program.kernel.parent[c] = frames[r][1].node
BY AtTypes DEF IsNext, Safe

LEMMA RepeatGoes ==
  ASSUME Safe, NEW r \in Ranks, NEW c \in Nodes, Repeat(r, c)
  PROVE  GoesOver(r, c) \/ GoesInto(r, c)
<1>1. At(r, c, "REPEAT")
  BY DEF Repeat
<1>2. IsNext(r, c) /\ Stmt(c).type = "REPEAT" /\ "REPEAT" \in BlockTypes
  BY <1>1, AtNext DEF BlockTypes
<1>3. Rounds(program, r, c) = IF Times(r, c) > 0 THEN Times(r, c) ELSE 0
  BY <1>2 DEF Rounds, Times, Stmt
<1>4. Times(r, c) > 0 => GoesInto(r, c)
  <2>. HAVE Times(r, c) > 0
  <2>1. Rounds(program, r, c) = Times(r, c)
    BY <1>3
  <2>2. StepInto(r, c, Frame(c, Rounds(program, r, c), 0))
    BY <2>1 DEF Repeat
  <2>3. Rounds(program, r, c) > 0
    BY <2>1
  <2>. QED BY <1>2, <2>2, <2>3 DEF GoesInto
<1>5. ~(Times(r, c) > 0) => GoesOver(r, c)
  BY <1>2, <1>3 DEF GoesOver, Repeat
<1>. QED BY <1>4, <1>5

LEMMA GroupGoes ==
  ASSUME Safe, NEW r \in Ranks, NEW c \in Nodes, Group(r, c)
  PROVE  GoesOver(r, c) \/ GoesInto(r, c)
<1>1. At(r, c, "GROUP") /\ Stmt(c).arg \in GroupNames
  BY DEF Group
<1>2. IsNext(r, c) /\ Stmt(c).type = "GROUP" /\ "GROUP" \in BlockTypes
  BY <1>1, AtNext DEF BlockTypes
<1>3. Rounds(program, r, c) = IF r \in Members[Stmt(c).arg] THEN 1 ELSE 0
  BY <1>1, <1>2 DEF Rounds, Stmt
<1>4. CASE r \in Members[Stmt(c).arg]
  <2>1. Rounds(program, r, c) = 1 /\ StepInto(r, c, Frame(c, 1, 0))
    BY <1>3, <1>4 DEF Group
  <2>2. StepInto(r, c, Frame(c, Rounds(program, r, c), 0)) /\ Rounds(program, r, c) > 0
    BY <2>1
  <2>. QED BY <1>2, <2>2 DEF GoesInto
<1>5. CASE r \notin Members[Stmt(c).arg]
  BY <1>2, <1>3, <1>5 DEF GoesOver, Group
<1>. QED BY <1>4, <1>5

LEMMA MasterGoes ==
  ASSUME Safe, ContextInv, NEW r \in Ranks, NEW c \in Nodes, Master(r, c)
  PROVE  GoesOver(r, c) \/ GoesInto(r, c)
<1>1. At(r, c, "MASTER")
  BY DEF Master
<1>2. /\ IsNext(r, c) /\ Stmt(c).type = "MASTER" /\ "MASTER" \in BlockTypes
      /\ program.kernel.parent[c] = frames[r][1].node
  BY <1>1, AtNext DEF BlockTypes
<1>3. ActiveComm(r) = LexicalComm(program, r, c)
  BY <1>2, ActiveIsLexical DEF Safe
<1>4. Rounds(program, r, c) = IF IsMaster(r, ActiveComm(r)) THEN 1 ELSE 0
  BY <1>2, <1>3 DEF Rounds, Stmt
<1>5. CASE IsMaster(r, ActiveComm(r))
  <2>1. Rounds(program, r, c) = 1 /\ StepInto(r, c, Frame(c, 1, 0))
    BY <1>4, <1>5 DEF Master
  <2>2. StepInto(r, c, Frame(c, Rounds(program, r, c), 0)) /\ Rounds(program, r, c) > 0
    BY <2>1
  <2>. QED BY <1>2, <2>2 DEF GoesInto
<1>6. CASE ~IsMaster(r, ActiveComm(r))
  BY <1>2, <1>4, <1>6 DEF GoesOver, Master
<1>. QED BY <1>5, <1>6

LEMMA TimeGoes ==
  ASSUME Safe, NEW r \in Ranks, NEW c \in Nodes, Time(r, c) \/ CTime(r, c)
  PROVE  GoesInto(r, c)
<1>1. PICK type \in {"TIME", "CTIME"} : At(r, c, type)
  BY DEF Time, CTime
<1>2. IsNext(r, c) /\ Stmt(c).type = type /\ type \in BlockTypes
  BY <1>1, AtNext DEF BlockTypes
<1>3. Rounds(program, r, c) = 1
  BY <1>2 DEF Rounds, Stmt
<1>4. StepInto(r, c, Frame(c, 1, clock[r])) /\ clock[r] \in Nat
  BY DEF Time, CTime, Safe, Types
<1>5. StepInto(r, c, Frame(c, Rounds(program, r, c), clock[r])) /\ Rounds(program, r, c) > 0
  BY <1>3, <1>4
<1>. QED BY <1>2, <1>4, <1>5 DEF GoesInto

\* Statements that are no blocks, and in which a rank meets no other.
LEMMA LeafGoes ==
  ASSUME Safe, NEW r \in Ranks, NEW c \in Nodes, Local(r, c) \/ LocalIO(r, c) \/ SkipIO(r, c)
  PROVE  GoesOver(r, c) /\ ~CollectiveAt(program, c)
<1>1. PICK type \in {"LOCAL"} \cup IOTypes :
        At(r, c, type) /\ (type \in {"LOCAL", "POSIX", "PDELETE"} \/ parseOnly)
  BY DEF Local, LocalIO, SkipIO, IOTypes
<1>2. IsNext(r, c) /\ Stmt(c).type = type
  BY <1>1, AtNext
<1>3. type \notin BlockTypes /\ type # "BARRIER"
  BY DEF BlockTypes, IOTypes
<1>4. StepOver(r, c)
  BY DEF Local, LocalIO, SkipIO
<1>5. ~CollectiveAt(program, c)
  BY <1>1, <1>2, <1>3 DEF CollectiveAt, ParallelTypes, OpeningTypes, FileTypes, Stmt, parseOnly
<1>. QED BY <1>2, <1>3, <1>4, <1>5 DEF GoesOver

LEMMA EndGoes ==
  ASSUME Safe, CourseInv, NEW r \in Ranks,
         RepeatEnd(r) \/ GroupEnd(r) \/ MasterEnd(r) \/ TimeEnd(r) \/ CTimeEnd(r)
  PROVE  GoesBack(r) \/ GoesOut(r)
<1>1. PICK type \in BlockTypes : AtEnd(r, type) /\ (type = "REPEAT" => RepeatEnd(r)) /\ (type # "REPEAT" => Leave(r))
  BY DEF RepeatEnd, GroupEnd, MasterEnd, TimeEnd, CTimeEnd, BlockTypes
<1>2. Pending(r) = {} /\ Top(r).node # 0 /\ Stmt(Top(r).node).type = type
  BY <1>1 DEF AtEnd
<1>3. CASE type = "REPEAT"
  <2>1. RepeatEnd(r)
    BY <1>1, <1>3
  <2>2. CASE Top(r).round + 1 < Top(r).count
    BY <1>2, <1>3, <2>1, <2>2 DEF RepeatEnd, GoesBack
  <2>3. CASE ~(Top(r).round + 1 < Top(r).count)
    BY <1>2, <2>1, <2>3 DEF RepeatEnd, GoesOut
  <2>. QED BY <2>2, <2>3
<1>4. CASE type # "REPEAT"
  <2>. DEFINE t == frames[r][1].node
  <2>1. Top(r) = frames[r][1] /\ frames[r][1] \in Frames /\ 1 \in 1 .. Len(frames[r])
    BY TopTypes DEF Safe
  <2>2. t \in Nodes /\ program \in Programs /\ Nodes = NodesOf(program)
    BY <1>2, <2>1, BelowRoot, ProgramTypes DEF Safe
  <2>3. Top(r).count = Rounds(program, r, t)
    BY <1>2, <2>1 DEF CourseInv, Course
  <2>4. ~(Rounds(program, r, t) > 1) /\ Rounds(program, r, t) \in Nat
    BY <1>2, <1>4, <2>1, <2>2, RoundsTypes DEF TypeOf, Stmt
  <2>5. Top(r).round \in Nat
    BY <2>1 DEF Frames
  <2>6. ~(Top(r).round + 1 < Top(r).count)
    BY <2>3, <2>4, <2>5
  <2>. QED BY <1>1, <1>2, <1>4, <2>6 DEF GoesOut
<1>. QED BY <1>3, <1>4

\* The calls rank r may be in: none, or that of the statement that comes next.  Those of
\* a file are on the communicator of each statement that opens it.
CallAt(r, n) ==
  /\ CollectiveAt(program, n)
  /\ mpi[r].op = IF Stmt(n).type = "BARRIER" THEN "MPI_Barrier" ELSE Stmt(n).type
MeetInv == \A r \in Ranks : mpi[r] # NoCall => CallAt(r, Current(r))

\* Rank r moves.
Acts(r) ==
  \/ \E c \in Nodes :
       \/ Repeat(r, c) \/ Group(r, c) \/ Master(r, c) \/ Local(r, c) \/ Time(r, c)
       \/ CTime(r, c) \/ LocalIO(r, c) \/ SkipIO(r, c)
  \/ RepeatEnd(r) \/ GroupEnd(r) \/ MasterEnd(r) \/ TimeEnd(r) \/ CTimeEnd(r)
  \/ BarrierReturns(r) \/ ParallelIOReturns(r)

LEMMA StepKinds == [Next]_allVars => Idle \/ \E r \in Ranks : Acts(r)
BY Kinds DEF Acts

\* It is in no call, and at no collective statement, or in a call that has returned.
LEMMA ActsGo ==
  ASSUME Safe, CallInv, ContextInv, CourseInv, MeetInv, [Next]_allVars, NEW r \in Ranks, Acts(r)
  PROVE  /\ Goes(r) /\ program' = program /\ mpi'[r] = NoCall
         /\ \A q \in Ranks \ {r} : mpi'[q] = mpi[q] /\ frames'[q] = frames[q]
         /\ \/ mpi[r].returned /\ mpi[r] # NoCall /\ GoesOver(r, Current(r))
            \/ mpi[r] = NoCall /\ \A c : IsNext(r, c) => ~CollectiveAt(program, c)
<1>1. \/ \E c \in Nodes :
           \/ Repeat(r, c) \/ Group(r, c) \/ Master(r, c) \/ Local(r, c) \/ Time(r, c)
           \/ CTime(r, c) \/ LocalIO(r, c) \/ SkipIO(r, c)
      \/ RepeatEnd(r) \/ GroupEnd(r) \/ MasterEnd(r) \/ TimeEnd(r) \/ CTimeEnd(r)
      \/ BarrierReturns(r) \/ ParallelIOReturns(r)
  BY DEF Acts
<1>2. /\ mpi'[r] = NoCall
      /\ \A q \in Ranks \ {r} : mpi'[q] = mpi[q] /\ frames'[q] = frames[q]
  BY <1>1, MovesOutsideCalls DEF Safe
<1>3. program' = program
  BY EveryStepWalks DEF Walk
<1>4. ASSUME NEW c \in Nodes, \/ Repeat(r, c) \/ Group(r, c) \/ Master(r, c) \/ Local(r, c) \/ Time(r, c)
                              \/ CTime(r, c) \/ LocalIO(r, c) \/ SkipIO(r, c)
      PROVE  /\ Goes(r) /\ mpi[r] = NoCall
             /\ \A d : IsNext(r, d) => ~CollectiveAt(program, d)
  <2>1. mpi[r] = NoCall
    BY <1>4 DEF Repeat, Group, Master, Local, Time, CTime, LocalIO, SkipIO, At, Free
  <2>2. GoesOver(r, c) \/ GoesInto(r, c)
    BY <1>4, RepeatGoes, GroupGoes, MasterGoes, TimeGoes, LeafGoes
  <2>3. Stmt(c).type \in BlockTypes => ~CollectiveAt(program, c)
    BY DEF CollectiveAt, BlockTypes, ParallelTypes, OpeningTypes, FileTypes, Stmt
  <2>4. ~CollectiveAt(program, c)
    <3>1. CASE Local(r, c) \/ LocalIO(r, c) \/ SkipIO(r, c)
      BY <3>1, LeafGoes
    <3>2. CASE Repeat(r, c) \/ Group(r, c) \/ Master(r, c) \/ Time(r, c) \/ CTime(r, c)
      <4>1. Stmt(c).type \in BlockTypes
        BY <3>2 DEF Repeat, Group, Master, Time, CTime, At, BlockTypes
      <4>. QED BY <2>3, <4>1
    <3>. QED BY <1>4, <3>1, <3>2
  <2>5. \A d : IsNext(r, d) => d = c
    <3>1. IsNext(r, c)
      BY <2>2 DEF GoesOver, GoesInto
    <3>. QED BY <3>1, NextIsComing
  <2>. QED BY <2>1, <2>2, <2>4, <2>5 DEF Goes
<1>5. ASSUME RepeatEnd(r) \/ GroupEnd(r) \/ MasterEnd(r) \/ TimeEnd(r) \/ CTimeEnd(r)
      PROVE  /\ Goes(r) /\ mpi[r] = NoCall
             /\ \A d : IsNext(r, d) => ~CollectiveAt(program, d)
  <2>1. mpi[r] = NoCall /\ Pending(r) = {}
    BY <1>5 DEF RepeatEnd, GroupEnd, MasterEnd, TimeEnd, CTimeEnd, AtEnd, Free
  <2>. QED BY <1>5, <2>1, EndGoes DEF Goes, IsNext
<1>6. ASSUME BarrierReturns(r) \/ ParallelIOReturns(r)
      PROVE  Goes(r) /\ mpi[r].returned /\ mpi[r] # NoCall /\ GoesOver(r, Current(r))
  <2>1. mpi[r].returned /\ StepOver(r, Current(r))
    BY <1>6 DEF BarrierReturns, ParallelIOReturns
  <2>2. mpi[r] # NoCall
    BY <2>1 DEF NoCall
  <2>3. IsNext(r, Current(r))
    BY <2>2, CurrentIs DEF CallInv, IsNext, Safe
  <2>4. CollectiveAt(program, Current(r))
    BY <2>2 DEF MeetInv, CallAt
  <2>5. Stmt(Current(r)).type \notin BlockTypes
    BY <2>4 DEF CollectiveAt, BlockTypes, ParallelTypes, OpeningTypes, FileTypes, Stmt
  <2>6. GoesOver(r, Current(r))
    BY <2>1, <2>3, <2>5 DEF GoesOver
  <2>. QED BY <2>1, <2>2, <2>6 DEF Goes
<1>. QED BY <1>1, <1>2, <1>3, <1>4, <1>5, <1>6

-------------------------------------------------------------------------------
(* Files.                                                                       *)

\* Everything in a statement comes before the next child of the block it is in.
LEMMA InsideBefore ==
  ASSUME NEW p \in Programs, NEW z, IsPosition(p, z), NEW d \in DOMAIN z, NEW k, IsChild(p, d, k),
         z[d].next < k
  PROVE  /\ \A b \in DOMAIN z : b < k
         /\ \A t : IsTop(z, t) /\ z[t].next # Past(p) => z[t].next < k
<1>1. /\ DOMAIN z \subseteq Nat /\ d \in Nat /\ k \in Nat /\ k \in NodesOf(p) /\ ParentOf(p, k) = d
      /\ d < k /\ z[d].next \in Nat /\ d < z[d].next
  BY PositionTypes, TreeTypes DEF IsChild
<1>2. ASSUME NEW b \in NodesOf(p), k < b, ParentOf(p, b) < k PROVE ~(d < ParentOf(p, b))
  <2>1. ParentOf(p, k) >= ParentOf(p, b)
    BY <1>1, <1>2, TreeTypes
  <2>2. ParentOf(p, b) \in Nat
    BY <1>2, TreeTypes
  <2>. QED BY <1>1, <2>1, <2>2
<1>3. k \notin DOMAIN z
  <2>1. k \in DOMAIN z => z[d].next = k
    BY <1>1 DEF IsPosition
  <2>. QED BY <1>1, <2>1
<1>. DEFINE D == {b \in DOMAIN z : ~(b < k)}
<1>4. D = {}
  <2>1. SUFFICES ASSUME D # {} PROVE FALSE
    OBVIOUS
  <2>2. PICK b \in D : \A a \in D : b <= a
    <3>1. D \subseteq Nat
      BY <1>1
    <3>. HIDE DEF D
    <3>. QED BY <2>1, <3>1, Least
  <2>3. b \in DOMAIN z /\ b \in Nat /\ k < b /\ b # 0
    BY <1>1, <1>3
  <2>. DEFINE e == ParentOf(p, b)
  <2>4. b \in NodesOf(p) /\ e \in DOMAIN z /\ z[e].next = b /\ e < b /\ e \in Nat
    BY <2>3, PositionTypes DEF IsPosition
  <2>5. e < k
    <3>1. e \notin D
      <4>. HIDE DEF D, e
      <4>. QED BY <2>2, <2>3, <2>4
    <3>. QED BY <2>4, <3>1
  <2>6. ~(e < d)
    <3>1. e < d => b <= d
      BY <2>4 DEF IsPosition
    <3>. HIDE DEF e
    <3>. QED BY <1>1, <2>3, <3>1
  <2>7. e # d
    <3>. HIDE DEF e
    <3>. QED BY <1>1, <2>3, <2>4
  <2>8. ~(d < e)
    BY <1>2, <2>3, <2>4, <2>5
  <2>. HIDE DEF e
  <2>. QED BY <1>1, <2>4, <2>6, <2>7, <2>8
<1>5. ASSUME NEW t, IsTop(z, t), z[t].next # Past(p) PROVE z[t].next < k
  <2>1. PICK c : c = z[t].next
    OBVIOUS
  <2>2. t \in DOMAIN z /\ d <= t /\ t \in Nat /\ t < k
    BY <1>1, <1>4, <1>5 DEF IsTop
  <2>3. c \in NodesOf(p) /\ ParentOf(p, c) = t /\ c \in Nat
    BY <1>5, <2>1, <2>2, TreeTypes DEF IsPosition, IsChild
  <2>4. CASE t = d
    BY <1>1, <2>1, <2>4
  <2>5. CASE t # d
    <3>1. d < t
      BY <1>1, <2>2, <2>5
    <3>2. c # k
      BY <1>1, <2>3, <2>5
    <3>3. ~(k < c)
      BY <1>2, <2>2, <2>3, <3>1
    <3>. QED BY <1>1, <2>1, <2>3, <3>2, <3>3
  <2>. QED BY <2>4, <2>5
<1>. QED BY <1>4, <1>5

\* From position z, o has been executed, and place x is yet to come, in the same iterations
\* of the blocks around o.
Ahead(p, o, x, z) ==
  LET e == ParentOf(p, o) IN
  /\ e \in DOMAIN z /\ o < z[e].next
  /\ \A d \in DOMAIN x \cap DOMAIN z : d <= e => x[d].round = z[d].round
  /\ ~Before(x, z)
Blocks(p, z) == \A a \in DOMAIN z \ {0} : TypeOf(p, a) \in BlockTypes

\* What a rank at z touches is not in between: it is before n, or in a loop around n, but
\* not around o.
LEMMA NotBetween ==
  ASSUME NEW p \in Programs, NEW r \in Ranks, NEW o \in NodesOf(p), NEW n, NEW x, IsPlace(p, n, x),
         Reaches(p, r, x), NEW z, IsPosition(p, z), Blocks(p, z), Ahead(p, o, x, z), x # z,
         NEW t, IsTop(z, t), NEW m \in NodesOf(p), m >= n,
         m = z[t].next \/ (m = t /\ z[t].next = Past(p))
  PROVE  \E a \in LoopsAround(p, n) : o < a /\ a \in Around(p, m)
<1>. DEFINE e == ParentOf(p, o)
            D == {d \in DOMAIN x \cap DOMAIN z : x[d] # z[d]}
<1>1. /\ IsPosition(p, x) /\ DOMAIN x \subseteq Nat /\ DOMAIN z \subseteq Nat /\ t \in DOMAIN z
      /\ \A a \in DOMAIN z : a <= t
      /\ n \in NodesOf(p) /\ n \in Nat /\ m \in Nat /\ o \in Nat /\ t \in Nat
      /\ ParentOf(p, n) \in DOMAIN x /\ ParentOf(p, n) < n
  BY PlaceTypes, PositionTypes, TreeTypes DEF IsTop
<1>2. \A a \in DOMAIN x : a <= ParentOf(p, n) /\ a < n
  BY <1>1, PlaceTypes
<1>3. \A a \in DOMAIN x : x[a].next <= n
  <2>. TAKE a \in DOMAIN x
  <2>1. CASE a = ParentOf(p, n)
    BY <1>1, <2>1, PlaceTypes
  <2>2. CASE a # ParentOf(p, n)
    <3>1. a < ParentOf(p, n)
      BY <1>1, <1>2, <2>2
    <3>2. x[a].next \in DOMAIN x
      BY <3>1, PlaceTypes
    <3>. QED BY <1>1, <1>2, <3>2
  <2>. QED BY <2>1, <2>2
<1>4. D # {}
  <2>1. SUFFICES ASSUME D = {} PROVE FALSE
    OBVIOUS
  <2>2. \A d \in DOMAIN x \cap DOMAIN z : x[d] = z[d]
    BY <2>1
  <2>3. DOMAIN z \subseteq DOMAIN x
    <3>. DEFINE E == DOMAIN z \ DOMAIN x
    <3>1. SUFFICES ASSUME E # {} PROVE FALSE
      OBVIOUS
    <3>2. PICK b \in E : \A a \in E : b <= a
      <4>1. E \subseteq Nat
        BY <1>1
      <4>. HIDE DEF E
      <4>. QED BY <3>1, <4>1, Least
    <3>3. b \in DOMAIN z /\ b \notin DOMAIN x /\ b # 0 /\ b \in Nat
      BY <1>1 DEF IsPosition
    <3>4. /\ ParentOf(p, b) \in DOMAIN z /\ z[ParentOf(p, b)].next = b
          /\ ParentOf(p, b) < b
      BY <3>3, PositionTypes DEF IsPosition
    <3>5. ParentOf(p, b) \in DOMAIN x
      <4>1. ParentOf(p, b) \notin E
        <5>. HIDE DEF E
        <5>. QED BY <1>1, <3>2, <3>3, <3>4
      <4>. QED BY <3>4, <4>1
    <3>6. x[ParentOf(p, b)].next = b
      BY <2>2, <3>4, <3>5
    <3>7. ~(ParentOf(p, b) < ParentOf(p, n))
      BY <3>3, <3>5, <3>6, PlaceTypes
    <3>8. ParentOf(p, b) = ParentOf(p, n)
      BY <1>1, <1>2, <3>5, <3>7
    <3>9. b = n
      BY <3>6, <3>8, PlaceTypes
    <3>. QED BY <3>3, <3>9 DEF Blocks, IsPlace
  <2>4. t \in DOMAIN x /\ x[t] = z[t]
    BY <1>1, <2>2, <2>3
  <2>5. z[t].next # Past(p)
    <3>1. IsChild(p, t, x[t].next)
      BY <2>4, PlaceTypes
    <3>. QED BY <2>4, <3>1, TreeTypes DEF IsChild
  <2>6. m = x[t].next
    BY <2>4, <2>5
  <2>7. CASE t = ParentOf(p, n)
    <3>1. Agree(x, z, t)
      BY <2>2 DEF Agree
    <3>. QED BY <2>4, <2>7, <3>1, SameTop
  <2>8. CASE t # ParentOf(p, n)
    <3>1. t < ParentOf(p, n)
      BY <1>1, <1>2, <2>4, <2>8
    <3>2. m \in DOMAIN x
      BY <2>4, <2>6, <3>1, PlaceTypes
    <3>. QED BY <1>1, <1>2, <3>2
  <2>. QED BY <2>7, <2>8
<1>5. PICK d \in D : \A k \in D : d <= k
  <2>1. D \subseteq Nat
    BY <1>1
  <2>. HIDE DEF D
  <2>. QED BY <1>4, <2>1, Least
<1>6. /\ d \in DOMAIN x /\ d \in DOMAIN z /\ x[d] # z[d] /\ d \in Nat
      /\ x[d].round \in Nat /\ z[d].round \in Nat /\ x[d].next \in Nat /\ z[d].next \in Nat
      /\ x[d] = [round |-> x[d].round, next |-> x[d].next]
      /\ z[d] = [round |-> z[d].round, next |-> z[d].next]
  BY <1>1, PositionTypes
<1>7. Agree(x, z, d)
  <2>1. ASSUME NEW a \in DOMAIN x \cap DOMAIN z, a < d PROVE x[a] = z[a]
    <3>1. ~(d <= a)
      BY <1>1, <1>6, <2>1
    <3>. QED BY <1>5, <3>1
  <2>. QED BY <2>1 DEF Agree
<1>8. ~Earlier(x, z, d)
  BY <1>6, <1>7 DEF Before, Ahead
<1>9. z[d].round < x[d].round \/ (z[d].round = x[d].round /\ z[d].next < x[d].next)
  <2>1. z[d].round # x[d].round \/ z[d].next # x[d].next
    BY <1>6
  <2>2. /\ ~(x[d].round < z[d].round)
        /\ ~(x[d].round = z[d].round /\ x[d].next < z[d].next)
    BY <1>8 DEF Earlier
  <2>. QED BY <1>6, <2>1, <2>2
<1>10. CASE z[d].round < x[d].round
  <2>1. e \in DOMAIN z /\ o < z[e].next /\ e \in Nat /\ z[e].next \in Nat
    BY <1>1, PositionTypes DEF Ahead
  <2>2. ~(d <= e)
    <3>1. d <= e => x[d].round = z[d].round
      BY <1>6 DEF Ahead
    <3>. QED BY <1>6, <1>10, <3>1
  <2>3. z[e].next <= d
    <3>1. e < d
      BY <1>6, <2>1, <2>2
    <3>. HIDE DEF e
    <3>. QED BY <1>6, <2>1, <3>1 DEF IsPosition
  <2>4. o < d /\ d # 0
    <3>. HIDE DEF e
    <3>. QED BY <1>1, <1>6, <2>1, <2>3
  <2>5. d \in Around(p, n) /\ d \in NodesOf(p)
    BY <1>1, <1>6, <2>4, PlaceTypes DEF IsPosition
  <2>6. TypeOf(p, d) = "REPEAT"
    <3>1. x[d].round < Rounds(p, r, d)
      BY <1>6, <2>4 DEF Reaches
    <3>2. Rounds(p, r, d) \in Nat /\ Rounds(p, r, d) > 1
      BY <1>6, <1>10, <2>5, <3>1, RoundsTypes
    <3>. QED BY <2>5, <3>2, RoundsTypes
  <2>7. d \in Around(p, m)
    <3>1. Around(p, t) = {a \in DOMAIN z : a # 0 /\ a < t}
      BY <1>1, AroundIn
    <3>2. CASE m = t
      <4>1. d < t
        BY <1>1, <1>2, <1>6, <3>2
      <4>. QED BY <1>6, <2>4, <3>1, <3>2, <4>1
    <3>3. CASE m # t
      <4>1. ParentOf(p, m) = t
        <5>1. m = z[t].next /\ m # Past(p)
          BY <3>3, TreeTypes
        <5>. QED BY <1>1, <5>1 DEF IsPosition, IsChild
      <4>2. t # 0 /\ d <= t
        BY <1>1, <1>6, <2>4
      <4>3. Around(p, m) = {t} \cup Around(p, t)
        BY <4>1, <4>2, AroundOf
      <4>. QED BY <1>1, <1>6, <2>4, <3>1, <4>2, <4>3
    <3>. QED BY <3>2, <3>3
  <2>. QED BY <2>4, <2>5, <2>6, <2>7 DEF LoopsAround, TypeOf
<1>11. CASE z[d].round = x[d].round /\ z[d].next < x[d].next
  <2>1. IsChild(p, d, x[d].next)
    BY <1>6, PlaceTypes
  <2>2. t < x[d].next /\ (z[t].next # Past(p) => z[t].next < x[d].next)
    BY <1>1, <1>6, <1>11, <2>1, InsideBefore
  <2>3. m < x[d].next
    <3>1. m # Past(p)
      BY TreeTypes
    <3>. QED BY <2>2, <3>1
  <2>. QED BY <1>1, <1>3, <1>6, <2>3
<1>. QED BY <1>9, <1>10, <1>11

\* A rank that has executed o had done so before its last move, or has just done so; and what
\* it touched in between comes after o.
LEMMA AheadBefore ==
  ASSUME NEW p \in Programs, NEW r, NEW o \in NodesOf(p), TypeOf(p, o) \notin BlockTypes,
         NEW n, NEW x, IsPlace(p, n, x), Reaches(p, r, x),
         NEW z, IsPosition(p, z), NEW y, IsPosition(p, y), Ahead(p, o, x, y),
         NEW t, IsTop(z, t),
         \/ MovesOver(p, r, t, z, y) \/ MovesInto(p, r, t, z, y)
         \/ MovesBack(p, r, t, z, y) \/ MovesOut(p, r, t, z, y)
  PROVE  /\ x # z
         /\ \/ z[t].next = o /\ MovesOver(p, r, t, z, y)
            \/ /\ Ahead(p, o, x, z)
               /\ z[t].next # Past(p) => o < z[t].next
               /\ z[t].next = Past(p) => o < t
<1>. DEFINE e == ParentOf(p, o)
<1>1. x # z /\ ~Before(x, z)
  <2>1. Moves(p, r, z, y)
    BY DEF Moves
  <2>. QED BY <2>1, BeforeMoves DEF Ahead
<1>2. /\ DOMAIN z \subseteq Nat /\ DOMAIN y \subseteq Nat /\ t \in DOMAIN z /\ \A a \in DOMAIN z : a <= t
      /\ t \in Nat /\ o \in Nat /\ e \in Nat /\ e < o /\ IsChild(p, e, o) /\ o < Past(p)
      /\ e \in DOMAIN y /\ o < y[e].next /\ y[e].next \in Nat /\ z[t].next \in Nat
      /\ Past(p) \in Nat
  BY PositionTypes, TreeTypes DEF IsTop, Ahead, IsChild
<1>3. ASSUME NEW a, NEW c, Following(p, a, c, y[a].next), a = e, c \in Nat PROVE ~(c < o)
  <2>1. c < o => y[e].next <= o
    BY <1>2, <1>3 DEF Following
  <2>. HIDE DEF e
  <2>. QED BY <1>2, <2>1
<1>4. SUFFICES \/ z[t].next = o /\ MovesOver(p, r, t, z, y)
               \/ /\ e \in DOMAIN z /\ o < z[e].next
                  /\ \A d \in DOMAIN z : d <= e => d \in DOMAIN y /\ y[d].round = z[d].round
                  /\ z[t].next = Past(p) => t # e
  <2>1. CASE z[t].next = o /\ MovesOver(p, r, t, z, y)
    BY <1>1, <2>1
  <2>2. ASSUME e \in DOMAIN z, o < z[e].next,
               \A d \in DOMAIN z : d <= e => d \in DOMAIN y /\ y[d].round = z[d].round,
               z[t].next = Past(p) => t # e
        PROVE  /\ Ahead(p, o, x, z)
               /\ z[t].next # Past(p) => o < z[t].next
               /\ z[t].next = Past(p) => o < t
    <3>1. ASSUME NEW d \in DOMAIN x \cap DOMAIN z, d <= e PROVE x[d].round = z[d].round
      <4>1. d \in DOMAIN y /\ y[d].round = z[d].round
        BY <2>2, <3>1
      <4>. QED BY <3>1, <4>1 DEF Ahead
    <3>2. Ahead(p, o, x, z)
      BY <1>1, <2>2, <3>1 DEF Ahead
    <3>3. t # e => o < t
      <4>. HAVE t # e
      <4>1. e < t
        BY <1>2, <2>2
      <4>2. z[e].next <= t /\ z[e].next \in Nat
        BY <2>2, <4>1, <1>2, PositionTypes DEF IsPosition
      <4>. HIDE DEF e
      <4>. QED BY <1>2, <2>2, <4>2
    <3>4. t < z[t].next
      BY <1>2, PositionTypes
    <3>5. z[t].next # Past(p) => o < z[t].next
      <4>1. CASE t = e
        BY <2>2, <4>1
      <4>2. CASE t # e
        BY <1>2, <3>3, <3>4, <4>2
      <4>. QED BY <4>1, <4>2
    <3>. QED BY <2>2, <3>2, <3>3, <3>5
  <2>. QED BY <1>1, <1>4, <2>1, <2>2
<1>5. CASE MovesOver(p, r, t, z, y)
  <2>1. /\ DOMAIN y = DOMAIN z /\ \A a \in DOMAIN z : a # t => y[a] = z[a]
        /\ y[t].round = z[t].round /\ Following(p, t, z[t].next, y[t].next)
        /\ z[t].next # Past(p)
    BY <1>5, TreeTypes DEF MovesOver, Same, IsChild
  <2>2. CASE t = e
    <3>1. ~(z[t].next < o)
      BY <1>2, <1>3, <2>1, <2>2
    <3>2. z[t].next = o \/ o < z[e].next
      BY <1>2, <2>2, <3>1
    <3>. QED BY <1>2, <1>5, <2>1, <3>2
  <2>3. CASE t # e
    BY <1>2, <2>1, <2>3
  <2>. QED BY <2>2, <2>3
<1>6. CASE MovesInto(p, r, t, z, y)
  <2>. DEFINE c == z[t].next
  <2>1. /\ DOMAIN y = DOMAIN z \cup {c} /\ \A a \in DOMAIN z : y[a] = z[a]
        /\ Following(p, c, 0, y[c].next) /\ z[t].next # Past(p)
    BY <1>6, TreeTypes DEF MovesInto, Same, IsChild
  <2>2. e # c
    <3>1. c = e => ~(0 < o)
      BY <1>3, <2>1
    <3>. QED BY <1>2, <3>1
  <2>. HIDE DEF c
  <2>. QED BY <1>2, <2>1, <2>2
<1>7. CASE MovesBack(p, r, t, z, y)
  <2>1. /\ DOMAIN y = DOMAIN z /\ \A a \in DOMAIN z : a # t => y[a] = z[a]
        /\ Following(p, t, 0, y[t].next)
    BY <1>7 DEF MovesBack, Same
  <2>2. e # t
    <3>1. t = e => ~(0 < o)
      BY <1>3, <2>1
    <3>. QED BY <1>2, <3>1
  <2>3. \A d \in DOMAIN z : d <= e => d # t
    BY <1>2, <2>1, <2>2
  <2>. QED BY <1>2, <2>1, <2>2, <2>3
<1>8. CASE MovesOut(p, r, t, z, y)
  <2>. DEFINE b == ParentOf(p, t)
  <2>1. /\ DOMAIN y = DOMAIN z \ {t} /\ \A a \in DOMAIN z : a # t /\ a # b => y[a] = z[a]
        /\ y[b].round = z[b].round /\ Following(p, b, t, y[b].next)
        /\ t # 0 /\ TypeOf(p, t) \in BlockTypes
    BY <1>8 DEF MovesOut, Same
  <2>2. b \in DOMAIN z /\ z[b].next = t /\ b < t
    BY <1>2, <2>1, PositionTypes DEF IsPosition
  <2>3. e # t /\ e \in DOMAIN z
    BY <1>2, <2>1
  <2>4. \A d \in DOMAIN z : d <= e => d # t
    BY <1>2, <2>3
  <2>5. \A d \in DOMAIN z : d <= e => d \in DOMAIN y /\ y[d].round = z[d].round
    <3>. HIDE DEF b, e
    <3>. QED BY <2>1, <2>4
  <2>6. CASE b = e
    <3>1. ~(t < o)
      BY <1>2, <1>3, <2>1, <2>6
    <3>2. t # o
      BY <2>1
    <3>3. o < z[e].next
      <4>. HIDE DEF b, e
      <4>. QED BY <1>2, <2>2, <2>6, <3>1, <3>2
    <3>. QED BY <2>3, <2>5, <3>3
  <2>7. CASE b # e
    <3>1. y[e] = z[e]
      BY <2>1, <2>3, <2>7
    <3>2. o < z[e].next
      BY <1>2, <3>1
    <3>. QED BY <2>3, <2>5, <3>2
  <2>. QED BY <2>6, <2>7
<1>. QED BY <1>5, <1>6, <1>7, <1>8

\* A rank that is about to execute n has executed what opens the file of n.
LEMMA AheadAt ==
  ASSUME NEW p \in Programs, NEW o \in NodesOf(p), TypeOf(p, o) \notin BlockTypes,
         NEW n, NEW x, IsPlace(p, n, x), o < n, ParentOf(p, o) \in Around(p, n) \cup {0}
  PROVE  Ahead(p, o, x, x)
<1>. DEFINE e == ParentOf(p, o)
<1>1. IsPosition(p, x) /\ 0 \in DOMAIN x /\ n \in NodesOf(p) /\ Around(p, n) = DOMAIN x \ {0}
  BY PlaceTypes DEF IsPosition
<1>2. e \in DOMAIN x /\ IsChild(p, e, o) /\ o \in Nat /\ n \in Nat /\ x[e].next \in Nat
  BY <1>1, PositionTypes, TreeTypes DEF IsChild
<1>3. ~(x[e].next < o)
  <2>. SUFFICES ASSUME x[e].next < o PROVE FALSE
    OBVIOUS
  <2>. DEFINE t == ParentOf(p, n)
  <2>1. IsTop(x, t) /\ x[t].next = n /\ n # Past(p)
    BY <1>1, PlaceTypes, TreeTypes DEF IsTop
  <2>2. x[t].next < o
    <3>. HIDE DEF t, e
    <3>. QED BY <1>1, <1>2, <2>1, InsideBefore
  <2>. HIDE DEF t
  <2>. QED BY <1>2, <2>1, <2>2
<1>4. x[e].next # o
  <2>. SUFFICES ASSUME x[e].next = o PROVE FALSE
    OBVIOUS
  <2>1. e = ParentOf(p, n) \/ x[e].next \in DOMAIN x
    <3>1. e <= ParentOf(p, n) /\ e \in Nat /\ ParentOf(p, n) \in Nat
      BY <1>1, <1>2, PlaceTypes, TreeTypes
    <3>2. e < ParentOf(p, n) => x[e].next \in DOMAIN x
      BY <1>2, PlaceTypes
    <3>. HIDE DEF e
    <3>. QED BY <3>1, <3>2
  <2>2. CASE e = ParentOf(p, n)
    <3>1. x[e].next = n
      BY <2>2, PlaceTypes
    <3>. HIDE DEF e
    <3>. QED BY <1>2, <3>1
  <2>3. CASE x[e].next \in DOMAIN x
    <3>1. o \in DOMAIN x \ {0}
      BY <2>3, TreeTypes
    <3>. QED BY <3>1, PlaceTypes
  <2>. QED BY <2>1, <2>2, <2>3
<1>5. o < x[e].next
  <2>. HIDE DEF e
  <2>. QED BY <1>2, <1>3, <1>4
<1>6. ~Before(x, x)
  BY <1>1, NotBeforeItself
<1>. QED BY <1>2, <1>5, <1>6 DEF Ahead

-------------------------------------------------------------------------------
(* Calls and files.                                                             *)

\* The communicator of collective statement n.
CommAt(p, r, n) ==
  LET s == p.kernel.stmt[n] IN
  IF s.type = "BARRIER" /\ s.arg # ""
  THEN IF s.arg = "world" THEN World ELSE CommOf(r, s.arg)
  ELSE LexicalComm(p, r, IF s.type \in FileTypes THEN OpenerOf(p, n) ELSE n)
CommInv ==
  \A r \in Ranks : mpi[r] # NoCall =>
    LET n == Current(r) IN
    (Stmt(n).type \in FileTypes => \E o \in Nodes : Opens(program, o, n))
      => mpi[r].comm = CommAt(program, r, n)

\* On its way from a statement that opens a file to one that uses it, a rank has the file
\* in the variable.
FilesInv ==
  ~parseOnly => \A r \in Ranks, o \in Nodes : \A n, x :
    Opens(program, o, n) /\ IsPlace(program, n, x) /\ Reaches(program, r, x)
      /\ Ahead(program, o, x, Position(r))
      => /\ Stmt(o).arg \in DOMAIN vars[r]
         /\ vars[r][Stmt(o).arg] = FileVar(LexicalComm(program, r, o))

\* Where a rank is about to execute a leaf.
LEMMA PlaceOf ==
  ASSUME Safe, CourseInv, NEW r \in Ranks
  PROVE  /\ Reaches(program, r, Position(r)) /\ Blocks(program, Position(r))
         /\ \A c : IsNext(r, c) /\ Stmt(c).type \notin BlockTypes => IsPlace(program, c, Position(r))
<1>. DEFINE z == Position(r)
<1>1. PositionFacts(r) /\ program \in Programs /\ Nodes = NodesOf(program)
  BY Positions, ProgramTypes DEF Safe
<1>2. ASSUME NEW a \in DOMAIN z
      PROVE  /\ a = 0 => z[a].round = 0
             /\ a # 0 => z[a].round < Rounds(program, r, a) /\ Stmt(a).type \in BlockTypes
  <2>1. PICK i \in 1 .. Len(frames[r]) : a = frames[r][i].node
    BY <1>1 DEF PositionFacts, OnPath
  <2>2. z[a].round = frames[r][i].round /\ frames[r][i].round < frames[r][i].count
    BY <1>1, <2>1 DEF PositionFacts, Safe, FrameInv
  <2>3. z[a].round \in Nat
    BY <1>1, PositionTypes DEF PositionFacts
  <2>4. CASE a = 0
    <3>1. frames[r][i].count = 1
      BY <2>1, <2>4 DEF CourseInv, Course
    <3>. HIDE DEF z
    <3>. QED BY <2>2, <2>3, <2>4, <3>1
  <2>5. CASE a # 0
    <3>1. frames[r][i].count = Rounds(program, r, a) /\ Stmt(a).type \in BlockTypes
      BY <2>1, <2>5 DEF CourseInv, Course
    <3>. HIDE DEF z
    <3>. QED BY <2>2, <2>5, <3>1
  <2>. QED BY <2>4, <2>5
<1>3. IsPosition(program, z) /\ IsTop(z, frames[r][1].node)
  BY <1>1 DEF PositionFacts
<1>4. Reaches(program, r, z)
  BY <1>2, <1>3 DEF Reaches, IsPosition
<1>5. Blocks(program, z)
  BY <1>2 DEF Blocks, TypeOf, Stmt
<1>6. ASSUME NEW c, IsNext(r, c), Stmt(c).type \notin BlockTypes
      PROVE  IsPlace(program, c, z)
  <2>. DEFINE t == frames[r][1].node
  <2>1. c \in Nodes /\ Coming(r) = c /\ ParentOf(program, c) = t
    BY <1>6, NextIsComing DEF ParentOf
  <2>2. z[t].next = c
    <3>1. 1 \in 1 .. Len(frames[r])
      BY TopTypes DEF Safe
    <3>. QED BY <1>1, <2>1, <3>1 DEF PositionFacts
  <2>3. t \in DOMAIN z /\ t < c /\ c \in Nat /\ t \in Nat /\ \A a \in DOMAIN z : a <= t
    BY <1>1, <1>3, <2>1, TreeTypes DEF IsTop
  <2>4. c \notin DOMAIN z
    <3>. HIDE DEF t, z
    <3>. QED BY <2>3
  <2>. QED BY <1>1, <1>3, <1>6, <2>1, <2>2, <2>3, <2>4 DEF IsPlace, TypeOf, Stmt
<1>. QED BY <1>4, <1>5, <1>6

\* What moves do to variables: those of loops, opened and closed files are touched, and
\* opening gives one a file.
LEMMA ActsVars ==
  ASSUME Safe, CallInv, MeetInv, NEW r \in Ranks, Acts(r)
  PROVE  /\ \A q \in Ranks \ {r} : vars'[q] = vars[q]
         /\ \A v \in DOMAIN vars[r] :
              \/ v \in DOMAIN vars'[r] /\ vars'[r][v] = vars[r][v]
              \/ \E m \in Nodes : /\ Stmt(m).type \in {"PFOPEN", "PFCLOSE", "REPEAT"} /\ Stmt(m).arg = v
                                  /\ IsNext(r, m) \/ (Pending(r) = {} /\ frames[r][1].node = m)
         /\ \A o : IsNext(r, o) /\ Stmt(o).type = "PFOPEN" /\ ~parseOnly =>
              /\ mpi[r] # NoCall /\ Stmt(o).arg \in DOMAIN vars'[r]
              /\ vars'[r][Stmt(o).arg] = FileVar(mpi[r].comm)
<1>1. DOMAIN vars = Ranks
  BY DEF Safe, Types
<1>. DEFINE Touched(m) == /\ Stmt(m).type \in {"PFOPEN", "PFCLOSE", "REPEAT"}
                          /\ IsNext(r, m) \/ (Pending(r) = {} /\ frames[r][1].node = m)
<1>2. ASSUME vars' = vars
      PROVE  /\ \A q \in Ranks \ {r} : vars'[q] = vars[q]
             /\ \A v \in DOMAIN vars[r] : v \in DOMAIN vars'[r] /\ vars'[r][v] = vars[r][v]
  BY <1>2
<1>3. ASSUME NEW m \in Nodes, Touched(m), NEW w, w = Stmt(m).arg, NEW value,
             SetVar(r, w, value) \/ DestroyVar(r, w)
      PROVE  /\ \A q \in Ranks \ {r} : vars'[q] = vars[q]
             /\ \A v \in DOMAIN vars[r] :
                  \/ v \in DOMAIN vars'[r] /\ vars'[r][v] = vars[r][v]
                  \/ \E k \in Nodes : Touched(k) /\ Stmt(k).arg = v
  <2>1. /\ \A q \in Ranks \ {r} : vars'[q] = vars[q]
        /\ \A v \in DOMAIN vars[r] : v # w => v \in DOMAIN vars'[r] /\ vars'[r][v] = vars[r][v]
    <3>1. CASE SetVar(r, w, value)
      BY <1>1, <3>1 DEF SetVar
    <3>2. CASE DestroyVar(r, w)
      BY <1>1, <3>2 DEF DestroyVar
    <3>. QED BY <1>3, <3>1, <3>2
  <2>. HIDE DEF Touched
  <2>. QED BY <1>3, <2>1
<1>4. ASSUME NEW c \in Nodes, \/ Repeat(r, c) \/ Group(r, c) \/ Master(r, c) \/ Local(r, c) \/ Time(r, c)
                              \/ CTime(r, c) \/ LocalIO(r, c) \/ SkipIO(r, c)
      PROVE  \A o : IsNext(r, o) /\ Stmt(o).type = "PFOPEN" => parseOnly
  <2>1. PICK type : At(r, c, type) /\ (type = "PFOPEN" => parseOnly)
    BY <1>4 DEF Repeat, Group, Master, Local, Time, CTime, LocalIO, SkipIO
  <2>2. IsNext(r, c) /\ Stmt(c).type = type
    BY <2>1, AtNext
  <2>3. \A o : IsNext(r, o) => o = c
    BY <2>2, NextIsComing
  <2>. QED BY <2>1, <2>2, <2>3
<1>5. ASSUME NEW c \in Nodes, Repeat(r, c)
      PROVE  Touched(c) /\ (SetVar(r, Stmt(c).arg, IntVar(0)) \/ DestroyVar(r, Stmt(c).arg))
  BY <1>5, AtNext DEF Repeat
<1>6. ASSUME NEW c \in Nodes, \/ Group(r, c) \/ Master(r, c) \/ Local(r, c) \/ Time(r, c)
                              \/ CTime(r, c) \/ LocalIO(r, c) \/ SkipIO(r, c)
      PROVE  vars' = vars
  BY <1>6 DEF Group, Master, Local, Time, CTime, LocalIO, SkipIO
<1>7. ASSUME RepeatEnd(r) \/ GroupEnd(r) \/ MasterEnd(r) \/ TimeEnd(r) \/ CTimeEnd(r)
      PROVE  \A o : ~IsNext(r, o)
  BY <1>7 DEF RepeatEnd, GroupEnd, MasterEnd, TimeEnd, CTimeEnd, AtEnd, IsNext
<1>8. ASSUME RepeatEnd(r)
      PROVE  LET m == frames[r][1].node IN
             /\ m \in Nodes /\ Touched(m)
             /\ SetVar(r, Stmt(m).arg, IntVar(Top(r).round + 1)) \/ DestroyVar(r, Stmt(m).arg)
  <2>1. Top(r) = frames[r][1] /\ Pending(r) = {} /\ Top(r).node # 0 /\ Stmt(Top(r).node).type = "REPEAT"
    BY <1>8, TopTypes DEF RepeatEnd, AtEnd, Safe
  <2>2. frames[r][1].node \in Nodes
    BY <2>1, BelowRoot DEF Safe
  <2>. QED BY <1>8, <2>1, <2>2 DEF RepeatEnd
<1>9. ASSUME GroupEnd(r) \/ MasterEnd(r) \/ TimeEnd(r) \/ CTimeEnd(r) \/ BarrierReturns(r)
      PROVE  vars' = vars
  BY <1>9 DEF GroupEnd, MasterEnd, TimeEnd, CTimeEnd, BarrierReturns
<1>10. ASSUME BarrierReturns(r) \/ ParallelIOReturns(r)
       PROVE  /\ mpi[r] # NoCall /\ IsNext(r, Current(r)) /\ Current(r) \in Nodes
              /\ \A o : IsNext(r, o) => o = Current(r)
              /\ BarrierReturns(r) => Stmt(Current(r)).type # "PFOPEN"
              /\ ParallelIOReturns(r) => Stmt(Current(r)).type = mpi[r].op
  <2>1. mpi[r] # NoCall
    BY <1>10 DEF BarrierReturns, ParallelIOReturns, NoCall
  <2>2. IsNext(r, Current(r))
    BY <2>1, CurrentIs DEF CallInv, IsNext, Safe
  <2>3. \A o : IsNext(r, o) => o = Current(r)
    BY <2>2, NextIsComing
  <2>4. CallAt(r, Current(r))
    BY <2>1 DEF MeetInv
  <2>5. BarrierReturns(r) => Stmt(Current(r)).type # "PFOPEN"
    BY <2>4 DEF BarrierReturns, CallAt
  <2>6. ParallelIOReturns(r) => Stmt(Current(r)).type = mpi[r].op
    BY <2>4 DEF ParallelIOReturns, CallAt, ParallelTypes, OpeningTypes, FileTypes
  <2>. QED BY <2>1, <2>2, <2>3, <2>5, <2>6, NextIsComing
<1>11. ASSUME ParallelIOReturns(r)
       PROVE  LET w == Stmt(Current(r)).arg IN
              /\ \/ vars' = vars
                 \/ Touched(Current(r)) /\ (SetVar(r, w, FileVar(mpi[r].comm)) \/ DestroyVar(r, w))
              /\ mpi[r].op = "PFOPEN" => SetVar(r, w, FileVar(mpi[r].comm))
  <2>1. CASE mpi[r].op = "PFOPEN"
    BY <1>10, <1>11, <2>1 DEF ParallelIOReturns
  <2>2. CASE mpi[r].op = "PFCLOSE"
    BY <1>10, <1>11, <2>2 DEF ParallelIOReturns
  <2>3. CASE mpi[r].op \notin {"PFOPEN", "PFCLOSE"}
    BY <1>11, <2>3 DEF ParallelIOReturns
  <2>. QED BY <2>1, <2>2, <2>3
<1>12. ASSUME NEW w, NEW value, SetVar(r, w, value)
       PROVE  w \in DOMAIN vars'[r] /\ vars'[r][w] = value
  BY <1>1, <1>12 DEF SetVar
<1>13. ASSUME ParallelIOReturns(r), NEW o, IsNext(r, o), Stmt(o).type = "PFOPEN"
       PROVE  /\ mpi[r] # NoCall /\ Stmt(o).arg \in DOMAIN vars'[r]
              /\ vars'[r][Stmt(o).arg] = FileVar(mpi[r].comm)
  <2>1. o = Current(r) /\ mpi[r] # NoCall /\ mpi[r].op = "PFOPEN"
    BY <1>10, <1>13
  <2>2. SetVar(r, Stmt(o).arg, FileVar(mpi[r].comm))
    BY <1>11, <1>13, <2>1
  <2>. QED BY <1>12, <2>1, <2>2
<1>14. ASSUME BarrierReturns(r), NEW o, IsNext(r, o) PROVE Stmt(o).type # "PFOPEN"
  BY <1>10, <1>14
<1>15. /\ \A q \in Ranks \ {r} : vars'[q] = vars[q]
       /\ \A v \in DOMAIN vars[r] :
            \/ v \in DOMAIN vars'[r] /\ vars'[r][v] = vars[r][v]
            \/ \E m \in Nodes : Touched(m) /\ Stmt(m).arg = v
  <2>. HIDE DEF Touched
  <2>1. CASE vars' = vars
    BY <1>2, <2>1
  <2>2. ASSUME NEW c \in Nodes, Repeat(r, c)
        PROVE  \E m \in Nodes : \E value, w : w = Stmt(m).arg /\ Touched(m) /\ (SetVar(r, w, value) \/ DestroyVar(r, w))
    BY <1>5, <2>2
  <2>3. ASSUME RepeatEnd(r)
        PROVE  \E m \in Nodes : \E value, w : w = Stmt(m).arg /\ Touched(m) /\ (SetVar(r, w, value) \/ DestroyVar(r, w))
    BY <1>8, <2>3
  <2>4. ASSUME ParallelIOReturns(r), vars' # vars
        PROVE  \E m \in Nodes : \E value, w : w = Stmt(m).arg /\ Touched(m) /\ (SetVar(r, w, value) \/ DestroyVar(r, w))
    BY <1>10, <1>11, <2>4
  <2>5. CASE \E m \in Nodes : \E value, w : w = Stmt(m).arg /\ Touched(m) /\ (SetVar(r, w, value) \/ DestroyVar(r, w))
    BY <1>3, <2>5
  <2>. QED BY <1>6, <1>9, <2>1, <2>2, <2>3, <2>4, <2>5 DEF Acts
<1>16. \A o : IsNext(r, o) /\ Stmt(o).type = "PFOPEN" /\ ~parseOnly =>
              /\ mpi[r] # NoCall /\ Stmt(o).arg \in DOMAIN vars'[r]
              /\ vars'[r][Stmt(o).arg] = FileVar(mpi[r].comm)
  BY <1>4, <1>7, <1>13, <1>14 DEF Acts
<1>. QED BY <1>15, <1>16

\* What the active rank is about to execute.
LEMMA SameCurrent ==
  ASSUME NEW q, program' = program, frames'[q] = frames[q]
  PROVE  Pending(q)' = Pending(q) /\ Current(q)' = Current(q)
BY SamePending DEF Current

\* A rank that enters a call makes that of the statement it is at.
LEMMA NewCall ==
  ASSUME Safe, ContextInv, CourseInv, FilesInv, NEW r \in Ranks, NEW c \in Nodes,
         Barrier(r, c) \/ ParallelIO(r, c)
  PROVE  /\ mpi'[r].op = IF Stmt(c).type = "BARRIER" THEN "MPI_Barrier" ELSE Stmt(c).type
         /\ \A q \in Ranks \ {r} : mpi'[q] = mpi[q]
         /\ c = Current(r) /\ CollectiveAt(program, c)
         /\ (Stmt(c).type \in FileTypes => \E o \in Nodes : Opens(program, o, c))
              => mpi'[r].comm = CommAt(program, r, c)
<1>1. /\ program \in Programs /\ Nodes = NodesOf(program)
      /\ mpi \in [Ranks -> MPICalls]
  BY ProgramTypes DEF Safe, Types
<1>2. PICK type \in {"BARRIER"} \cup ParallelTypes :
        At(r, c, type) /\ (type = "BARRIER" => Barrier(r, c)) /\ (type # "BARRIER" => ParallelIO(r, c) /\ ~parseOnly)
  BY DEF Barrier, ParallelIO, ParallelTypes, OpeningTypes, FileTypes, At
<1>3. /\ Stmt(c).type = type /\ IsNext(r, c) /\ program.kernel.parent[c] = frames[r][1].node
  BY <1>2, AtNext
<1>4. c = Current(r)
  BY <1>3, CurrentIs DEF IsNext, Safe
<1>5. CollectiveAt(program, c)
  BY <1>2, <1>3 DEF CollectiveAt, Stmt, parseOnly
<1>6. ActiveComm(r) = LexicalComm(program, r, c)
  BY <1>3, ActiveIsLexical DEF Safe
<1>7. CASE type = "BARRIER"
  <2>1. mpi' = [mpi EXCEPT ![r] = [op |-> "MPI_Barrier", comm |-> NamedComm(r, Stmt(c).arg), returned |-> FALSE]]
    BY <1>2, <1>7 DEF Barrier
  <2>2. /\ mpi'[r].op = "MPI_Barrier" /\ mpi'[r].comm = NamedComm(r, Stmt(c).arg)
        /\ \A q \in Ranks \ {r} : mpi'[q] = mpi[q]
    BY <1>1, <2>1
  <2>3. NamedComm(r, Stmt(c).arg) = CommAt(program, r, c)
    BY <1>3, <1>6, <1>7 DEF NamedComm, CommAt, Stmt, FileTypes
  <2>. QED BY <1>3, <1>4, <1>5, <1>7, <2>2, <2>3
<1>8. CASE type # "BARRIER"
  <2>1. /\ mpi' = [mpi EXCEPT ![r] = [op |-> Stmt(c).type, comm |-> IOComm(r, c), returned |-> FALSE]]
        /\ Stmt(c).type \in FileTypes => IsFile(r, Stmt(c).arg)
    BY <1>2, <1>8 DEF ParallelIO
  <2>2. /\ mpi'[r].op = Stmt(c).type /\ mpi'[r].comm = IOComm(r, c)
        /\ \A q \in Ranks \ {r} : mpi'[q] = mpi[q]
    BY <1>1, <2>1
  <2>3. CASE Stmt(c).type \in OpeningTypes
    <3>1. Stmt(c).type \notin FileTypes
      BY <2>3 DEF FileTypes, OpeningTypes
    <3>2. CommAt(program, r, c) = LexicalComm(program, r, c)
      BY <1>3, <1>8, <3>1 DEF CommAt, Stmt
    <3>. QED BY <1>3, <1>4, <1>5, <1>6, <1>8, <2>2, <2>3, <3>2 DEF IOComm
  <2>4. CASE Stmt(c).type \in FileTypes
    <3>1. Stmt(c).type \notin OpeningTypes /\ Stmt(c).type \notin BlockTypes
      BY <2>4 DEF FileTypes, OpeningTypes, BlockTypes
    <3>2. ASSUME \E o \in Nodes : Opens(program, o, c)
          PROVE  IOComm(r, c) = CommAt(program, r, c)
      <4>1. PICK o : o = OpenerOf(program, c)
        OBVIOUS
      <4>2. o \in Nodes /\ Opens(program, o, c)
        BY <1>1, <3>2, <4>1 DEF OpenerOf, NodesOf
      <4>3. /\ IsPlace(program, c, Position(r)) /\ Reaches(program, r, Position(r))
        BY <1>3, <3>1, PlaceOf
      <4>4. /\ Stmt(o).type = "PFOPEN" /\ Stmt(o).arg = Stmt(c).arg /\ o < c
            /\ ParentOf(program, o) \in Around(program, c) \cup {0}
        BY <4>2 DEF Opens, Stmt, ParentOf
      <4>5. TypeOf(program, o) \notin BlockTypes
        BY <4>4 DEF TypeOf, Stmt, BlockTypes
      <4>6. Ahead(program, o, Position(r), Position(r))
        BY <1>1, <4>2, <4>3, <4>4, <4>5, AheadAt
      <4>7. ~parseOnly
        BY <1>2, <1>8
      <4>8. vars[r][Stmt(o).arg] = FileVar(LexicalComm(program, r, o))
        BY <4>2, <4>3, <4>6, <4>7 DEF FilesInv
      <4>9. IOComm(r, c) = LexicalComm(program, r, o)
        BY <3>1, <4>4, <4>8 DEF IOComm, FileVar
      <4>10. CommAt(program, r, c) = LexicalComm(program, r, o)
        BY <1>3, <1>8, <2>4, <4>1 DEF CommAt, Stmt
      <4>. QED BY <4>9, <4>10
    <3>. QED BY <1>3, <1>4, <1>5, <1>8, <2>2, <2>4, <3>2
  <2>. QED BY <1>2, <1>3, <1>8, <2>3, <2>4 DEF ParallelTypes
<1>. QED BY <1>7, <1>8

\* The calls ranks are in when nobody moves.
LEMMA MeetIdle ==
  ASSUME Safe, CallInv, ContextInv, CourseInv, FilesInv, MeetInv, CommInv, Idle
  PROVE  MeetInv' /\ CommInv'
<1>1. frames' = frames /\ program' = program
  BY IdleSteps
<1>2. \A q : Current(q)' = Current(q)
  BY <1>1, SameCurrent
<1>3. ASSUME NEW q \in Ranks,
             mpi'[q] = NoCall \/ (mpi[q] # NoCall /\ mpi'[q].op = mpi[q].op /\ mpi'[q].comm = mpi[q].comm)
      PROVE  /\ mpi'[q] # NoCall => CallAt(q, Current(q))'
             /\ mpi'[q] # NoCall =>
                  LET n == Current(q) IN
                  (Stmt(n).type \in FileTypes => \E o \in Nodes : Opens(program, o, n))
                    => mpi'[q].comm = CommAt(program, q, n)
  <2>. SUFFICES ASSUME mpi'[q] # NoCall
                PROVE  /\ CallAt(q, Current(q))'
                       /\ LET n == Current(q) IN
                          (Stmt(n).type \in FileTypes => \E o \in Nodes : Opens(program, o, n))
                            => mpi'[q].comm = CommAt(program, q, n)
    OBVIOUS
  <2>1. mpi[q] # NoCall /\ mpi'[q].op = mpi[q].op /\ mpi'[q].comm = mpi[q].comm
    BY <1>3
  <2>2. CallAt(q, Current(q))
    BY <2>1 DEF MeetInv
  <2>3. CallAt(q, Current(q))'
    BY <1>1, <1>2, <2>1, <2>2 DEF CallAt, Stmt
  <2>. QED BY <2>1, <2>3 DEF CommInv
<1>4. SUFFICES ASSUME NEW q \in Ranks, mpi'[q] # NoCall
               PROVE  /\ CallAt(q, Current(q))'
                      /\ LET n == Current(q) IN
                         (Stmt(n).type \in FileTypes => \E o \in Nodes : Opens(program, o, n))
                           => mpi'[q].comm = CommAt(program, q, n)
  BY <1>1, <1>2 DEF MeetInv, CommInv, Stmt, Nodes
<1>5. ASSUME NEW r \in Ranks, NEW c \in Nodes, Barrier(r, c) \/ ParallelIO(r, c)
      PROVE  /\ CallAt(q, Current(q))'
             /\ LET n == Current(q) IN
                (Stmt(n).type \in FileTypes => \E o \in Nodes : Opens(program, o, n))
                  => mpi'[q].comm = CommAt(program, q, n)
  <2>1. CASE q = r
    <3>1. /\ mpi'[r].op = IF Stmt(c).type = "BARRIER" THEN "MPI_Barrier" ELSE Stmt(c).type
          /\ c = Current(r) /\ CollectiveAt(program, c)
          /\ (Stmt(c).type \in FileTypes => \E o \in Nodes : Opens(program, o, c))
               => mpi'[r].comm = CommAt(program, r, c)
      BY <1>5, NewCall
    <3>2. CallAt(r, Current(r))'
      BY <1>1, <1>2, <3>1 DEF CallAt, Stmt
    <3>. QED BY <2>1, <3>1, <3>2
  <2>2. CASE q # r
    <3>1. mpi'[q] = mpi[q]
      BY <1>5, <2>2, NewCall
    <3>. QED BY <1>3, <1>4, <3>1
  <2>. QED BY <2>1, <2>2
<1>6. CASE Complete
  <2>1. mpi[q] # NoCall /\ mpi'[q].op = mpi[q].op /\ mpi'[q].comm = mpi[q].comm
    BY <1>4, <1>6, CompleteCalls DEF Safe
  <2>. QED BY <1>3, <1>4, <2>1
<1>7. CASE mpi' = mpi
  BY <1>3, <1>4, <1>7
<1>8. ASSUME NEW r \in Ranks, NEW c \in Nodes,
             RepeatNegative(r, c) \/ UndefinedGroup(r, c) \/ NoFile(r, c)
      PROVE  mpi' = mpi
  BY <1>8 DEF RepeatNegative, UndefinedGroup, NoFile, Abort
<1>9. UNCHANGED allVars => mpi' = mpi
  BY DEF allVars
<1>. QED BY <1>5, <1>6, <1>7, <1>8, <1>9 DEF Idle

\* And when one does.
LEMMA MeetActs ==
  ASSUME program' = program, NEW r \in Ranks, mpi'[r] = NoCall,
         \A q \in Ranks \ {r} : mpi'[q] = mpi[q] /\ frames'[q] = frames[q],
         MeetInv, CommInv
  PROVE  MeetInv' /\ CommInv'
<1>1. ASSUME NEW q \in Ranks, mpi'[q] # NoCall
      PROVE  /\ CallAt(q, Current(q))'
             /\ LET n == Current(q) IN
                (Stmt(n).type \in FileTypes => \E o \in Nodes : Opens(program, o, n))
                  => mpi'[q].comm = CommAt(program, q, n)
             /\ Current(q)' = Current(q)
  <2>1. mpi'[q] = mpi[q] /\ Current(q)' = Current(q)
    BY <1>1, SameCurrent
  <2>2. CallAt(q, Current(q))
    BY <1>1, <2>1 DEF MeetInv
  <2>3. CallAt(q, Current(q))'
    BY <2>1, <2>2 DEF CallAt, Stmt
  <2>. QED BY <1>1, <2>1, <2>3 DEF CommInv
<1>. QED BY <1>1 DEF MeetInv, CommInv, Stmt, Nodes

\* What comes next at the position of a rank.
LEMMA TopNext ==
  ASSUME Safe, NEW r \in Ranks, NEW t, IsTop(Position(r), t)
  PROVE  /\ t = frames[r][1].node /\ Position(r)[t].next = Coming(r)
         /\ \A c : IsNext(r, c) <=> c \in Nodes /\ Position(r)[t].next = c
         /\ Pending(r) = {} <=> Position(r)[t].next = Past(program)
<1>1. PositionFacts(r) /\ program \in Programs /\ Nodes = NodesOf(program) /\ 1 \in 1 .. Len(frames[r])
  BY Positions, ProgramTypes, TopTypes DEF Safe
<1>2. t = frames[r][1].node
  <2>1. t \in Nat /\ frames[r][1].node \in Nat /\ t <= frames[r][1].node /\ frames[r][1].node <= t
    BY <1>1, PositionTypes DEF PositionFacts, IsTop
  <2>. QED BY <2>1
<1>3. Position(r)[t].next = Coming(r)
  BY <1>1, <1>2 DEF PositionFacts
<1>4. Past(program) \notin Nodes
  BY <1>1, TreeTypes
<1>5. Pending(r) # {} => IsNext(r, Current(r)) /\ Coming(r) = Current(r) /\ Current(r) \in Nodes
  BY CurrentIs DEF IsNext, Coming, Safe, Pending
<1>6. Pending(r) = {} => Coming(r) = Past(program) /\ \A c : ~IsNext(r, c)
  BY DEF Coming, IsNext
<1>7. \A c : IsNext(r, c) => c \in Nodes /\ Coming(r) = c
  BY NextIsComing
<1>. QED BY <1>2, <1>3, <1>4, <1>5, <1>6, <1>7

\* A move of a rank keeps the files it has ahead, and one it opens is ahead then.
LEMMA FilesMove ==
  ASSUME Safe, Safe', CallInv, ContextInv, CourseInv, MeetInv, CommInv, FilesInv, [Next]_allVars,
         NEW r \in Ranks, Acts(r), ~parseOnly,
         NEW o \in Nodes, NEW n, NEW x, Opens(program, o, n), IsPlace(program, n, x),
         Reaches(program, r, x), Ahead(program, o, x, Position(r)')
  PROVE  /\ Stmt(o).arg \in DOMAIN vars'[r]
         /\ vars'[r][Stmt(o).arg] = FileVar(LexicalComm(program, r, o))
<1>1. Goes(r) /\ program' = program
  BY ActsGo
<1>2. PICK z, y : z = Position(r) /\ y = Position(r)'
  OBVIOUS
<1>3. /\ program \in Programs /\ Nodes = NodesOf(program)
      /\ IsPosition(program, z) /\ IsPosition(program, y) /\ Blocks(program, z)
  <2>1. PositionFacts(r) /\ PositionFacts(r)'
    BY Positions, NextPositions
  <2>. QED BY <1>1, <1>2, <2>1, ProgramTypes, PlaceOf DEF PositionFacts, Safe
<1>4. PICK t : /\ IsTop(z, t)
               /\ \/ MovesOver(program, r, t, z, y) \/ MovesInto(program, r, t, z, y)
                  \/ MovesBack(program, r, t, z, y) \/ MovesOut(program, r, t, z, y)
  <2>1. Moves(program, r, z, y)
    BY <1>1, <1>2, GoMoves DEF Going
  <2>. QED BY <2>1 DEF Moves
<1>5. /\ Stmt(o).type = "PFOPEN" /\ Stmt(o).arg = Stmt(n).arg /\ TypeOf(program, o) \notin BlockTypes
      /\ \A m \in Nodes :
           m > o /\ Stmt(m).arg = Stmt(n).arg /\ Stmt(m).type \in {"PFOPEN", "PFCLOSE", "REPEAT"}
             => /\ m >= n
                /\ {a \in LoopsAround(program, n) : a > o} \cap Around(program, m) = {}
  <2>1. Stmt(o).type = "PFOPEN" /\ Stmt(o).arg = Stmt(n).arg
    BY DEF Opens, Stmt
  <2>2. TypeOf(program, o) \notin BlockTypes
    BY <2>1 DEF Stmt, TypeOf, BlockTypes
  <2>3. ASSUME NEW m \in Nodes, m > o, Stmt(m).arg = Stmt(n).arg,
               Stmt(m).type \in {"PFOPEN", "PFCLOSE", "REPEAT"}
        PROVE  /\ m >= n
               /\ {a \in LoopsAround(program, n) : a > o} \cap Around(program, m) = {}
    <3>1. m \in DOMAIN program.kernel.stmt
      BY <1>3 DEF NodesOf
    <3>. QED BY <2>3, <3>1 DEF Opens, Stmt
  <2>. QED BY <2>1, <2>2, <2>3
<1>6. /\ x # z
      /\ \/ z[t].next = o /\ MovesOver(program, r, t, z, y)
         \/ /\ Ahead(program, o, x, z)
            /\ z[t].next # Past(program) => o < z[t].next
            /\ z[t].next = Past(program) => o < t
  BY <1>2, <1>3, <1>4, <1>5, AheadBefore
<1>7. CASE z[t].next = o
  <2>1. IsNext(r, o)
    BY <1>2, <1>4, <1>7, TopNext
  <2>2. o = Current(r)
    BY <2>1, CurrentIs DEF IsNext, Safe
  <2>3. /\ mpi[r] # NoCall /\ Stmt(o).arg \in DOMAIN vars'[r]
        /\ vars'[r][Stmt(o).arg] = FileVar(mpi[r].comm)
    BY <1>5, <2>1, ActsVars
  <2>4. Stmt(o).type \notin FileTypes
    BY <1>5 DEF FileTypes
  <2>5. mpi[r].comm = CommAt(program, r, o)
    BY <2>2, <2>3, <2>4 DEF CommInv
  <2>6. CommAt(program, r, o) = LexicalComm(program, r, o)
    BY <1>5, <2>4 DEF CommAt, Stmt
  <2>. QED BY <2>3, <2>5, <2>6
<1>8. CASE /\ Ahead(program, o, x, z)
           /\ z[t].next # Past(program) => o < z[t].next
           /\ z[t].next = Past(program) => o < t
  <2>. DEFINE v == Stmt(o).arg
  <2>1. v \in DOMAIN vars[r] /\ vars[r][v] = FileVar(LexicalComm(program, r, o))
    BY <1>2, <1>8 DEF FilesInv
  <2>2. ASSUME NEW m \in Nodes, Stmt(m).type \in {"PFOPEN", "PFCLOSE", "REPEAT"}, Stmt(m).arg = v,
               IsNext(r, m) \/ (Pending(r) = {} /\ frames[r][1].node = m)
        PROVE  FALSE
    <3>1. m = z[t].next \/ (m = t /\ z[t].next = Past(program))
      BY <1>2, <1>4, <2>2, TopNext
    <3>2. m # Past(program)
      BY <1>3, TreeTypes
    <3>3. o < m /\ o \in Nat /\ m \in Nat
      BY <1>3, <1>8, <3>1, <3>2, TreeTypes
    <3>4. m > o
      BY <3>3
    <3>5. m >= n /\ {a \in LoopsAround(program, n) : a > o} \cap Around(program, m) = {}
      BY <1>5, <2>2, <3>4
    <3>6. PICK a \in LoopsAround(program, n) : o < a /\ a \in Around(program, m)
      BY <1>3, <1>4, <1>6, <1>8, <3>1, <3>5, NotBetween
    <3>7. a \in Nat
      BY <1>3, <3>6, AroundTypes, TreeTypes
    <3>8. a > o
      BY <3>3, <3>6, <3>7
    <3>. QED BY <3>5, <3>6, <3>8
  <2>3. v \in DOMAIN vars'[r] /\ vars'[r][v] = vars[r][v]
    BY <2>1, <2>2, ActsVars
  <2>. QED BY <2>1, <2>3
<1>. QED BY <1>6, <1>7, <1>8

LEMMA FilesStep ==
  ASSUME Safe, Safe', CallInv, ContextInv, CourseInv, MeetInv, CommInv, FilesInv, [Next]_allVars
  PROVE  FilesInv'
<1>1. ASSUME program' = program, NEW r \in Ranks, frames'[r] = frames[r], vars'[r] = vars[r], ~parseOnly,
             NEW o \in Nodes, NEW n, NEW x, Opens(program, o, n), IsPlace(program, n, x),
             Reaches(program, r, x), Ahead(program, o, x, Position(r)')
      PROVE  /\ Stmt(o).arg \in DOMAIN vars'[r]
             /\ vars'[r][Stmt(o).arg] = FileVar(LexicalComm(program, r, o))
  <2>1. Position(r)' = Position(r)
    BY <1>1, SamePosition
  <2>. QED BY <1>1, <2>1 DEF FilesInv
<1>2. CASE Idle
  <2>1. program' = program /\ frames' = frames /\ vars' = vars
    BY <1>2, IdleSteps
  <2>. QED BY <1>1, <2>1 DEF FilesInv, parseOnly, Nodes, Stmt
<1>3. ASSUME NEW s \in Ranks, Acts(s)
      PROVE  FilesInv'
  <2>1. program' = program /\ \A q \in Ranks \ {s} : frames'[q] = frames[q]
    BY <1>3, ActsGo
  <2>2. \A q \in Ranks \ {s} : vars'[q] = vars[q]
    BY <1>3, ActsVars
  <2>3. ASSUME NEW r \in Ranks, ~parseOnly,
               NEW o \in Nodes, NEW n, NEW x, Opens(program, o, n), IsPlace(program, n, x),
               Reaches(program, r, x), Ahead(program, o, x, Position(r)')
        PROVE  /\ Stmt(o).arg \in DOMAIN vars'[r]
               /\ vars'[r][Stmt(o).arg] = FileVar(LexicalComm(program, r, o))
    <3>1. CASE r = s
      BY <1>3, <2>3, <3>1, FilesMove
    <3>2. CASE r # s
      BY <1>1, <2>1, <2>2, <2>3, <3>2
    <3>. QED BY <3>1, <3>2
  <2>. QED BY <2>1, <2>3 DEF FilesInv, parseOnly, Nodes, Stmt
<1>. QED BY <1>2, <1>3, StepKinds

-------------------------------------------------------------------------------
(* How often a node is executed.                                                *)

\* The function Executions is defined by.
IsTimes(p, r, n, f) ==
  f = [m \in 1 .. n |-> IF ParentOf(p, m) = 0 THEN 1 ELSE f[ParentOf(p, m)] * Rounds(p, r, ParentOf(p, m))]

LEMMA TimesUnique ==
  ASSUME NEW p \in Programs, NEW r, NEW n \in NodesOf(p), NEW f, NEW g, IsTimes(p, r, n, f), IsTimes(p, r, n, g)
  PROVE  f = g
<1>. DEFINE D == {m \in 1 .. n : f[m] # g[m]}
<1>1. /\ \A m \in 1 .. n : f[m] = IF ParentOf(p, m) = 0 THEN 1
                                  ELSE f[ParentOf(p, m)] * Rounds(p, r, ParentOf(p, m))
      /\ \A m \in 1 .. n : g[m] = IF ParentOf(p, m) = 0 THEN 1
                                  ELSE g[ParentOf(p, m)] * Rounds(p, r, ParentOf(p, m))
      /\ f = [m \in 1 .. n |-> f[m]] /\ g = [m \in 1 .. n |-> g[m]]
  BY DEF IsTimes
<1>2. D = {}
  <2>1. SUFFICES ASSUME D # {} PROVE FALSE
    OBVIOUS
  <2>2. PICK m \in D : \A k \in D : m <= k
    <3>1. D \subseteq Nat
      BY TreeTypes
    <3>. HIDE DEF D
    <3>. QED BY <2>1, <3>1, Least
  <2>3. m \in 1 .. n /\ m \in NodesOf(p)
    BY TreeTypes
  <2>4. ParentOf(p, m) # 0
    BY <1>1, <2>3
  <2>5. ParentOf(p, m) \in 1 .. n /\ ParentOf(p, m) < m /\ m \in Nat /\ ParentOf(p, m) \in Nat
    BY <2>3, <2>4, TreeTypes
  <2>6. ParentOf(p, m) \notin D
    <3>. HIDE DEF D
    <3>. QED BY <2>2, <2>5
  <2>7. f[ParentOf(p, m)] = g[ParentOf(p, m)]
    BY <2>5, <2>6
  <2>. QED BY <1>1, <2>7
<1>. QED BY <1>1, <1>2

LEMMA TimesExist ==
  ASSUME NEW p \in Programs, NEW r, NEW n \in NodesOf(p)
  PROVE  \E f : IsTimes(p, r, n, f)
<1>. DEFINE D == {k \in NodesOf(p) : ~\E f : IsTimes(p, r, k, f)}
            Value(f, m) == IF ParentOf(p, m) = 0 THEN 1 ELSE f[ParentOf(p, m)] * Rounds(p, r, ParentOf(p, m))
<1>1. SUFFICES ASSUME D # {} PROVE FALSE
  OBVIOUS
<1>2. PICK k \in D : \A m \in D : k <= m
  <2>1. D \subseteq Nat
    BY TreeTypes
  <2>. HIDE DEF D
  <2>. QED BY <1>1, <2>1, Least
<1>3. k \in NodesOf(p) /\ k \in Nat /\ k > 0
  BY TreeTypes
<1>4. PICK f : \A m \in 1 .. k - 1 : f[m] = Value(f, m)
  <2>1. CASE k = 1
    <3>. WITNESS {}
    <3>. QED BY <2>1
  <2>2. CASE k # 1
    <3>1. k - 1 \in NodesOf(p)
      BY <1>3, <2>2, TreeTypes
    <3>2. k - 1 \notin D
      <4>. HIDE DEF D
      <4>. QED BY <1>2, <1>3
    <3>3. PICK f : IsTimes(p, r, k - 1, f)
      BY <3>1, <3>2
    <3>4. \A m \in 1 .. k - 1 : f[m] = Value(f, m)
      BY <3>3 DEF IsTimes
    <3>. QED BY <3>4
  <2>. QED BY <2>1, <2>2
<1>. DEFINE g == [m \in 1 .. k |-> Value(f, m)]
<1>5. \A m \in 1 .. k : ParentOf(p, m) # 0 => ParentOf(p, m) \in 1 .. k - 1
  <2>. TAKE m \in 1 .. k
  <2>1. m \in NodesOf(p)
    <3>1. PICK top \in Nat : NodesOf(p) = 1 .. top
      BY TreeTypes
    <3>. QED BY <1>3, <3>1
  <2>. QED BY <1>3, <2>1, TreeTypes
<1>6. \A m \in 1 .. k - 1 : g[m] = f[m]
  <2>1. \A m \in 1 .. k - 1 : m \in 1 .. k
    BY <1>3
  <2>. QED BY <1>4, <2>1
<1>7. g = [m \in 1 .. k |-> Value(g, m)]
  <2>1. g = [m \in 1 .. k |-> g[m]] /\ \A m \in 1 .. k : g[m] = Value(f, m)
    OBVIOUS
  <2>. HIDE DEF g
  <2>2. \A m \in 1 .. k : g[m] = Value(g, m)
    BY <1>5, <1>6, <2>1
  <2>. HIDE DEF Value
  <2>. QED BY <2>1, <2>2
<1>8. IsTimes(p, r, k, g)
  <2>. HIDE DEF g
  <2>. QED BY <1>7 DEF IsTimes
<1>. QED BY <1>2, <1>8

LEMMA TimesIs ==
  ASSUME NEW p \in Programs, NEW r, NEW n \in NodesOf(p), NEW m \in 1 .. n, NEW f, IsTimes(p, r, n, f)
  PROVE  Executions(p, r, m) = f[m]
<1>. DEFINE times == CHOOSE g : IsTimes(p, r, m, g)
            g == [k \in 1 .. m |-> f[k]]
<1>1. m \in NodesOf(p) /\ n \in Nat /\ m \in Nat /\ m <= n
  BY TreeTypes
<1>2. \A k \in 1 .. m : ParentOf(p, k) # 0 => ParentOf(p, k) \in 1 .. m
  <2>. TAKE k \in 1 .. m
  <2>1. k \in NodesOf(p)
    BY <1>1, TreeTypes
  <2>. QED BY <1>1, <2>1, TreeTypes
<1>3. \A k \in 1 .. m : g[k] = IF ParentOf(p, k) = 0 THEN 1 ELSE g[ParentOf(p, k)] * Rounds(p, r, ParentOf(p, k))
  <2>1. \A k \in 1 .. n : f[k] = IF ParentOf(p, k) = 0 THEN 1
                                 ELSE f[ParentOf(p, k)] * Rounds(p, r, ParentOf(p, k))
    BY DEF IsTimes
  <2>2. \A k \in 1 .. m : k \in 1 .. n
    BY <1>1
  <2>3. \A k \in 1 .. m : g[k] = f[k]
    OBVIOUS
  <2>. HIDE DEF g
  <2>. QED BY <1>2, <2>1, <2>2, <2>3
<1>4. IsTimes(p, r, m, g)
  <2>1. g = [k \in 1 .. m |-> g[k]]
    OBVIOUS
  <2>. HIDE DEF g
  <2>. QED BY <1>3, <2>1 DEF IsTimes
<1>5. IsTimes(p, r, m, times)
  <2>. HIDE DEF g
  <2>. QED BY <1>4
<1>6. Executions(p, r, m) = times[m]
  BY DEF Executions, IsTimes, ParentOf
<1>7. times = g
  <2>. HIDE DEF times, g
  <2>. QED BY <1>1, <1>4, <1>5, TimesUnique
<1>8. g[m] = f[m]
  BY <1>1
<1>. HIDE DEF times, g
<1>. QED BY <1>6, <1>7, <1>8

\* As often as the block it is in, times the iterations of that.
LEMMA ExecutionsOf ==
  ASSUME NEW p \in Programs, NEW r, NEW n \in NodesOf(p)
  PROVE  Executions(p, r, n) = IF ParentOf(p, n) = 0 THEN 1
                               ELSE Executions(p, r, ParentOf(p, n)) * Rounds(p, r, ParentOf(p, n))
<1>1. PICK f : IsTimes(p, r, n, f)
  BY TimesExist
<1>2. n \in 1 .. n /\ (ParentOf(p, n) # 0 => ParentOf(p, n) \in 1 .. n)
  BY TreeTypes
<1>3. Executions(p, r, n) = f[n] /\ (ParentOf(p, n) # 0 => Executions(p, r, ParentOf(p, n)) = f[ParentOf(p, n)])
  BY <1>1, <1>2, TimesIs
<1>4. f[n] = IF ParentOf(p, n) = 0 THEN 1 ELSE f[ParentOf(p, n)] * Rounds(p, r, ParentOf(p, n))
  BY <1>1, <1>2 DEF IsTimes
<1>. QED BY <1>3, <1>4

LEMMA Products ==
  /\ \A i, j \in Nat : i * j \in Nat
  /\ \A i, j \in Nat : i * j > 0 <=> i > 0 /\ j > 0
OBVIOUS

\* A node is executed iff all the blocks around it are.
LEMMA ExecutionsTypes ==
  ASSUME NEW p \in Programs, NEW r \in Ranks, NEW n \in NodesOf(p)
  PROVE  /\ Executions(p, r, n) \in Nat
         /\ Executions(p, r, n) > 0 <=> \A a \in Around(p, n) : Rounds(p, r, a) > 0
<1>. DEFINE Good(m) == /\ Executions(p, r, m) \in Nat
                       /\ Executions(p, r, m) > 0 <=> \A a \in Around(p, m) : Rounds(p, r, a) > 0
            D == {m \in NodesOf(p) : ~Good(m)}
<1>1. SUFFICES ASSUME D # {} PROVE FALSE
  OBVIOUS
<1>2. PICK m \in D : \A k \in D : m <= k
  <2>1. D \subseteq Nat
    BY TreeTypes
  <2>. HIDE DEF D
  <2>. QED BY <1>1, <2>1, Least
<1>. DEFINE e == ParentOf(p, m)
<1>3. m \in NodesOf(p) /\ e < m /\ e \in Nat /\ m \in Nat
  BY TreeTypes
<1>4. /\ Executions(p, r, m) = IF e = 0 THEN 1 ELSE Executions(p, r, e) * Rounds(p, r, e)
      /\ Around(p, m) = IF e = 0 THEN {} ELSE {e} \cup Around(p, e)
  BY <1>3, ExecutionsOf, AroundOf
<1>5. CASE e = 0
  BY <1>4, <1>5
<1>6. CASE e # 0
  <2>1. e \in NodesOf(p) /\ Rounds(p, r, e) \in Nat
    BY <1>3, <1>6, TreeTypes, RoundsTypes
  <2>2. Good(e)
    <3>1. e \notin D
      <4>. HIDE DEF D, e
      <4>. QED BY <1>2, <1>3
    <3>. HIDE DEF e, Good
    <3>. QED BY <2>1, <3>1
  <2>. HIDE DEF e
  <2>3. PICK i, j : i = Executions(p, r, e) /\ j = Rounds(p, r, e)
    OBVIOUS
  <2>4. /\ i \in Nat /\ j \in Nat /\ i * j \in Nat /\ (i * j > 0 <=> i > 0 /\ j > 0)
        /\ Executions(p, r, m) = i * j
    BY <1>4, <1>6, <2>1, <2>2, <2>3, Products
  <2>5. i * j > 0 <=> \A a \in Around(p, m) : Rounds(p, r, a) > 0
    BY <1>4, <1>6, <2>2, <2>3, <2>4
  <2>. QED BY <2>4, <2>5
<1>. QED BY <1>5, <1>6

\* The communicator at a node is the world, or that of a group around the node.
LEMMA LexicalIs ==
  ASSUME NEW p \in Programs, NEW n \in NodesOf(p)
  PROVE  \/ \A r : LexicalComm(p, r, n) = World
         \/ \E a \in Around(p, n) : /\ TypeOf(p, a) = "GROUP"
                                    /\ \A r : LexicalComm(p, r, n) = CommOf(r, p.kernel.stmt[a].arg)
<1>. DEFINE Good(m) ==
              \/ \A r : LexicalComm(p, r, m) = World
              \/ \E a \in Around(p, m) : /\ TypeOf(p, a) = "GROUP"
                                         /\ \A r : LexicalComm(p, r, m) = CommOf(r, p.kernel.stmt[a].arg)
            D == {m \in NodesOf(p) : ~Good(m)}
<1>1. SUFFICES ASSUME D # {} PROVE FALSE
  OBVIOUS
<1>2. PICK m \in D : \A k \in D : m <= k
  <2>1. D \subseteq Nat
    BY TreeTypes
  <2>. HIDE DEF D
  <2>. QED BY <1>1, <2>1, Least
<1>. DEFINE e == ParentOf(p, m)
<1>3. m \in NodesOf(p) /\ e < m /\ e \in Nat /\ m \in Nat
  BY TreeTypes
<1>4. /\ Around(p, m) = IF e = 0 THEN {} ELSE {e} \cup Around(p, e)
      /\ \A r : LexicalComm(p, r, m) = IF e = 0 THEN World
                                       ELSE IF TypeOf(p, e) = "GROUP" THEN CommOf(r, p.kernel.stmt[e].arg)
                                       ELSE LexicalComm(p, r, e)
  BY <1>3, AroundOf, LexicalOf
<1>5. CASE e = 0
  BY <1>4, <1>5
<1>6. CASE e # 0 /\ TypeOf(p, e) = "GROUP"
  <2>. HIDE DEF e
  <2>1. e \in Around(p, m)
    BY <1>4, <1>6
  <2>2. Good(m)
    BY <1>4, <1>6, <2>1
  <2>. QED BY <2>2
<1>7. CASE e # 0 /\ TypeOf(p, e) # "GROUP"
  <2>1. e \in NodesOf(p)
    BY <1>3, <1>7, TreeTypes
  <2>2. Good(e)
    <3>1. e \notin D
      <4>. HIDE DEF D, e
      <4>. QED BY <1>2, <1>3
    <3>. HIDE DEF e, Good
    <3>. QED BY <2>1, <3>1
  <2>. HIDE DEF e
  <2>3. Good(m)
    BY <1>4, <1>7, <2>2
  <2>. QED BY <2>3
<1>. QED BY <1>5, <1>6, <1>7

\* All ranks of the communicator of a statement have that communicator there.
LEMMA GroupComms ==
  ASSUME NEW r \in Ranks, NEW g \in GroupNames, NEW q \in CommOf(r, g).ranks
  PROVE  CommOf(q, g) = CommOf(r, g) /\ q \in Ranks
<1>1. CASE r \in Members[g]
  BY <1>1, MembersAssumption DEF CommOf
<1>2. CASE r \notin Members[g]
  BY <1>2 DEF CommOf, Self
<1>. QED BY <1>1, <1>2

\* A statement that a rank reaches is executed, and all blocks around it.
LEMMA ReachedIsExecuted ==
  ASSUME NEW p \in Programs, NEW r \in Ranks, NEW n, NEW x, IsPlace(p, n, x), Reaches(p, r, x)
  PROVE  /\ n \in NodesOf(p) /\ Around(p, n) = DOMAIN x \ {0}
         /\ Executions(p, r, n) > 0 /\ \A a \in Around(p, n) : Rounds(p, r, a) > 0
<1>1. IsPosition(p, x) /\ n \in NodesOf(p) /\ Around(p, n) = DOMAIN x \ {0}
  BY PlaceTypes
<1>2. ASSUME NEW a \in Around(p, n) PROVE Rounds(p, r, a) > 0
  <2>1. a \in DOMAIN x \ {0} /\ x[a].round \in Nat /\ x[a].round < Rounds(p, r, a)
    BY <1>1, <1>2, PositionTypes DEF Reaches
  <2>2. Rounds(p, r, a) \in Nat
    BY <1>1, <1>2, AroundTypes, RoundsTypes
  <2>. QED BY <2>1, <2>2
<1>. QED BY <1>1, <1>2, ExecutionsTypes

\* The same for what is around an opener.
LEMMA AroundOpener ==
  ASSUME NEW p \in Programs, NEW o \in NodesOf(p), NEW n \in NodesOf(p), Opens(p, o, n)
  PROVE  Around(p, o) \subseteq Around(p, n)
<1>. DEFINE e == ParentOf(p, o)
<1>1. e \in Around(p, n) \cup {0}
  BY DEF Opens, ParentOf
<1>2. Around(p, o) = IF e = 0 THEN {} ELSE {e} \cup Around(p, e)
  BY AroundOf
<1>. HIDE DEF e
<1>3. ASSUME NEW m \in NodesOf(p), NEW b \in Around(p, m)
      PROVE  Around(p, b) \subseteq Around(p, m)
  <2>. DEFINE F == {k \in NodesOf(p) : \E d \in Around(p, k) : ~(Around(p, d) \subseteq Around(p, k))}
  <2>1. SUFFICES ASSUME F # {} PROVE FALSE
    BY <1>3
  <2>2. PICK k \in F : \A i \in F : k <= i
    <3>1. F \subseteq Nat
      BY TreeTypes
    <3>. HIDE DEF F
    <3>. QED BY <2>1, <3>1, Least
  <2>3. k \in NodesOf(p) /\ k \in Nat
    BY TreeTypes
  <2>4. PICK d \in Around(p, k) : ~(Around(p, d) \subseteq Around(p, k))
    OBVIOUS
  <2>5. /\ ParentOf(p, k) # 0 /\ Around(p, k) = {ParentOf(p, k)} \cup Around(p, ParentOf(p, k))
    BY <2>3, <2>4, AroundOf
  <2>6. ParentOf(p, k) \in NodesOf(p) /\ ParentOf(p, k) < k /\ ParentOf(p, k) \in Nat
    BY <2>3, <2>5, TreeTypes
  <2>7. ParentOf(p, k) \notin F
    <3>. HIDE DEF F
    <3>. QED BY <2>2, <2>3, <2>6
  <2>8. \A i \in Around(p, ParentOf(p, k)) : Around(p, i) \subseteq Around(p, ParentOf(p, k))
    BY <2>6, <2>7
  <2>. QED BY <2>4, <2>5, <2>8
<1>. QED BY <1>1, <1>2, <1>3

\* In a balanced kernel a collective statement that a rank reaches is reached by all ranks
\* of its communicator.
LEMMA PartnersReach ==
  ASSUME NEW p \in Programs, Balanced(p), NEW r \in Ranks, NEW n, NEW x, IsPlace(p, n, x),
         CollectiveAt(p, n), Reaches(p, r, x), NEW q \in CommAt(p, r, n).ranks
  PROVE  /\ q \in Ranks /\ Reaches(p, q, x) /\ CommAt(p, q, n) = CommAt(p, r, n)
         /\ TypeOf(p, n) \in FileTypes => \E o \in NodesOf(p) : Opens(p, o, n)
<1>. DEFINE s == p.kernel.stmt[n]
            m == IF s.type \in FileTypes THEN OpenerOf(p, n) ELSE n
<1>1. /\ n \in NodesOf(p) /\ Around(p, n) = DOMAIN x \ {0}
      /\ Executions(p, r, n) > 0 /\ \A a \in Around(p, n) : Rounds(p, r, a) > 0
  BY ReachedIsExecuted
<1>2. Partners(p, r, n) = CommAt(p, r, n).ranks
  BY DEF Partners, CommAt, World
<1>3. /\ Legal(p, r, n)
      /\ Executions(p, q, n) > 0
      /\ \A a \in LoopsAround(p, n) : TimesOf(p.kernel.stmt[a], q) = TimesOf(p.kernel.stmt[a], r)
  BY <1>1, <1>2 DEF Balanced, NodesOf
<1>4. TypeOf(p, n) \in FileTypes => \E o \in NodesOf(p) : Opens(p, o, n)
  BY <1>3 DEF Legal, CollectiveAt, FileTypes, TypeOf, NodesOf
<1>5. q \in Ranks /\ CommAt(p, q, n) = CommAt(p, r, n)
  <2>1. CASE s.type = "BARRIER" /\ s.arg # ""
    <3>1. s.arg = "world" \/ s.arg \in GroupNames
      BY <1>3, <2>1 DEF Legal
    <3>2. CASE s.arg = "world"
      BY <2>1, <3>2 DEF CommAt, World
    <3>3. CASE s.arg # "world"
      <4>1. CommAt(p, r, n) = CommOf(r, s.arg) /\ CommAt(p, q, n) = CommOf(q, s.arg)
        BY <2>1, <3>3 DEF CommAt
      <4>. QED BY <3>1, <3>3, <4>1, GroupComms
    <3>. QED BY <3>2, <3>3
  <2>2. CASE ~(s.type = "BARRIER" /\ s.arg # "")
    <3>1. CommAt(p, r, n) = LexicalComm(p, r, m) /\ CommAt(p, q, n) = LexicalComm(p, q, m)
      BY <2>2 DEF CommAt
    <3>2. m \in NodesOf(p) /\ Around(p, m) \subseteq Around(p, n)
      <4>1. CASE s.type \in FileTypes
        <5>1. PICK o : o = OpenerOf(p, n)
          OBVIOUS
        <5>2. o \in NodesOf(p) /\ Opens(p, o, n)
          BY <1>4, <4>1, <5>1 DEF OpenerOf, NodesOf, TypeOf
        <5>. QED BY <1>1, <4>1, <5>1, <5>2, AroundOpener
      <4>. QED BY <1>1, <4>1
    <3>. HIDE DEF m
    <3>3. CASE \A i : LexicalComm(p, i, m) = World
      BY <3>1, <3>3 DEF World
    <3>4. ASSUME NEW a \in Around(p, m), TypeOf(p, a) = "GROUP",
                 \A i : LexicalComm(p, i, m) = CommOf(i, p.kernel.stmt[a].arg)
          PROVE  q \in Ranks /\ CommAt(p, q, n) = CommAt(p, r, n)
      <4>1. Rounds(p, r, a) > 0
        BY <1>1, <3>2, <3>4
      <4>2. p.kernel.stmt[a].arg \in GroupNames
        BY <3>4, <4>1 DEF Rounds, TypeOf
      <4>. QED BY <3>1, <3>4, <4>2, GroupComms
    <3>. QED BY <3>2, <3>3, <3>4, LexicalIs
  <2>. QED BY <2>1, <2>2
<1>6. ASSUME NEW a \in DOMAIN x \ {0}
      PROVE  x[a].round < Rounds(p, q, a)
  <2>1. a \in Around(p, n) /\ a \in NodesOf(p)
    BY <1>1, AroundTypes
  <2>2. x[a].round < Rounds(p, r, a) /\ x[a].round \in Nat
    BY PlaceTypes, PositionTypes DEF Reaches
  <2>3. CASE TypeOf(p, a) = "REPEAT"
    <3>1. TimesOf(p.kernel.stmt[a], q) = TimesOf(p.kernel.stmt[a], r)
      BY <1>3, <2>1, <2>3 DEF LoopsAround, TypeOf
    <3>2. Rounds(p, q, a) = Rounds(p, r, a)
      BY <2>3, <3>1 DEF Rounds, TypeOf
    <3>. QED BY <2>2, <3>2
  <2>4. CASE TypeOf(p, a) # "REPEAT"
    <3>1. Rounds(p, q, a) > 0 /\ Rounds(p, q, a) \in Nat
      BY <1>1, <1>3, <1>5, <2>1, ExecutionsTypes, RoundsTypes
    <3>2. Rounds(p, r, a) \in Nat /\ ~(Rounds(p, r, a) > 1)
      BY <2>1, <2>4, RoundsTypes
    <3>. QED BY <2>2, <3>1, <3>2
  <2>. QED BY <2>3, <2>4
<1>7. Reaches(p, q, x)
  BY <1>6 DEF Reaches
<1>. QED BY <1>4, <1>5, <1>7

-------------------------------------------------------------------------------
(* Meetings.                                                                    *)

\* Rank r has passed place x: it has gone on from there, or the call it made there has
\* returned.
Passed(r, x) == Before(x, Position(r)) \/ (mpi[r].returned /\ x = Position(r))

\* Ranks that have to meet at a place have all passed it, or none has.
TogetherInv ==
  Balanced(program) => \A r \in Ranks : \A n, x :
    IsPlace(program, n, x) /\ CollectiveAt(program, n) /\ Reaches(program, r, x)
      => \A q \in CommAt(program, r, n).ranks : Passed(r, x) <=> Passed(q, x)

MeetingInv == CallInv /\ ContextInv /\ CourseInv /\ MeetInv /\ CommInv /\ FilesInv

\* The place of a rank that is in a call.
LEMMA CallPlace ==
  ASSUME Safe, MeetingInv, Balanced(program), NEW r \in Ranks, mpi[r] # NoCall
  PROVE  LET n == Current(r) IN
         /\ CallAt(r, n) /\ IsPlace(program, n, Position(r)) /\ Reaches(program, r, Position(r))
         /\ mpi[r].comm = CommAt(program, r, n) /\ n \in Nodes
<1>. DEFINE n == Current(r)
<1>1. program \in Programs /\ Nodes = NodesOf(program) /\ n \in Nodes
  BY ProgramTypes, CurrentTypes DEF Safe, MeetingInv
<1>2. CallAt(r, n) /\ IsNext(r, n)
  BY CurrentIs DEF MeetingInv, MeetInv, CallInv, IsNext, Safe
<1>3. Stmt(n).type \notin BlockTypes
  BY <1>2 DEF CallAt, CollectiveAt, Stmt, BlockTypes, ParallelTypes, OpeningTypes, FileTypes
<1>4. IsPlace(program, n, Position(r)) /\ Reaches(program, r, Position(r))
  BY <1>2, <1>3, PlaceOf DEF MeetingInv
<1>5. Stmt(n).type \in FileTypes => \E o \in Nodes : Opens(program, o, n)
  <2>1. r \in Ranks /\ CollectiveAt(program, n) /\ Executions(program, r, n) > 0
    BY <1>1, <1>2, <1>4, ReachedIsExecuted DEF CallAt
  <2>2. Legal(program, r, n)
    BY <1>1, <2>1 DEF Balanced, NodesOf
  <2>. QED BY <1>1, <2>1, <2>2 DEF Legal, CollectiveAt, Stmt, FileTypes, NodesOf
<1>6. mpi[r].comm = CommAt(program, r, n)
  BY <1>5 DEF MeetingInv, CommInv
<1>. QED BY <1>1, <1>2, <1>4, <1>6

LEMMA CommRanks ==
  ASSUME Types, NEW r \in Ranks, NEW q \in mpi[r].comm.ranks
  PROVE  q \in Ranks
<1>1. mpi[r].comm \in Comms \cup {NoCall.comm}
  BY DEF Types, MPICalls
<1>2. \A comm \in Comms : comm.ranks \subseteq Ranks
  BY MembersAssumption DEF Comms, World, Self
<1>. QED BY <1>1, <1>2 DEF NoCall

\* Ranks that have met are at one place, in one statement.
LEMMA MetAtPlace ==
  ASSUME Safe, MeetingInv, TogetherInv, Balanced(program),
         NEW r \in Ranks, mpi[r].op # "none", Met(mpi[r].comm), NEW q \in mpi[r].comm.ranks
  PROVE  /\ q \in Ranks /\ mpi[r] # NoCall /\ mpi[q] # NoCall
         /\ mpi[q].comm = mpi[r].comm
         /\ Position(q) = Position(r) /\ Current(q) = Current(r)
<1>1. mpi[r] # NoCall /\ r \in mpi[r].comm.ranks
  BY DEF NoCall, MeetingInv, CallInv
<1>2. /\ q \in Ranks /\ mpi[q].comm = mpi[r].comm /\ mpi[q].op = mpi[r].op
      /\ ~mpi[r].returned /\ ~mpi[q].returned /\ mpi[q] # NoCall
  BY <1>1, CommRanks DEF Met, Safe, NoCall
<1>3. PICK n, m, x, y : n = Current(r) /\ m = Current(q) /\ x = Position(r) /\ y = Position(q)
  OBVIOUS
<1>4. /\ CollectiveAt(program, n) /\ IsPlace(program, n, x) /\ Reaches(program, r, x)
      /\ mpi[r].comm = CommAt(program, r, n)
  BY <1>1, <1>3, CallPlace DEF CallAt
<1>5. /\ CollectiveAt(program, m) /\ IsPlace(program, m, y) /\ Reaches(program, q, y)
      /\ mpi[q].comm = CommAt(program, q, m)
  BY <1>2, <1>3, CallPlace DEF CallAt
<1>6. program \in Programs
  BY ProgramTypes DEF Safe
<1>7. ~Before(x, x) /\ ~Before(y, y)
  BY <1>4, <1>5, <1>6, NotBeforeItself, PlaceTypes
<1>8. ~Before(x, y)
  <2>1. Passed(r, x) <=> Passed(q, x)
    BY <1>4 DEF TogetherInv
  <2>. QED BY <1>2, <1>3, <1>7, <2>1 DEF Passed
<1>9. ~Before(y, x)
  <2>1. Passed(q, y) <=> Passed(r, y)
    BY <1>1, <1>2, <1>5 DEF TogetherInv
  <2>. QED BY <1>2, <1>3, <1>7, <2>1 DEF Passed
<1>10. x = y /\ n = m
  BY <1>4, <1>5, <1>6, <1>8, <1>9, Comparable
<1>. QED BY <1>1, <1>2, <1>3, <1>10

\* A move passes no place where ranks meet, unless the call made there has returned.
LEMMA MovesTogether ==
  ASSUME Safe, Safe', MeetingInv, [Next]_allVars, NEW r \in Ranks, Acts(r),
         NEW n, NEW x, IsPlace(program, n, x), CollectiveAt(program, n), Reaches(program, r, x)
  PROVE  Passed(r, x)' <=> Passed(r, x)
<1>1. /\ Goes(r) /\ program' = program /\ mpi'[r] = NoCall
      /\ \/ mpi[r].returned
         \/ mpi[r] = NoCall /\ \A c : IsNext(r, c) => ~CollectiveAt(program, c)
  BY ActsGo DEF MeetingInv
<1>2. program \in Programs /\ IsPosition(program, Position(r)) /\ IsPosition(program, Position(r)')
  <2>1. PositionFacts(r) /\ PositionFacts(r)'
    BY Positions, NextPositions
  <2>. QED BY <1>1, <2>1, ProgramTypes DEF PositionFacts, Safe
<1>3. Before(x, Position(r)') <=> Before(x, Position(r)) \/ x = Position(r)
  <2>1. Moves(program, r, Position(r), Position(r)')
    BY <1>1, GoMoves DEF Going, MeetingInv
  <2>. QED BY <1>2, <2>1, BeforeMoves
<1>4. Passed(r, x)' <=> Before(x, Position(r)')
  BY <1>1 DEF Passed, NoCall, Before, Agree, Earlier
<1>5. mpi[r].returned \/ x # Position(r)
  <2>. SUFFICES ASSUME mpi[r] = NoCall, \A c : IsNext(r, c) => ~CollectiveAt(program, c), x = Position(r)
                PROVE  FALSE
    BY <1>1
  <2>1. IsTop(x, ParentOf(program, n)) /\ x[ParentOf(program, n)].next = n /\ n \in NodesOf(program)
    BY <1>2, PlaceTypes DEF IsTop
  <2>2. IsNext(r, n)
    BY <2>1, TopNext, ProgramTypes DEF Safe
  <2>. QED BY <2>2
<1>. QED BY <1>3, <1>4, <1>5 DEF Passed

\* A rank is in the communicator of a statement it reaches.
LEMMA OwnComm ==
  ASSUME NEW p, NEW r \in Ranks, NEW n
  PROVE  r \in CommAt(p, r, n).ranks
<1>1. r \in World.ranks /\ \A g : r \in CommOf(r, g).ranks
  BY DEF World, CommOf, Self
<1>2. \A m : r \in LexicalComm(p, r, m).ranks
  BY <1>1 DEF LexicalComm
<1>. QED BY <1>1, <1>2 DEF CommAt

LEMMA TogetherStep ==
  ASSUME Safe, Safe', MeetingInv, TogetherInv, [Next]_allVars
  PROVE  TogetherInv'
<1>1. program' = program /\ program \in Programs
  BY EveryStepWalks, ProgramTypes DEF Walk, MeetingInv, Safe
<1>2. SUFFICES ASSUME Balanced(program), NEW r \in Ranks, NEW n, NEW x, IsPlace(program, n, x),
                      CollectiveAt(program, n), Reaches(program, r, x),
                      NEW q \in CommAt(program, r, n).ranks
               PROVE  Passed(r, x)' <=> Passed(q, x)'
  BY <1>1 DEF TogetherInv
<1>3. q \in Ranks /\ Reaches(program, q, x) /\ CommAt(program, q, n) = CommAt(program, r, n)
  BY <1>1, <1>2, PartnersReach
<1>4. Passed(r, x) <=> Passed(q, x)
  BY <1>2 DEF TogetherInv
<1>5. ASSUME NEW i \in Ranks, frames'[i] = frames[i], mpi'[i].returned = mpi[i].returned
      PROVE  Passed(i, x)' <=> Passed(i, x)
  <2>1. Position(i)' = Position(i)
    BY <1>1, <1>5, SamePosition
  <2>. QED BY <1>5, <2>1 DEF Passed, Before, Agree, Earlier
<1>6. ASSUME NEW s \in Ranks, Acts(s)
      PROVE  Passed(r, x)' <=> Passed(q, x)'
  <2>1. \A i \in Ranks \ {s} : mpi'[i] = mpi[i] /\ frames'[i] = frames[i]
    BY <1>6, ActsGo DEF MeetingInv
  <2>2. ASSUME NEW i \in Ranks, Reaches(program, i, x)
        PROVE  Passed(i, x)' <=> Passed(i, x)
    <3>1. CASE i = s
      BY <1>2, <1>6, <2>2, <3>1, MovesTogether
    <3>2. CASE i # s
      BY <1>5, <2>1, <3>2
    <3>. QED BY <3>1, <3>2
  <2>. QED BY <1>2, <1>3, <1>4, <2>2
<1>7. ASSUME NEW s \in Ranks, NEW c \in Nodes, Barrier(s, c) \/ ParallelIO(s, c)
      PROVE  Passed(r, x)' <=> Passed(q, x)'
  <2>1. frames' = frames
    BY <1>7 DEF Barrier, ParallelIO
  <2>2. /\ mpi[s] = NoCall /\ mpi \in [Ranks -> MPICalls]
        /\ \E call : mpi' = [mpi EXCEPT ![s] = call] /\ call.returned = FALSE
    <3>1. mpi[s] = NoCall /\ mpi \in [Ranks -> MPICalls]
      BY <1>7 DEF Barrier, ParallelIO, At, Free, Safe, Types
    <3>2. \E op, comm : mpi' = [mpi EXCEPT ![s] = [op |-> op, comm |-> comm, returned |-> FALSE]]
      BY <1>7 DEF Barrier, ParallelIO
    <3>3. PICK op, comm : mpi' = [mpi EXCEPT ![s] = [op |-> op, comm |-> comm, returned |-> FALSE]]
      BY <3>2
    <3>4. PICK call : call = [op |-> op, comm |-> comm, returned |-> FALSE]
      OBVIOUS
    <3>5. mpi' = [mpi EXCEPT ![s] = call] /\ call.returned = FALSE
      BY <3>3, <3>4
    <3>. QED BY <3>1, <3>5
  <2>3. \A i \in Ranks : mpi'[i].returned = mpi[i].returned
    <3>1. PICK call : mpi' = [mpi EXCEPT ![s] = call] /\ call.returned = FALSE
      BY <2>2
    <3>2. mpi'[s] = call /\ \A i \in Ranks \ {s} : mpi'[i] = mpi[i]
      BY <2>2, <3>1
    <3>3. mpi[s].returned = FALSE
      BY <2>2 DEF NoCall
    <3>. QED BY <3>1, <3>2, <3>3
  <2>. QED BY <1>3, <1>4, <1>5, <2>1, <2>3
<1>8. ASSUME frames' = frames, mpi' = mpi
      PROVE  Passed(r, x)' <=> Passed(q, x)'
  BY <1>3, <1>4, <1>5, <1>8
<1>9. ASSUME NEW s \in Ranks, NEW c \in Nodes,
             RepeatNegative(s, c) \/ UndefinedGroup(s, c) \/ NoFile(s, c)
      PROVE  frames' = frames /\ mpi' = mpi
  BY <1>9 DEF RepeatNegative, UndefinedGroup, NoFile, Abort
<1>10. UNCHANGED allVars => frames' = frames /\ mpi' = mpi
  BY DEF allVars
<1>11. ASSUME Complete
       PROVE  Passed(r, x)' <=> Passed(q, x)'
  <2>1. PICK s \in Ranks : mpi[s].op # "none" /\ CollectiveCompletes(mpi[s].comm)
    BY <1>11 DEF Complete
  <2>2. PICK comm : comm = mpi[s].comm
    OBVIOUS
  <2>3. /\ Met(comm) /\ frames' = frames
        /\ mpi' = [i \in Ranks |-> IF i \in comm.ranks THEN [mpi[i] EXCEPT !.returned = TRUE]
                                                       ELSE mpi[i]]
    BY <2>1, <2>2 DEF CollectiveCompletes
  <2>4. \A i \in Ranks : mpi'[i].returned <=> (mpi[i].returned \/ i \in comm.ranks)
    <3>1. \A i \in Ranks : mpi[i] \in MPICalls
      BY DEF Safe, Types
    <3>. QED BY <2>3, <3>1 DEF MPICalls
  <2>5. ASSUME NEW i \in Ranks
        PROVE  Passed(i, x)' <=> Passed(i, x) \/ (i \in comm.ranks /\ x = Position(i))
    <3>1. Position(i)' = Position(i)
      BY <1>1, <2>3, SamePosition
    <3>. QED BY <2>4, <3>1 DEF Passed, Before, Agree, Earlier
  <2>6. ASSUME NEW i \in comm.ranks
        PROVE  /\ i \in Ranks /\ mpi[i] # NoCall /\ mpi[i].comm = comm
               /\ Position(i) = Position(s) /\ Current(i) = Current(s)
    BY <1>2, <2>1, <2>2, <2>3, <2>6, MetAtPlace
  <2>7. ASSUME NEW i \in comm.ranks, x = Position(i), NEW j, j \in CommAt(program, i, n).ranks
        PROVE  j \in comm.ranks /\ x = Position(j)
    <3>1. /\ IsPlace(program, Current(i), x) /\ comm = CommAt(program, i, Current(i))
      BY <1>2, <2>6, <2>7, CallPlace
    <3>2. ~Before(x, x)
      BY <1>1, <1>2, NotBeforeItself, PlaceTypes
    <3>3. n = Current(i)
      BY <1>1, <1>2, <3>1, <3>2, Comparable
    <3>. QED BY <2>6, <2>7, <3>1, <3>3
  <2>8. (r \in comm.ranks /\ x = Position(r)) <=> (q \in comm.ranks /\ x = Position(q))
    <3>1. r \in comm.ranks /\ x = Position(r) => q \in comm.ranks /\ x = Position(q)
      BY <1>2, <2>7
    <3>2. q \in comm.ranks /\ x = Position(q) => r \in comm.ranks /\ x = Position(r)
      <4>1. r \in CommAt(program, r, n).ranks => r \in CommAt(program, q, n).ranks
        BY <1>3
      <4>2. r \in CommAt(program, r, n).ranks
        BY OwnComm
      <4>. QED BY <2>7, <4>1, <4>2
    <3>. QED BY <3>1, <3>2
  <2>. QED BY <1>3, <1>4, <2>5, <2>8
<1>. QED BY <1>6, <1>7, <1>8, <1>9, <1>10, <1>11, StepKinds DEF Idle

\* Where every walk begins.
LEMMA AtStart ==
  ASSUME Init, Safe, NEW r \in Ranks
  PROVE  /\ Course(r) /\ mpi[r] = NoCall
         /\ \A o, x : o \in Nodes => ~Ahead(program, o, x, Position(r))
         /\ \A n, x : IsPlace(program, n, x) => ~Passed(r, x)
<1>1. PositionFacts(r) /\ program \in Programs /\ Nodes = NodesOf(program)
  BY Positions, ProgramTypes DEF Safe
<1>2. mpi[r] = NoCall
  BY DEF Init
<1>3. frames[r] = << Frame(0, 1, 0) >>
  BY DEF Init
<1>4. /\ Len(frames[r]) = 1 /\ frames[r][1].node = 0 /\ frames[r][1].last = 0
      /\ frames[r][1].round = 0 /\ frames[r][1].count = 1
  BY <1>3 DEF Frame
<1>5. Course(r)
  BY <1>4 DEF Course
<1>6. PICK z : z = Position(r)
  OBVIOUS
<1>7. /\ IsPosition(program, z) /\ DOMAIN z = {0} /\ z[0].round = 0 /\ z[0].next \in Nat
      /\ Following(program, 0, 0, z[0].next)
  <2>1. DOMAIN z = {0}
    BY <1>1, <1>4, <1>6 DEF PositionFacts, OnPath
  <2>2. 1 \in 1 .. Len(frames[r])
    BY <1>4
  <2>3. z[0].round = 0 /\ z[0].next = Coming(r) /\ Following(program, 0, 0, Coming(r))
    BY <1>1, <1>4, <1>6, <2>2 DEF PositionFacts
  <2>. QED BY <1>1, <1>6, <2>1, <2>3, PositionTypes DEF PositionFacts
<1>8. ASSUME NEW o \in Nodes, NEW x, Ahead(program, o, x, z)
      PROVE  FALSE
  <2>1. ParentOf(program, o) = 0 /\ o < z[0].next /\ o \in Nat /\ o > 0
    BY <1>1, <1>7, <1>8, TreeTypes DEF Ahead
  <2>2. z[0].next <= o
    BY <1>1, <1>7, <2>1 DEF Following, IsChild
  <2>. QED BY <1>7, <2>1, <2>2
<1>9. ASSUME NEW n, NEW x, IsPlace(program, n, x), Before(x, z)
      PROVE  FALSE
  <2>1. Earlier(x, z, 0) /\ 0 \in DOMAIN x
    BY <1>7, <1>9 DEF Before
  <2>2. IsChild(program, 0, x[0].next) /\ x[0].round \in Nat /\ x[0].next \in Nat /\ 0 < x[0].next
    BY <1>1, <1>9, <2>1, PlaceTypes, PositionTypes
  <2>3. z[0].next <= x[0].next
    BY <1>7, <2>2 DEF Following
  <2>. QED BY <1>7, <2>1, <2>2, <2>3 DEF Earlier
<1>. QED BY <1>2, <1>5, <1>6, <1>8, <1>9 DEF Passed, NoCall

\* A rank has the same calls in progress at the same position.
LEMMA PathOf ==
  ASSUME Safe, NEW r \in Ranks, NEW q \in Ranks, Position(q) = Position(r)
  PROVE  /\ DOMAIN frames[q] = DOMAIN frames[r]
         /\ \A i \in DOMAIN frames[r] :
              frames[q][i].node = frames[r][i].node /\ frames[q][i].round = frames[r][i].round
<1>. DEFINE L == Len(frames[r])
            M == Len(frames[q])
            node == [i \in 1 .. Len(frames[r]) |-> frames[r][i].node]
            other == [i \in 1 .. Len(frames[q]) |-> frames[q][i].node]
<1>1. /\ PositionFacts(r) /\ PositionFacts(q)
      /\ L \in Nat /\ M \in Nat /\ L >= 1 /\ M >= 1 /\ node[L] = 0 /\ other[M] = 0
      /\ DOMAIN frames[r] = 1 .. L /\ DOMAIN frames[q] = 1 .. M
  BY Positions, TopTypes DEF Safe, PathInv
<1>2. /\ \A i \in 1 .. L - 1 : node[i] \in Nodes /\ node[i + 1] = program.kernel.parent[node[i]]
      /\ \A i \in 1 .. M - 1 : other[i] \in Nodes /\ other[i + 1] = program.kernel.parent[other[i]]
  BY <1>1 DEF Safe, PathInv
<1>3. 0 \notin Nodes
  BY KernelTypes DEF Safe
<1>4. node[1] = other[1]
  <2>1. IsTop(Position(r), node[1])
    BY <1>1 DEF PositionFacts
  <2>2. IsTop(Position(r), other[1])
    BY <1>1 DEF PositionFacts
  <2>3. 1 \in 1 .. L
    BY <1>1
  <2>4. node[1] = frames[r][1].node
    BY <2>3
  <2>. QED BY <2>1, <2>2, <2>4, TopNext
<1>. DEFINE D == {i \in 1 .. L : ~(i <= M /\ node[i] = other[i])}
<1>5. D = {}
  <2>1. SUFFICES ASSUME D # {} PROVE FALSE
    OBVIOUS
  <2>. HIDE DEF L, M, node, other
  <2>2. PICK i \in D : \A k \in D : i <= k
    <3>1. D \subseteq Nat
      BY <1>1
    <3>. HIDE DEF D
    <3>. QED BY <2>1, <3>1, Least
  <2>3. i # 1
    BY <1>1, <1>4
  <2>4. PICK j : j = i - 1
    OBVIOUS
  <2>5. i \in 1 .. L /\ i = j + 1 /\ j \in 1 .. L - 1 /\ j \in 1 .. L /\ j < i
    BY <1>1, <2>3, <2>4
  <2>6. j \notin D
    BY <2>2, <2>5
  <2>7. j <= M /\ node[j] = other[j]
    BY <2>5, <2>6
  <2>8. j # M
    BY <1>1, <1>2, <1>3, <2>5, <2>7
  <2>9. j \in 1 .. M - 1 /\ i <= M
    BY <1>1, <2>5, <2>7, <2>8
  <2>10. node[j + 1] = other[j + 1]
    BY <1>2, <2>5, <2>7, <2>9
  <2>. QED BY <2>5, <2>9, <2>10
<1>6. L = M
  <2>. HIDE DEF L, M, node, other
  <2>1. L <= M /\ other[L] = 0
    BY <1>1, <1>5
  <2>2. L # M => L \in 1 .. M - 1
    BY <1>1, <2>1
  <2>. QED BY <1>2, <1>3, <2>1, <2>2
<1>7. ASSUME NEW i \in 1 .. L
      PROVE  frames[q][i].node = frames[r][i].node /\ frames[q][i].round = frames[r][i].round
  <2>1. node[i] = frames[r][i].node /\ other[i] = frames[q][i].node
    BY <1>6
  <2>2. node[i] = other[i]
    <3>. HIDE DEF L, M, node, other
    <3>. QED BY <1>5
  <2>3. frames[q][i].node = frames[r][i].node
    BY <2>1, <2>2
  <2>4. /\ Position(r)[frames[r][i].node].round = frames[r][i].round
        /\ Position(q)[frames[q][i].node].round = frames[q][i].round
    BY <1>1, <1>6 DEF PositionFacts
  <2>. QED BY <2>3, <2>4
<1>. QED BY <1>1, <1>6, <1>7

-------------------------------------------------------------------------------
(* The inductive invariant.                                                     *)

PlacesInv == IInv /\ MeetingInv /\ TogetherInv

LEMMA PlacesInit == Init => PlacesInv
<1>. SUFFICES ASSUME Init PROVE PlacesInv
  OBVIOUS
<1>1. IInv /\ Safe
  BY InvInit DEF IInv, Safe
<1>2. \A r \in Ranks : Course(r) /\ mpi[r] = NoCall
  BY <1>1, AtStart
<1>3. CourseInv /\ MeetInv /\ CommInv
  BY <1>2 DEF CourseInv, MeetInv, CommInv
<1>4. FilesInv
  <2>1. \A r \in Ranks, o \in Nodes : \A x : ~Ahead(program, o, x, Position(r))
    BY <1>1, AtStart
  <2>2. ASSUME NEW r \in Ranks, NEW o \in Nodes, NEW n, NEW x, Ahead(program, o, x, Position(r))
        PROVE  FALSE
    BY <2>1, <2>2
  <2>. QED BY <2>2 DEF FilesInv
<1>5. TogetherInv
  <2>. SUFFICES ASSUME Balanced(program), NEW r \in Ranks, NEW n, NEW x, IsPlace(program, n, x),
                       CollectiveAt(program, n), Reaches(program, r, x),
                       NEW q \in CommAt(program, r, n).ranks
                PROVE  Passed(r, x) <=> Passed(q, x)
    BY DEF TogetherInv
  <2>1. q \in Ranks
    BY <1>1, PartnersReach, ProgramTypes DEF Safe
  <2>. QED BY <1>1, <2>1, AtStart
<1>. QED BY <1>1, <1>3, <1>4, <1>5 DEF PlacesInv, MeetingInv, IInv

LEMMA PlacesStep == PlacesInv /\ [Next]_allVars => PlacesInv'
<1>. SUFFICES ASSUME PlacesInv, [Next]_allVars PROVE PlacesInv'
  OBVIOUS
<1>1. IInv /\ MeetingInv /\ TogetherInv /\ Safe /\ IInv'
  BY InvStep DEF PlacesInv, IInv, Safe
<1>2. Safe' /\ CallInv' /\ ContextInv'
  BY <1>1 DEF IInv, Safe
<1>3. CourseInv' /\ MeetInv' /\ CommInv'
  <2>1. CASE Idle
    <3>1. MeetInv' /\ CommInv'
      BY <1>1, <2>1, MeetIdle DEF MeetingInv
    <3>2. program' = program /\ frames' = frames
      BY <2>1, IdleSteps
    <3>3. CourseInv'
      BY <1>1, <3>2 DEF MeetingInv, CourseInv, Course, Stmt
    <3>. QED BY <3>1, <3>3
  <2>2. ASSUME NEW r \in Ranks, Acts(r)
        PROVE  CourseInv' /\ MeetInv' /\ CommInv'
    <3>1. /\ Goes(r) /\ program' = program /\ mpi'[r] = NoCall
          /\ \A q \in Ranks \ {r} : mpi'[q] = mpi[q] /\ frames'[q] = frames[q]
      BY <1>1, <2>2, ActsGo DEF MeetingInv
    <3>2. MeetInv' /\ CommInv'
      BY <1>1, <3>1, MeetActs DEF MeetingInv
    <3>3. CourseInv'
      BY <1>1, <1>2, <3>1, GoMoves DEF Going, MeetingInv
    <3>. QED BY <3>2, <3>3
  <2>. QED BY <2>1, <2>2, StepKinds
<1>4. FilesInv'
  BY <1>1, <1>2, FilesStep DEF MeetingInv
<1>5. TogetherInv'
  BY <1>1, <1>2, TogetherStep
<1>. QED BY <1>1, <1>2, <1>3, <1>4, <1>5 DEF PlacesInv, MeetingInv

LEMMA InPlaces == PlacesInv => Safe /\ MeetingInv /\ TogetherInv /\ program \in Programs
BY ProgramTypes DEF PlacesInv, IInv, Safe

\* In a balanced kernel, ranks that have met in a collective call are in the same statement,
\* and in the same iteration of all loops around it (interpreter.c:253, iio_mpi.c): the
\* barriers and the parallel I/O that MPI pairs are those the kernel means.
THEOREM MeetingsAreMeant == Spec => []SamePlace
<1>1. PlacesInv => SamePlace
  <2>. SUFFICES ASSUME PlacesInv, program \in BalancedPrograms, NEW r \in Ranks,
                       mpi[r].op # "none", Met(mpi[r].comm), NEW q \in mpi[r].comm.ranks
                PROVE  /\ Current(q) = Current(r)
                       /\ [i \in DOMAIN frames[q] |-> << frames[q][i].node, frames[q][i].round >>]
                            = [i \in DOMAIN frames[r] |-> << frames[r][i].node, frames[r][i].round >>]
    BY DEF SamePlace
  <2>1. Safe /\ MeetingInv /\ TogetherInv /\ Balanced(program)
    BY InPlaces DEF BalancedPrograms
  <2>2. q \in Ranks /\ Position(q) = Position(r) /\ Current(q) = Current(r)
    BY <2>1, MetAtPlace
  <2>3. /\ DOMAIN frames[q] = DOMAIN frames[r]
        /\ \A i \in DOMAIN frames[r] :
              frames[q][i].node = frames[r][i].node /\ frames[q][i].round = frames[r][i].round
    BY <2>1, <2>2, PathOf
  <2>. QED BY <2>2, <2>3
<1>. QED BY <1>1, PlacesInit, PlacesStep, PTL DEF Spec

\* Among some ranks there is one that no other is behind.
LEMMA Hindmost ==
  ASSUME Safe, NEW S, S \subseteq Ranks, S # {}
  PROVE  \E m \in S : \A k \in S : ~Before(Position(k), Position(m))
<1>. DEFINE Has(T) == \E m \in T : \A k \in T : ~Before(Position(k), Position(m))
            Below(i) == {s \in S : s < i}
            D == {i \in Nat : Below(i) # {} /\ ~Has(Below(i))}
<1>1. program \in Programs /\ \A r \in Ranks : IsPosition(program, Position(r))
  BY Positions, ProgramTypes DEF PositionFacts, Safe
<1>2. \A s \in S : s \in Nat /\ ~(s < 0) /\ s < Size
  <2>1. \A s \in Ranks : s \in Nat /\ ~(s < 0) /\ s < Size
    BY SizeAssumption DEF Ranks
  <2>. QED BY <2>1
<1>3. D = {}
  <2>1. SUFFICES ASSUME D # {} PROVE FALSE
    OBVIOUS
  <2>2. PICK i \in D : \A k \in D : i <= k
    <3>. HIDE DEF Has, Below
    <3>1. D \subseteq Nat
      OBVIOUS
    <3>. HIDE DEF D
    <3>. QED BY <2>1, <3>1, Least
  <2>3. i \in Nat /\ Below(i) # {} /\ ~Has(Below(i))
    OBVIOUS
  <2>4. i # 0
    <3>1. Below(0) = {}
      BY <1>2
    <3>. HIDE DEF Below
    <3>. QED BY <2>3, <3>1
  <2>5. PICK j \in Nat : i = j + 1
    <3>1. i - 1 \in Nat /\ i = (i - 1) + 1
      BY <2>3, <2>4
    <3>. QED BY <3>1
  <2>6. j \notin D
    <3>. HIDE DEF D
    <3>. QED BY <2>2, <2>5
  <2>7. Below(j) # {} => Has(Below(j))
    <3>. HIDE DEF Has, Below
    <3>. QED BY <2>5, <2>6
  <2>8. Below(i) = IF j \in S THEN Below(j) \cup {j} ELSE Below(j)
    BY <1>2, <2>5
  <2>9. CASE j \notin S
    <3>. HIDE DEF Has, Below
    <3>. QED BY <2>3, <2>7, <2>8, <2>9
  <2>10. CASE j \in S /\ Below(j) = {}
    <3>1. ~Before(Position(j), Position(j))
      BY <1>1, <2>10, NotBeforeItself
    <3>2. Below(i) = {j}
      <4>. HIDE DEF Below
      <4>. QED BY <2>8, <2>10
    <3>3. Has({j})
      BY <3>1
    <3>. HIDE DEF Has, Below
    <3>. QED BY <2>3, <3>2, <3>3
  <2>11. CASE j \in S /\ Below(j) # {}
    <3>1. PICK T : T = Below(j)
      OBVIOUS
    <3>2. T \subseteq Ranks /\ j \in Ranks
      BY <2>11, <3>1
    <3>3. PICK m \in T : \A k \in T : ~Before(Position(k), Position(m))
      <4>1. Has(T)
        <5>. HIDE DEF Has, Below
        <5>. QED BY <2>7, <2>11, <3>1
      <4>. QED BY <4>1
    <3>4. ~Before(Position(j), Position(j))
      BY <1>1, <3>2, NotBeforeItself
    <3>5. CASE Before(Position(j), Position(m))
      <4>1. ASSUME NEW k \in T, Before(Position(k), Position(j)) PROVE FALSE
        <5>1. Before(Position(k), Position(m))
          BY <1>1, <3>2, <3>5, <4>1, BeforeTransitive
        <5>. QED BY <3>3, <5>1
      <4>2. Has(T \cup {j})
        BY <3>4, <4>1
      <4>. HIDE DEF Has, Below
      <4>. QED BY <2>3, <2>8, <2>11, <3>1, <4>2
    <3>6. CASE ~Before(Position(j), Position(m))
      <4>1. Has(T \cup {j})
        BY <3>3, <3>6
      <4>. HIDE DEF Has, Below
      <4>. QED BY <2>3, <2>8, <2>11, <3>1, <4>1
    <3>. QED BY <3>5, <3>6
  <2>. QED BY <2>9, <2>10, <2>11
<1>4. Below(Size) = S
  BY <1>2
<1>5. Size \in Nat /\ Size \notin D
  BY <1>3, SizeAssumption
<1>6. Has(S)
  <2>. HIDE DEF Has, Below
  <2>. QED BY <1>4, <1>5
<1>. QED BY <1>6

\* A rank that has finished has passed every place it was to reach.
LEMMA FinishedPassed ==
  ASSUME Safe, NEW r \in Ranks, Finished(r), NEW n, NEW x, IsPlace(program, n, x), Reaches(program, r, x)
  PROVE  Before(x, Position(r))
<1>1. PositionFacts(r) /\ program \in Programs
  BY Positions, ProgramTypes DEF Safe
<1>2. IsTop(Position(r), 0) /\ Pending(r) = {}
  BY <1>1, TopTypes DEF Finished, PositionFacts, Safe
<1>3. Position(r)[0].next = Past(program)
  BY <1>2, TopNext
<1>4. PICK z : z = Position(r)
  OBVIOUS
<1>5. IsPosition(program, z) /\ 0 \in DOMAIN z /\ z[0].round \in Nat
  BY <1>1, <1>4, PositionTypes DEF PositionFacts, IsPosition
<1>6. IsPosition(program, x) /\ 0 \in DOMAIN x /\ x[0].round = 0
  BY <1>1, PlaceTypes DEF IsPosition, Reaches
<1>7. x[0].next < Past(program)
  <2>1. IsChild(program, 0, x[0].next)
    BY <1>1, <1>6, PlaceTypes
  <2>. QED BY <1>1, <2>1, TreeTypes DEF IsChild
<1>8. Earlier(x, z, 0)
  BY <1>3, <1>4, <1>5, <1>6, <1>7 DEF Earlier
<1>9. Agree(x, z, 0)
  <2>1. \A e \in DOMAIN x : e \in Nat
    BY <1>1, <1>6, PositionTypes
  <2>2. \A e \in DOMAIN x : ~(e < 0)
    BY <2>1
  <2>. QED BY <2>2 DEF Agree
<1>. QED BY <1>4, <1>5, <1>6, <1>8, <1>9 DEF Before

\* In a balanced kernel ranks never wait for each other for good (interpreter.c:253, the
\* collective calls of iio_mpi.c), whatever groups the kernel enters, however they overlap:
\* those of the hindmost waiting rank's communicator have all come to where it waits.
THEOREM NobodyStuck == Spec => []NeverStuck
<1>1. PlacesInv => NeverStuck
  <2>. DEFINE Waits(r) == mpi[r].op # "none" /\ ~mpi[r].returned /\ ~Met(mpi[r].comm)
              W == {r \in Ranks : Waits(r)}
  <2>. SUFFICES ASSUME PlacesInv, Balanced(program), ~AllFinished,
                       \A r \in Ranks : Finished(r) \/ Waits(r)
                PROVE  FALSE
    BY DEF NeverStuck, BalancedPrograms
  <2>1. Safe /\ MeetingInv /\ TogetherInv /\ program \in Programs
    BY InPlaces
  <2>2. W # {} /\ W \subseteq Ranks /\ \A r \in W : Waits(r)
    BY DEF AllFinished
  <2>3. \A r \in Ranks : r \in W \/ Finished(r)
    OBVIOUS
  <2>. HIDE DEF W
  <2>4. PICK r \in W : \A k \in W : ~Before(Position(k), Position(r))
    BY <2>1, <2>2, Hindmost
  <2>5. r \in Ranks /\ mpi[r].op # "none" /\ ~mpi[r].returned /\ ~Met(mpi[r].comm) /\ mpi[r] # NoCall
    BY <2>2, <2>4 DEF NoCall
  <2>6. PICK n, x, comm : n = Current(r) /\ x = Position(r) /\ comm = mpi[r].comm
    OBVIOUS
  <2>7. /\ CallAt(r, n) /\ CollectiveAt(program, n) /\ IsPlace(program, n, x) /\ Reaches(program, r, x)
        /\ comm = CommAt(program, r, n)
    BY <2>1, <2>5, <2>6, CallPlace DEF CallAt
  <2>8. ~Passed(r, x)
    BY <2>1, <2>5, <2>6, <2>7, NotBeforeItself, PlaceTypes DEF Passed
  <2>9. ASSUME NEW q \in comm.ranks
        PROVE  mpi[q].comm = comm /\ ~mpi[q].returned /\ mpi[q].op = mpi[r].op
    <3>1. q \in Ranks /\ Reaches(program, q, x) /\ CommAt(program, q, n) = comm
      BY <2>1, <2>5, <2>7, PartnersReach
    <3>2. ~Passed(q, x)
      BY <2>1, <2>5, <2>7, <2>8 DEF TogetherInv
    <3>3. ~Before(x, Position(q))
      BY <3>2 DEF Passed
    <3>4. q \in W
      BY <2>1, <2>3, <2>7, <3>1, <3>3, FinishedPassed
    <3>5. mpi[q].op # "none" /\ ~mpi[q].returned /\ mpi[q] # NoCall
      BY <2>2, <3>4 DEF NoCall
    <3>6. /\ CallAt(q, Current(q)) /\ IsPlace(program, Current(q), Position(q))
          /\ mpi[q].comm = CommAt(program, q, Current(q))
      BY <2>1, <3>1, <3>5, CallPlace
    <3>7. ~Before(Position(q), x)
      BY <2>4, <2>6, <3>4
    <3>8. Current(q) = n
      BY <2>1, <2>7, <3>3, <3>6, <3>7, Comparable
    <3>9. mpi[q].comm = comm
      BY <3>1, <3>6, <3>8
    <3>10. mpi[q].op = mpi[r].op
      BY <2>7, <3>6, <3>8 DEF CallAt
    <3>. QED BY <3>5, <3>9, <3>10
  <2>10. Met(comm)
    BY <2>9 DEF Met
  <2>. QED BY <2>5, <2>6, <2>10
<1>. QED BY <1>1, PlacesInit, PlacesStep, PTL DEF Spec

-------------------------------------------------------------------------------
(* How many places a node has.                                                  *)

\* The positions at which node m, a leaf or a block, comes next for rank r.
IsWay(p, r, m, x) ==
  /\ IsPosition(p, x) /\ Reaches(p, r, x)
  /\ ParentOf(p, m) \in DOMAIN x /\ x[ParentOf(p, m)].next = m
  /\ \A a \in DOMAIN x : a <= ParentOf(p, m)
Ways(p, r, m) == {x \in UNION {[S -> Legs] : S \in SUBSET (NodesOf(p) \cup {0})} : IsWay(p, r, m, x)}

LEMMA WaysAre ==
  ASSUME NEW p, NEW r, NEW m, NEW x
  PROVE  x \in Ways(p, r, m) <=> IsWay(p, r, m, x)
<1>. SUFFICES ASSUME IsWay(p, r, m, x)
              PROVE  x \in UNION {[S -> Legs] : S \in SUBSET (NodesOf(p) \cup {0})}
  BY DEF Ways
<1>1. x \in [DOMAIN x -> Legs] /\ DOMAIN x \in SUBSET (NodesOf(p) \cup {0})
  BY DEF IsWay, IsPosition
<1>. QED BY <1>1

LEMMA OneToOne ==
  ASSUME NEW S, NEW T, IsFiniteSet(S), NEW f \in [S -> T],
         \A a, b \in S : f[a] = f[b] => a = b, \A t \in T : \E s \in S : f[s] = t
  PROVE  IsFiniteSet(T) /\ Cardinality(T) = Cardinality(S)
<1>1. f \in Bijection(S, T)
  BY DEF Bijection, Injection, Surjection, IsInjective
<1>. QED BY <1>1, FS_Bijection DEF ExistsBijection

\* From a way to a block one gets to a statement of it in an iteration.
Inner(y, e, k, m) == [a \in DOMAIN y \cup {e} |-> IF a = e THEN [round |-> k, next |-> m] ELSE y[a]]

LEMMA Inward ==
  ASSUME NEW p \in Programs, NEW r \in Ranks, NEW m \in NodesOf(p), NEW e, e = ParentOf(p, m), e # 0,
         NEW y \in Ways(p, r, e), NEW k \in Nat, k < Rounds(p, r, e)
  PROVE  Inner(y, e, k, m) \in Ways(p, r, m) /\ e \notin DOMAIN y
<1>. DEFINE d == ParentOf(p, e)
<1>1. e \in NodesOf(p) /\ e \in Nat /\ e < m /\ m \in Nat /\ d \in Nat /\ d < e /\ IsChild(p, e, m)
  BY TreeTypes DEF IsChild
<1>2. /\ IsPosition(p, y) /\ Reaches(p, r, y) /\ d \in DOMAIN y /\ y[d].next = e
      /\ \A a \in DOMAIN y : a <= d
  BY WaysAre DEF IsWay
<1>. HIDE DEF d
<1>3. /\ DOMAIN y \subseteq Nat /\ DOMAIN y \subseteq NodesOf(p) \cup {0} /\ 0 \in DOMAIN y
      /\ \A a \in DOMAIN y : a < e /\ y[a] \in Legs
  BY <1>1, <1>2, PositionTypes DEF IsPosition
<1>4. PICK x : x = Inner(y, e, k, m)
  OBVIOUS
<1>5. /\ DOMAIN x = DOMAIN y \cup {e} /\ e \notin DOMAIN y
      /\ \A a \in DOMAIN y : x[a] = y[a]
      /\ x[e] = [round |-> k, next |-> m]
      /\ x = [a \in DOMAIN x |-> x[a]]
  BY <1>1, <1>3, <1>4 DEF Inner
<1>6. x[e] \in Legs /\ x[e].round = k /\ x[e].next = m
  BY <1>1, <1>5 DEF Legs
<1>7. x \in [DOMAIN x -> Legs]
  BY <1>3, <1>5, <1>6
<1>8. \A a \in DOMAIN x \ {0} : ParentOf(p, a) \in DOMAIN x /\ x[ParentOf(p, a)].next = a
  <2>1. ParentOf(p, e) \in DOMAIN x /\ x[ParentOf(p, e)].next = e
    BY <1>2, <1>5 DEF d
  <2>2. \A a \in DOMAIN y \ {0} : ParentOf(p, a) \in DOMAIN x /\ x[ParentOf(p, a)].next = a
    BY <1>2, <1>5 DEF IsPosition
  <2>. QED BY <1>5, <2>1, <2>2
<1>9. \A a \in DOMAIN x : x[a].next = Past(p) \/ IsChild(p, a, x[a].next)
  BY <1>1, <1>2, <1>5, <1>6 DEF IsPosition
<1>10. ASSUME NEW a \in DOMAIN x, NEW b \in DOMAIN x, a < b
       PROVE  x[a].next \in DOMAIN x /\ x[a].next <= b
  <2>1. a # e
    BY <1>1, <1>3, <1>5, <1>10
  <2>2. a \in DOMAIN y /\ x[a] = y[a] /\ a \in Nat /\ a <= d
    BY <1>2, <1>3, <1>5, <2>1
  <2>3. CASE b \in DOMAIN y
    BY <1>2, <1>5, <1>10, <2>2, <2>3 DEF IsPosition
  <2>4. CASE b = e /\ a = d
    BY <1>1, <1>2, <1>5, <2>2, <2>4
  <2>5. CASE b = e /\ a # d
    <3>1. a < d
      BY <1>1, <2>2, <2>5
    <3>2. y[a].next \in DOMAIN y
      BY <1>2, <2>2, <3>1 DEF IsPosition
    <3>3. y[a].next \in Nat /\ y[a].next < e
      BY <1>3, <3>2
    <3>. QED BY <1>1, <1>5, <2>2, <2>5, <3>2, <3>3
  <2>. QED BY <1>5, <2>3, <2>4, <2>5
<1>11. IsPosition(p, x)
  BY <1>1, <1>3, <1>5, <1>7, <1>8, <1>9, <1>10 DEF IsPosition
<1>12. Reaches(p, r, x)
  BY <1>2, <1>3, <1>5, <1>6 DEF Reaches
<1>13. \A a \in DOMAIN x : a <= e
  BY <1>1, <1>3, <1>5
<1>14. IsWay(p, r, m, x)
  BY <1>5, <1>6, <1>11, <1>12, <1>13 DEF IsWay
<1>. QED BY <1>4, <1>5, <1>14, WaysAre

LEMMA Outward ==
  ASSUME NEW p \in Programs, NEW r \in Ranks, NEW m \in NodesOf(p), NEW e, e = ParentOf(p, m), e # 0,
         NEW x \in Ways(p, r, m)
  PROVE  \E y \in Ways(p, r, e), k \in Nat : k < Rounds(p, r, e) /\ x = Inner(y, e, k, m)
<1>. DEFINE d == ParentOf(p, e)
<1>1. e \in NodesOf(p) /\ e \in Nat /\ e < m /\ m \in Nat /\ d \in Nat /\ d < e /\ IsChild(p, e, m)
  BY TreeTypes DEF IsChild
<1>2. /\ IsPosition(p, x) /\ Reaches(p, r, x) /\ e \in DOMAIN x /\ x[e].next = m
      /\ \A a \in DOMAIN x : a <= e
  BY WaysAre DEF IsWay
<1>3. /\ DOMAIN x \subseteq Nat /\ DOMAIN x \subseteq NodesOf(p) \cup {0} /\ 0 \in DOMAIN x
      /\ \A a \in DOMAIN x : x[a] \in Legs /\ x[a] = [round |-> x[a].round, next |-> x[a].next]
      /\ x[e].round \in Nat /\ d \in DOMAIN x /\ x[d].next = e
  BY <1>1, <1>2, PositionTypes DEF IsPosition
<1>. HIDE DEF d
<1>4. PICK y : y = [a \in DOMAIN x \ {e} |-> x[a]]
  OBVIOUS
<1>5. DOMAIN y = DOMAIN x \ {e} /\ \A a \in DOMAIN y : y[a] = x[a]
  BY <1>4
<1>6. \A a \in DOMAIN y : a \in Nat /\ a < e /\ a <= d
  <2>. TAKE a \in DOMAIN y
  <2>1. a \in DOMAIN x /\ a \in Nat /\ a < e
    BY <1>1, <1>2, <1>3, <1>5
  <2>2. ~(d < a)
    <3>1. d < a => e <= a
      BY <1>2, <1>3, <2>1 DEF IsPosition
    <3>. QED BY <1>1, <2>1, <3>1
  <2>. QED BY <1>1, <2>1, <2>2
<1>7. y \in [DOMAIN y -> Legs]
  BY <1>3, <1>4, <1>5
<1>8. \A a \in DOMAIN y \ {0} : ParentOf(p, a) \in DOMAIN y /\ y[ParentOf(p, a)].next = a
  <2>. TAKE a \in DOMAIN y \ {0}
  <2>1. ParentOf(p, a) \in DOMAIN x /\ x[ParentOf(p, a)].next = a
    BY <1>2, <1>5 DEF IsPosition
  <2>2. a # m
    BY <1>1, <1>6
  <2>. QED BY <1>2, <1>5, <2>1, <2>2
<1>9. \A a \in DOMAIN y : y[a].next = Past(p) \/ IsChild(p, a, y[a].next)
  BY <1>2, <1>5 DEF IsPosition
<1>10. ASSUME NEW a \in DOMAIN y, NEW b \in DOMAIN y, a < b
       PROVE  y[a].next \in DOMAIN y /\ y[a].next <= b
  <2>1. x[a].next \in DOMAIN x /\ x[a].next <= b
    BY <1>2, <1>5, <1>10 DEF IsPosition
  <2>2. x[a].next # e
    BY <1>1, <1>6, <2>1
  <2>. QED BY <1>5, <2>1, <2>2
<1>11. IsPosition(p, y)
  BY <1>1, <1>3, <1>5, <1>7, <1>8, <1>9, <1>10 DEF IsPosition
<1>12. Reaches(p, r, y)
  <2>1. 0 \in DOMAIN y
    BY <1>3, <1>5
  <2>. QED BY <1>2, <1>5, <2>1 DEF Reaches
<1>13. IsWay(p, r, e, y)
  <2>1. d \in DOMAIN y /\ y[d].next = e
    BY <1>1, <1>3, <1>5
  <2>. QED BY <1>6, <1>11, <1>12, <2>1 DEF IsWay, d
<1>14. x[e].round \in Nat /\ x[e].round < Rounds(p, r, e)
  BY <1>2, <1>3 DEF Reaches
<1>15. x = Inner(y, e, x[e].round, m)
  <2>1. x = [a \in DOMAIN x |-> x[a]] /\ DOMAIN x = DOMAIN y \cup {e}
    BY <1>2, <1>5 DEF IsPosition
  <2>2. \A a \in DOMAIN x : x[a] = IF a = e THEN [round |-> x[e].round, next |-> m] ELSE y[a]
    BY <1>2, <1>3, <1>5
  <2>. QED BY <2>1, <2>2 DEF Inner
<1>16. y \in Ways(p, r, e)
  BY <1>13, WaysAre
<1>. QED BY <1>14, <1>15, <1>16

LEMMA WaysAtRoot ==
  ASSUME NEW p \in Programs, NEW r \in Ranks, NEW m \in NodesOf(p), ParentOf(p, m) = 0
  PROVE  \E w : Ways(p, r, m) = {w}
<1>1. PICK w : w = [a \in {0} |-> [round |-> 0, next |-> m]]
  OBVIOUS
<1>2. /\ DOMAIN w = {0} /\ w = [a \in DOMAIN w |-> w[a]] /\ m \in Nat /\ IsChild(p, 0, m)
      /\ w[0] = [round |-> 0, next |-> m] /\ w[0].round = 0 /\ w[0].next = m
  BY <1>1, TreeTypes DEF IsChild
<1>3. IsWay(p, r, m, w)
  <2>1. w[0] \in Legs
    BY <1>2 DEF Legs
  <2>2. w \in [DOMAIN w -> Legs]
    BY <1>2, <2>1
  <2>3. IsPosition(p, w)
    BY <1>2, <2>2 DEF IsPosition
  <2>4. Reaches(p, r, w)
    BY <1>2 DEF Reaches
  <2>. QED BY <1>2, <2>3, <2>4 DEF IsWay
<1>4. ASSUME NEW x, IsWay(p, r, m, x)
      PROVE  x = w
  <2>1. /\ IsPosition(p, x) /\ 0 \in DOMAIN x /\ x[0].round = 0 /\ x[0].next = m
        /\ \A a \in DOMAIN x : a <= 0 /\ a \in Nat
        /\ x[0] = [round |-> x[0].round, next |-> x[0].next]
    BY <1>4, PositionTypes DEF IsWay, Reaches
  <2>2. DOMAIN x = {0}
    BY <2>1
  <2>3. x = [a \in {0} |-> x[a]]
    BY <2>1, <2>2 DEF IsPosition
  <2>. QED BY <1>1, <2>1, <2>3
<1>5. Ways(p, r, m) = {w}
  BY <1>3, <1>4, WaysAre
<1>. QED BY <1>5

\* A node has as many ways to it as it is executed.
LEMMA WaysCount ==
  ASSUME NEW p \in Programs, NEW r \in Ranks, NEW n \in NodesOf(p)
  PROVE  IsFiniteSet(Ways(p, r, n)) /\ Cardinality(Ways(p, r, n)) = Executions(p, r, n)
<1>. DEFINE Good(m) == IsFiniteSet(Ways(p, r, m)) /\ Cardinality(Ways(p, r, m)) = Executions(p, r, m)
            D == {m \in NodesOf(p) : ~Good(m)}
<1>1. SUFFICES ASSUME D # {} PROVE FALSE
  OBVIOUS
<1>2. PICK m \in D : \A k \in D : m <= k
  <2>1. D \subseteq Nat
    BY TreeTypes
  <2>. HIDE DEF D
  <2>. QED BY <1>1, <2>1, Least
<1>. DEFINE e == ParentOf(p, m)
<1>3. m \in NodesOf(p) /\ e < m /\ e \in Nat /\ m \in Nat
  BY TreeTypes
<1>4. Executions(p, r, m) = IF e = 0 THEN 1 ELSE Executions(p, r, e) * Rounds(p, r, e)
  BY <1>3, ExecutionsOf
<1>5. CASE e = 0
  <2>1. PICK w : Ways(p, r, m) = {w}
    BY <1>3, <1>5, WaysAtRoot
  <2>2. Good(m)
    BY <1>4, <1>5, <2>1, FS_Singleton
  <2>. QED BY <2>2
<1>6. CASE e # 0
  <2>1. e \in NodesOf(p) /\ Rounds(p, r, e) \in Nat
    BY <1>3, <1>6, TreeTypes, RoundsTypes
  <2>2. Good(e)
    <3>1. e \notin D
      <4>. HIDE DEF D, e
      <4>. QED BY <1>2, <1>3
    <3>. HIDE DEF e, Good
    <3>. QED BY <2>1, <3>1
  <2>. HIDE DEF e
  <2>3. PICK W, R, V : W = Ways(p, r, e) /\ R = 0 .. Rounds(p, r, e) - 1 /\ V = Ways(p, r, m)
    OBVIOUS
  <2>4. IsFiniteSet(R) /\ Cardinality(R) = Rounds(p, r, e)
    <3>1. Rounds(p, r, e) - 1 \in Int
      BY <2>1
    <3>2. IsFiniteSet(R) /\ Cardinality(R) = IF 0 > Rounds(p, r, e) - 1 THEN 0 ELSE Rounds(p, r, e) - 1 - 0 + 1
      BY <2>3, <3>1, FS_Interval
    <3>. QED BY <2>1, <3>2
  <2>5. IsFiniteSet(W \X R) /\ Cardinality(W \X R) = Executions(p, r, m)
    <3>1. IsFiniteSet(W \X R) /\ Cardinality(W \X R) = Cardinality(W) * Cardinality(R)
      BY <2>2, <2>3, <2>4, FS_Product
    <3>2. Cardinality(W) = Executions(p, r, e)
      BY <2>2, <2>3
    <3>. QED BY <1>4, <1>6, <2>4, <3>1, <3>2
  <2>6. PICK f : f = [w \in W \X R |-> Inner(w[1], e, w[2], m)]
    OBVIOUS
  <2>7. ASSUME NEW w \in W \X R
        PROVE  /\ f[w] \in V /\ w = << w[1], w[2] >>
               /\ DOMAIN w[1] = DOMAIN f[w] \ {e} /\ w[1] \in [DOMAIN w[1] -> Legs]
               /\ \A a \in DOMAIN w[1] : w[1][a] = f[w][a]
               /\ f[w][e].round = w[2]
    <3>1. w[1] \in Ways(p, r, e) /\ w[2] \in Nat /\ w[2] < Rounds(p, r, e) /\ w = << w[1], w[2] >>
      BY <2>1, <2>3
    <3>2. f[w] = Inner(w[1], e, w[2], m)
      BY <2>6
    <3>3. f[w] \in V /\ e \notin DOMAIN w[1]
      BY <1>3, <1>6, <2>3, <3>1, <3>2, Inward DEF e
    <3>4. w[1] \in [DOMAIN w[1] -> Legs]
      BY <3>1, WaysAre DEF IsWay, IsPosition
    <3>5. DOMAIN f[w] = DOMAIN w[1] \cup {e} /\ f[w][e].round = w[2] /\ \A a \in DOMAIN w[1] : f[w][a] = w[1][a]
      BY <3>2, <3>3 DEF Inner
    <3>. QED BY <3>1, <3>3, <3>4, <3>5
  <2>8. f \in [W \X R -> V]
    BY <2>6, <2>7
  <2>9. ASSUME NEW v \in W \X R, NEW w \in W \X R, f[v] = f[w]
        PROVE  v = w
    <3>1. PICK g : g = f[v] /\ g = f[w]
      BY <2>9
    <3>2. PICK S : S = DOMAIN g \ {e}
      OBVIOUS
    <3>3. DOMAIN v[1] = S /\ DOMAIN w[1] = S
      BY <2>7, <3>1, <3>2
    <3>4. PICK x, y : x = v[1] /\ y = w[1]
      OBVIOUS
    <3>5. x \in [DOMAIN x -> Legs] /\ DOMAIN x = S /\ \A a \in DOMAIN x : x[a] = g[a]
      BY <2>7, <3>1, <3>3, <3>4
    <3>6. y \in [DOMAIN y -> Legs] /\ DOMAIN y = S /\ \A a \in DOMAIN y : y[a] = g[a]
      BY <2>7, <3>1, <3>3, <3>4
    <3>7. x = y
      BY <3>5, <3>6
    <3>8. v[2] = g[e].round /\ w[2] = g[e].round
      BY <2>7, <3>1
    <3>9. v = << v[1], v[2] >> /\ w = << w[1], w[2] >>
      BY <2>7
    <3>. QED BY <3>4, <3>7, <3>8, <3>9
  <2>10. ASSUME NEW x \in V
         PROVE  \E w \in W \X R : f[w] = x
    <3>1. PICK y \in Ways(p, r, e), k \in Nat : k < Rounds(p, r, e) /\ x = Inner(y, e, k, m)
      BY <1>3, <1>6, <2>3, Outward DEF e
    <3>2. << y, k >> \in W \X R
      BY <2>1, <2>3, <3>1
    <3>3. f[<< y, k >>] = x
      BY <2>6, <3>1, <3>2
    <3>. QED BY <3>2, <3>3
  <2>11. IsFiniteSet(V) /\ Cardinality(V) = Cardinality(W \X R)
    <3>1. PICK P : P = W \X R
      OBVIOUS
    <3>. QED BY <2>5, <2>8, <2>9, <2>10, <3>1, OneToOne
  <2>. QED BY <2>3, <2>5, <2>11
<1>. QED BY <1>5, <1>6

\* The elements of the sets F[n], told apart by n.
Sum(T, F) == UNION {{n} \X F[n] : n \in T}

LEMMA InSum ==
  ASSUME NEW T, NEW F, NEW w
  PROVE  w \in Sum(T, F) <=> \E n \in T : \E x \in F[n] : w = << n, x >>
BY DEF Sum

\* Sums of sets that are as large are as large.
LEMMA SumsAgree ==
  ASSUME NEW N \in Nat, NEW T, T \subseteq 1 .. N, NEW F, NEW G,
         \A n \in T : IsFiniteSet(F[n]) /\ IsFiniteSet(G[n]) /\ Cardinality(F[n]) = Cardinality(G[n])
  PROVE  /\ IsFiniteSet(Sum(T, F)) /\ IsFiniteSet(Sum(T, G))
         /\ Cardinality(Sum(T, F)) = Cardinality(Sum(T, G))
<1>. DEFINE Upto(i) == {n \in T : n <= i}
            Good(i) == /\ IsFiniteSet(Sum(Upto(i), F)) /\ IsFiniteSet(Sum(Upto(i), G))
                       /\ Cardinality(Sum(Upto(i), F)) = Cardinality(Sum(Upto(i), G))
            D == {i \in Nat : ~Good(i)}
<1>1. \A n \in T : n \in Nat /\ 1 <= n /\ n <= N
  <2>1. N \in Nat /\ T \subseteq 1 .. N
    OBVIOUS
  <2>. QED BY ONLY <2>1
<1>2. D = {}
  <2>1. SUFFICES ASSUME D # {} PROVE FALSE
    OBVIOUS
  <2>2. PICK i \in D : \A k \in D : i <= k
    <3>. HIDE DEF Good
    <3>1. D \subseteq Nat
      OBVIOUS
    <3>. HIDE DEF D
    <3>. QED BY <2>1, <3>1, Least
  <2>3. i \in Nat /\ ~Good(i)
    <3>. HIDE DEF Good
    <3>. QED OBVIOUS
  <2>4. i # 0
    <3>1. Upto(0) = {}
      <4>1. \A n \in T : ~(n <= 0)
        BY <1>1
      <4>. QED BY <4>1
    <3>2. Sum({}, F) = {} /\ Sum({}, G) = {}
      BY DEF Sum
    <3>3. Good(0)
      <4>. HIDE DEF Upto
      <4>. QED BY <3>1, <3>2, FS_EmptySet
    <3>. QED BY <2>3, <3>3
  <2>5. PICK j \in Nat : i = j + 1
    <3>1. i - 1 \in Nat /\ i = (i - 1) + 1
      BY <2>3, <2>4
    <3>. QED BY <3>1
  <2>6. Good(j)
    <3>1. j \notin D
      <4>. HIDE DEF D
      <4>. QED BY <2>2, <2>5
    <3>. HIDE DEF Good
    <3>. QED BY <3>1
  <2>7. Upto(i) = IF i \in T THEN Upto(j) \cup {i} ELSE Upto(j)
    <3>1. \A n \in T : n <= i <=> n <= j \/ n = i
      BY <1>1, <2>5
    <3>2. ~(i <= j) /\ i <= i
      BY <2>5
    <3>. QED BY <3>1, <3>2
  <2>8. i \notin Upto(j)
    BY <2>5
  <2>9. CASE i \notin T
    <3>1. Upto(i) = Upto(j)
      <4>. HIDE DEF Upto
      <4>. QED BY <2>7, <2>9
    <3>. HIDE DEF Upto
    <3>. QED BY <2>3, <2>6, <3>1
  <2>10. CASE i \in T
    <3>. HIDE DEF Upto
    <3>1. ASSUME NEW H, IsFiniteSet(H[i]), IsFiniteSet(Sum(Upto(j), H))
          PROVE  /\ IsFiniteSet(Sum(Upto(i), H))
                 /\ Cardinality(Sum(Upto(i), H)) = Cardinality(Sum(Upto(j), H)) + Cardinality(H[i])
      <4>1. PICK S, R : S = Sum(Upto(j), H) /\ R = {i} \X H[i]
        OBVIOUS
      <4>2. Sum(Upto(i), H) = S \cup R
        <5>1. Upto(i) = Upto(j) \cup {i}
          BY <2>7, <2>10
        <5>. QED BY <4>1, <5>1 DEF Sum
      <4>3. S \cap R = {}
        BY <2>8, <4>1, InSum
      <4>4. IsFiniteSet({i}) /\ Cardinality({i}) = 1
        BY FS_Singleton
      <4>5. Cardinality(H[i]) \in Nat /\ Cardinality(S) \in Nat /\ IsFiniteSet(S)
        BY <3>1, <4>1, FS_CardinalityType
      <4>6. IsFiniteSet(R) /\ Cardinality(R) = 1 * Cardinality(H[i])
        BY <3>1, <4>1, <4>4, FS_Product
      <4>7. /\ IsFiniteSet(S \cup R)
            /\ Cardinality(S \cup R) = Cardinality(S) + Cardinality(R) - Cardinality(S \cap R)
        BY <4>5, <4>6, FS_Union
      <4>8. Cardinality(S \cap R) = 0
        BY <4>3, FS_EmptySet
      <4>9. Cardinality(S \cup R) = Cardinality(S) + Cardinality(H[i])
        BY <4>5, <4>6, <4>7, <4>8
      <4>. QED BY <4>1, <4>2, <4>7, <4>9
    <3>2. IsFiniteSet(F[i]) /\ IsFiniteSet(G[i]) /\ Cardinality(F[i]) = Cardinality(G[i])
      BY <2>10
    <3>3. Good(i)
      BY <2>6, <3>1, <3>2
    <3>. QED BY <2>3, <3>3
  <2>. QED BY <2>9, <2>10
<1>3. Upto(N) = T
  BY <1>1
<1>4. Good(N)
  <2>. HIDE DEF Good
  <2>. QED BY <1>2
<1>. HIDE DEF Upto
<1>. QED BY <1>3, <1>4

-------------------------------------------------------------------------------
(* What a rank has executed.                                                    *)

\* The statements of a type, each with the positions at which the rank is to execute it, and
\* those at which it has.
OfType(p, type) == {n \in NodesOf(p) : TypeOf(p, n) = type}
Visits(p, r, type) == Sum(OfType(p, type), [n \in OfType(p, type) |-> Ways(p, r, n)])
Made(r, type) == {w \in Visits(program, r, type) : Before(w[2], Position(r))}

LEMMA VisitsAre ==
  ASSUME NEW p \in Programs, NEW r \in Ranks, NEW type, type \notin BlockTypes, NEW n, NEW x
  PROVE  << n, x >> \in Visits(p, r, type) <=> TypeOf(p, n) = type /\ IsPlace(p, n, x) /\ Reaches(p, r, x)
<1>1. << n, x >> \in Visits(p, r, type) <=> n \in OfType(p, type) /\ IsWay(p, r, n, x)
  <2>1. PICK F : F = [m \in OfType(p, type) |-> Ways(p, r, m)]
    OBVIOUS
  <2>2. \A m \in OfType(p, type) : F[m] = Ways(p, r, m)
    BY <2>1
  <2>3. << n, x >> \in Sum(OfType(p, type), F) <=> n \in OfType(p, type) /\ x \in F[n]
    BY InSum
  <2>4. Visits(p, r, type) = Sum(OfType(p, type), F)
    BY <2>1 DEF Visits
  <2>. QED BY <2>2, <2>3, <2>4, WaysAre
<1>2. ASSUME n \in OfType(p, type), IsWay(p, r, n, x)
      PROVE  IsPlace(p, n, x)
  <2>1. n \in NodesOf(p) /\ TypeOf(p, n) \notin BlockTypes
    BY <1>2 DEF OfType
  <2>2. /\ IsPosition(p, x) /\ ParentOf(p, n) \in DOMAIN x /\ x[ParentOf(p, n)].next = n
        /\ \A a \in DOMAIN x : a <= ParentOf(p, n)
    BY <1>2 DEF IsWay
  <2>3. n \notin DOMAIN x
    <3>1. ParentOf(p, n) \in Nat /\ n \in Nat /\ ParentOf(p, n) < n
      BY <2>1, TreeTypes
    <3>2. ~(n <= ParentOf(p, n))
      BY <3>1
    <3>. QED BY <2>2, <3>2
  <2>. QED BY <2>1, <2>2, <2>3 DEF IsPlace
<1>3. ASSUME TypeOf(p, n) = type, IsPlace(p, n, x), Reaches(p, r, x)
      PROVE  n \in OfType(p, type) /\ IsWay(p, r, n, x)
  BY <1>3, PlaceTypes DEF OfType, IsWay
<1>4. n \in OfType(p, type) /\ IsWay(p, r, n, x) => TypeOf(p, n) = type /\ Reaches(p, r, x)
  BY DEF OfType, IsWay
<1>. QED BY <1>1, <1>2, <1>3, <1>4

LEMMA VisitsCount ==
  ASSUME NEW p \in Programs, NEW r \in Ranks, NEW type
  PROVE  /\ IsFiniteSet(Visits(p, r, type))
         /\ Cardinality(Visits(p, r, type))
              = Cardinality(UNION {{n} \X (1 .. Executions(p, r, n)) : n \in OfType(p, type)})
<1>1. PICK T, F, G : /\ T = OfType(p, type)
                     /\ F = [n \in T |-> Ways(p, r, n)] /\ G = [n \in T |-> 1 .. Executions(p, r, n)]
  OBVIOUS
<1>2. Visits(p, r, type) = Sum(T, F)
  BY <1>1 DEF Visits
<1>3. UNION {{n} \X (1 .. Executions(p, r, n)) : n \in OfType(p, type)} = Sum(T, G)
  BY <1>1 DEF Sum
<1>4. PICK N \in Nat : T \subseteq 1 .. N
  BY <1>1, TreeTypes DEF OfType
<1>5. ASSUME NEW n \in T
      PROVE  IsFiniteSet(F[n]) /\ IsFiniteSet(G[n]) /\ Cardinality(F[n]) = Cardinality(G[n])
  <2>1. n \in NodesOf(p)
    BY <1>1 DEF OfType
  <2>2. F[n] = Ways(p, r, n) /\ G[n] = 1 .. Executions(p, r, n)
    BY <1>1
  <2>3. IsFiniteSet(Ways(p, r, n)) /\ Cardinality(Ways(p, r, n)) = Executions(p, r, n)
    BY <2>1, WaysCount
  <2>4. PICK k \in Nat : k = Executions(p, r, n)
    BY <2>1, ExecutionsTypes
  <2>5. IsFiniteSet(1 .. k) /\ Cardinality(1 .. k) = IF 1 > k THEN 0 ELSE k - 1 + 1
    BY FS_Interval
  <2>6. Cardinality(1 .. k) = k
    BY <2>5
  <2>. QED BY <2>2, <2>3, <2>4, <2>5, <2>6
<1>6. IsFiniteSet(Sum(T, F)) /\ Cardinality(Sum(T, F)) = Cardinality(Sum(T, G))
  BY <1>4, <1>5, SumsAgree
<1>. QED BY <1>2, <1>3, <1>6

\* What is counted for rank r, and whether it is about to execute a statement of a type.
Tallies == succeed \in [Ranks -> [IOTypes -> Nat]] /\ fail \in [Ranks -> [IOTypes -> Nat]]
Tally(r, type) == succeed[r][type] + fail[r][type]
IsAt(r, type) == \E c : IsNext(r, c) /\ Stmt(c).type = type

LEMMA CountTallies ==
  ASSUME Tallies, NEW r \in Ranks, NEW type \in IOTypes, Count(r, type)
  PROVE  /\ Tallies'
         /\ \A q \in Ranks, t \in IOTypes :
              Tally(q, t)' = IF q = r /\ t = type THEN Tally(q, t) + 1 ELSE Tally(q, t)
<1>1. PICK call \in Outcomes(type) :
        /\ succeed' = [succeed EXCEPT ![r][type] = @ + IF call.success THEN 1 ELSE 0]
        /\ fail' = [fail EXCEPT ![r][type] = @ + IF call.success THEN 0 ELSE 1]
  BY DEF Count
<1>2. succeed \in [Ranks -> [IOTypes -> Nat]] /\ fail \in [Ranks -> [IOTypes -> Nat]]
  BY DEF Tallies
<1>3. Tallies'
  <2>1. (IF call.success THEN 1 ELSE 0) \in Nat /\ (IF call.success THEN 0 ELSE 1) \in Nat
    OBVIOUS
  <2>. QED BY <1>1, <1>2, <2>1 DEF Tallies
<1>4. ASSUME NEW q \in Ranks, NEW t \in IOTypes
      PROVE  Tally(q, t)' = IF q = r /\ t = type THEN Tally(q, t) + 1 ELSE Tally(q, t)
  <2>1. PICK i, j : i = succeed[q][t] /\ j = fail[q][t] /\ i \in Nat /\ j \in Nat
    BY <1>2
  <2>2. CASE q = r /\ t = type
    <3>1. /\ succeed'[q][t] = i + IF call.success THEN 1 ELSE 0
          /\ fail'[q][t] = j + IF call.success THEN 0 ELSE 1
      BY <1>1, <1>2, <2>1, <2>2
    <3>2. succeed'[q][t] + fail'[q][t] = (i + j) + 1
      BY <2>1, <3>1
    <3>. QED BY <2>1, <2>2, <3>2 DEF Tally
  <2>3. CASE ~(q = r /\ t = type)
    <3>1. succeed'[q][t] = succeed[q][t] /\ fail'[q][t] = fail[q][t]
      BY <1>1, <1>2, <2>3
    <3>. QED BY <2>3, <3>1 DEF Tally
  <2>. QED BY <2>2, <2>3
<1>. QED BY <1>3, <1>4

LEMMA ActsTally ==
  ASSUME Safe, CallInv, MeetInv, Tallies, NEW r \in Ranks, Acts(r)
  PROVE  /\ Tallies'
         /\ \A q \in Ranks, t \in IOTypes :
              Tally(q, t)' = IF q = r /\ ~parseOnly /\ IsAt(r, t) THEN Tally(q, t) + 1 ELSE Tally(q, t)
<1>1. CASE /\ succeed' = succeed /\ fail' = fail
           /\ parseOnly \/ \A t \in IOTypes : ~IsAt(r, t)
  BY <1>1 DEF Tallies, Tally
<1>2. ASSUME NEW type \in IOTypes, Count(r, type), ~parseOnly, IsAt(r, type)
      PROVE  /\ Tallies'
             /\ \A q \in Ranks, t \in IOTypes :
                  Tally(q, t)' = IF q = r /\ ~parseOnly /\ IsAt(r, t) THEN Tally(q, t) + 1 ELSE Tally(q, t)
  <2>1. \A t : IsAt(r, t) <=> t = type
    BY <1>2, NextIsComing DEF IsAt
  <2>. QED BY <1>2, <2>1, CountTallies
<1>3. ASSUME NEW c \in Nodes, \/ Repeat(r, c) \/ Group(r, c) \/ Master(r, c) \/ Local(r, c) \/ Time(r, c)
                              \/ CTime(r, c) \/ SkipIO(r, c)
      PROVE  /\ succeed' = succeed /\ fail' = fail
             /\ parseOnly \/ \A t \in IOTypes : ~IsAt(r, t)
  <2>1. succeed' = succeed /\ fail' = fail
    BY <1>3 DEF Repeat, Group, Master, Local, Time, CTime, SkipIO, ioVars
  <2>2. CASE SkipIO(r, c)
    BY <2>1, <2>2 DEF SkipIO
  <2>3. CASE ~SkipIO(r, c)
    <3>1. PICK type : At(r, c, type) /\ type \notin IOTypes
      BY <1>3, <2>3 DEF Repeat, Group, Master, Local, Time, CTime, IOTypes
    <3>2. IsNext(r, c) /\ Stmt(c).type = type
      BY <3>1, AtNext
    <3>3. \A t \in IOTypes : ~IsAt(r, t)
      BY <3>1, <3>2, NextIsComing DEF IsAt
    <3>. QED BY <2>1, <3>3
  <2>. QED BY <2>2, <2>3
<1>4. ASSUME RepeatEnd(r) \/ GroupEnd(r) \/ MasterEnd(r) \/ TimeEnd(r) \/ CTimeEnd(r)
      PROVE  succeed' = succeed /\ fail' = fail /\ \A t \in IOTypes : ~IsAt(r, t)
  <2>1. succeed' = succeed /\ fail' = fail
    BY <1>4 DEF RepeatEnd, GroupEnd, MasterEnd, TimeEnd, CTimeEnd, ioVars
  <2>2. Pending(r) = {}
    BY <1>4 DEF RepeatEnd, GroupEnd, MasterEnd, TimeEnd, CTimeEnd, AtEnd
  <2>. QED BY <2>1, <2>2 DEF IsAt, IsNext
<1>5. ASSUME BarrierReturns(r) \/ ParallelIOReturns(r)
      PROVE  IsNext(r, Current(r)) /\ CallAt(r, Current(r))
  <2>1. mpi[r] # NoCall
    BY <1>5 DEF BarrierReturns, ParallelIOReturns, NoCall
  <2>. QED BY <2>1, CurrentIs DEF CallInv, MeetInv, IsNext, Safe
<1>6. ASSUME BarrierReturns(r)
      PROVE  succeed' = succeed /\ fail' = fail /\ \A t \in IOTypes : ~IsAt(r, t)
  <2>1. succeed' = succeed /\ fail' = fail /\ mpi[r].op = "MPI_Barrier"
    BY <1>6 DEF BarrierReturns, ioVars
  <2>2. Stmt(Current(r)).type \notin IOTypes
    BY <1>5, <1>6, <2>1 DEF CallAt, IOTypes
  <2>. QED BY <1>5, <1>6, <2>1, <2>2, NextIsComing DEF IsAt
<1>7. ASSUME ParallelIOReturns(r)
      PROVE  \E type \in IOTypes : Count(r, type) /\ ~parseOnly /\ IsAt(r, type)
  <2>1. mpi[r].op \in IOTypes /\ mpi[r].op # "MPI_Barrier" /\ Count(r, mpi[r].op)
    BY <1>7, ParallelCounts DEF IOTypes
  <2>2. Stmt(Current(r)).type = mpi[r].op /\ ~parseOnly
    BY <1>5, <1>7, <2>1 DEF CallAt, CollectiveAt, Stmt, parseOnly, IOTypes
  <2>. QED BY <1>5, <1>7, <2>1, <2>2 DEF IsAt
<1>8. ASSUME NEW c \in Nodes, LocalIO(r, c)
      PROVE  \E type \in IOTypes : Count(r, type) /\ ~parseOnly /\ IsAt(r, type)
  <2>1. PICK type \in IOTypes : At(r, c, type) /\ Count(r, type)
    BY <1>8, LocalCounts
  <2>2. ~parseOnly
    BY <1>8 DEF LocalIO
  <2>. QED BY <2>1, <2>2, AtNext DEF IsAt
<1>9. \/ /\ succeed' = succeed /\ fail' = fail
         /\ parseOnly \/ \A t \in IOTypes : ~IsAt(r, t)
      \/ \E type \in IOTypes : Count(r, type) /\ ~parseOnly /\ IsAt(r, type)
  BY <1>3, <1>4, <1>6, <1>7, <1>8 DEF Acts
<1>. QED BY <1>1, <1>2, <1>9

\* A rank that moves has executed the statement it was at, and nothing else.
LEMMA MadeMoves ==
  ASSUME Safe, CourseInv, Safe', program' = program, NEW r \in Ranks, NEW type \in IOTypes,
         Moves(program, r, Position(r), Position(r)')
  PROVE  Cardinality(Made(r, type)') = IF IsAt(r, type) THEN Cardinality(Made(r, type)) + 1
                                       ELSE Cardinality(Made(r, type))
<1>1. program \in Programs /\ Nodes = NodesOf(program) /\ type \notin BlockTypes
  BY ProgramTypes DEF Safe, IOTypes, BlockTypes
<1>2. PICK z, y, V : z = Position(r) /\ y = Position(r)' /\ V = Visits(program, r, type)
  OBVIOUS
<1>3. IsPosition(program, z) /\ IsPosition(program, y) /\ Moves(program, r, z, y)
  <2>1. PositionFacts(r) /\ PositionFacts(r)'
    BY Positions, NextPositions
  <2>2. IsPosition(program, z)
    BY <1>2, <2>1 DEF PositionFacts
  <2>3. IsPosition(program', Position(r)')
    BY <2>1 DEF PositionFacts
  <2>. QED BY <1>2, <2>2, <2>3
<1>4. PICK S, T : /\ S = {w \in V : Before(w[2], z)} /\ T = {w \in V : Before(w[2], y)}
                  /\ Made(r, type) = S /\ Made(r, type)' = T
  <2>1. Made(r, type) = {w \in V : Before(w[2], z)}
    BY <1>2 DEF Made
  <2>2. Visits(program', r, type) = V
    BY <1>2
  <2>3. Made(r, type)' = {w \in V : Before(w[2], y)}
    BY <1>2, <2>2 DEF Made
  <2>. QED BY <2>1, <2>3
<1>5. ASSUME NEW w \in V
      PROVE  /\ w = << w[1], w[2] >> /\ TypeOf(program, w[1]) = type
             /\ IsPlace(program, w[1], w[2]) /\ Reaches(program, r, w[2])
             /\ Before(w[2], y) <=> Before(w[2], z) \/ w[2] = z
  <2>1. PICK n, x : w = << n, x >>
    BY <1>2, InSum DEF Visits
  <2>2. TypeOf(program, n) = type /\ IsPlace(program, n, x) /\ Reaches(program, r, x)
    BY <1>1, <1>2, <2>1, VisitsAre
  <2>3. Before(x, y) <=> Before(x, z) \/ x = z
    BY <1>1, <1>3, <2>2, BeforeMoves
  <2>. QED BY <2>1, <2>2, <2>3
<1>6. IsFiniteSet(S)
  BY <1>1, <1>2, <1>4, VisitsCount, FS_Subset
<1>7. ~Before(z, z)
  BY <1>1, <1>3, NotBeforeItself
<1>8. CASE IsAt(r, type)
  <2>1. PICK c : IsNext(r, c) /\ Stmt(c).type = type
    BY <1>8 DEF IsAt
  <2>2. IsPlace(program, c, z) /\ Reaches(program, r, z) /\ TypeOf(program, c) = type
    BY <1>1, <1>2, <2>1, PlaceOf DEF TypeOf, Stmt
  <2>3. << c, z >> \in V
    BY <1>1, <1>2, <2>2, VisitsAre
  <2>4. \A w \in V : w[2] = z => w = << c, z >>
    BY <1>1, <1>5, <1>7, <2>2, Comparable
  <2>5. T = S \cup {<< c, z >>}
    BY <1>4, <1>5, <2>3, <2>4
  <2>6. << c, z >> \notin S
    BY <1>4, <1>7
  <2>7. Cardinality(T) = Cardinality(S) + 1
    BY <1>6, <2>5, <2>6, FS_AddElement
  <2>. QED BY <1>4, <1>8, <2>7
<1>9. CASE ~IsAt(r, type)
  <2>1. ASSUME NEW w \in V, w[2] = z
        PROVE  FALSE
    <3>1. PICK n, t : n = w[1] /\ t = ParentOf(program, n)
      OBVIOUS
    <3>2. IsPlace(program, n, z) /\ TypeOf(program, n) = type
      BY <1>5, <2>1, <3>1
    <3>3. IsTop(z, t) /\ z[t].next = n /\ n \in Nodes
      BY <1>1, <3>1, <3>2, PlaceTypes DEF IsTop
    <3>4. IsNext(r, n)
      BY <1>2, <3>3, TopNext
    <3>. QED BY <1>9, <3>2, <3>4 DEF IsAt, TypeOf, Stmt
  <2>2. T = S
    BY <1>4, <1>5, <2>1
  <2>. QED BY <1>4, <1>9, <2>2
<1>. QED BY <1>8, <1>9

\* What is counted is what has been executed.
TallyInv ==
  /\ Tallies
  /\ \A r \in Ranks, type \in IOTypes :
       Tally(r, type) = IF parseOnly THEN 0 ELSE Cardinality(Made(r, type))

LEMMA TallyInit == Init /\ PlacesInv => TallyInv
<1>. SUFFICES ASSUME Init, PlacesInv PROVE TallyInv
  OBVIOUS
<1>1. Safe /\ program \in Programs
  BY InPlaces
<1>2. Tallies
  BY DEF Init, Tallies
<1>3. ASSUME NEW r \in Ranks, NEW type \in IOTypes
      PROVE  Tally(r, type) = IF parseOnly THEN 0 ELSE Cardinality(Made(r, type))
  <2>1. Tally(r, type) = 0
    BY DEF Init, Tally
  <2>2. ASSUME NEW w \in Made(r, type)
        PROVE  FALSE
    <3>1. w \in Visits(program, r, type) /\ Before(w[2], Position(r)) /\ type \notin BlockTypes
      BY DEF Made, IOTypes, BlockTypes
    <3>2. PICK n, x : w = << n, x >>
      BY <3>1, InSum DEF Visits
    <3>3. IsPlace(program, n, x) /\ Before(x, Position(r))
      BY <1>1, <3>1, <3>2, VisitsAre
    <3>. QED BY <1>1, <3>3, AtStart DEF Passed
  <2>3. Made(r, type) = {}
    BY <2>2
  <2>. QED BY <2>1, <2>3, FS_EmptySet
<1>. QED BY <1>2, <1>3 DEF TallyInv

LEMMA TallyStep == TallyInv /\ PlacesInv /\ PlacesInv' /\ [Next]_allVars => TallyInv'
<1>. SUFFICES ASSUME TallyInv, PlacesInv, PlacesInv', [Next]_allVars PROVE TallyInv'
  OBVIOUS
<1>1. Safe /\ MeetingInv /\ program \in Programs /\ Tallies
  BY InPlaces DEF TallyInv
<1>2. Safe'
  BY DEF PlacesInv, IInv, Safe
<1>3. CASE Idle
  <2>1. program' = program /\ frames' = frames /\ succeed' = succeed /\ fail' = fail
    BY <1>3, IdleSteps
  <2>2. Tallies'
    BY <1>1, <2>1 DEF Tallies
  <2>3. ASSUME NEW r \in Ranks, NEW type \in IOTypes
        PROVE  /\ Tally(r, type)' = Tally(r, type) /\ parseOnly' = parseOnly
               /\ Made(r, type)' = Made(r, type)
    <3>1. Position(r)' = Position(r)
      BY <2>1, SamePosition
    <3>. QED BY <2>1, <3>1 DEF Tally, parseOnly, Made
  <2>. QED BY <2>2, <2>3 DEF TallyInv
<1>4. ASSUME NEW q \in Ranks, Acts(q)
      PROVE  TallyInv'
  <2>1. /\ Goes(q) /\ program' = program
        /\ \A r \in Ranks \ {q} : frames'[r] = frames[r]
    BY <1>1, <1>4, ActsGo DEF MeetingInv
  <2>2. Moves(program, q, Position(q), Position(q)')
    BY <1>1, <1>2, <2>1, GoMoves DEF Going, MeetingInv
  <2>3. /\ Tallies'
        /\ \A r \in Ranks, type \in IOTypes :
             Tally(r, type)' = IF r = q /\ ~parseOnly /\ IsAt(q, type) THEN Tally(r, type) + 1 ELSE Tally(r, type)
    BY <1>1, <1>4, ActsTally DEF MeetingInv
  <2>4. parseOnly' = parseOnly
    BY <2>1 DEF parseOnly
  <2>5. ASSUME NEW r \in Ranks, NEW type \in IOTypes
        PROVE  Tally(r, type)' = IF parseOnly' THEN 0 ELSE Cardinality(Made(r, type)')
    <3>1. Tally(r, type) = IF parseOnly THEN 0 ELSE Cardinality(Made(r, type))
      BY DEF TallyInv
    <3>2. CASE r = q
      <4>1. Cardinality(Made(r, type)') = IF IsAt(r, type) THEN Cardinality(Made(r, type)) + 1
                                          ELSE Cardinality(Made(r, type))
        BY <1>1, <1>2, <2>1, <2>2, <3>2, MadeMoves DEF MeetingInv
      <4>. QED BY <2>3, <2>4, <3>1, <3>2, <4>1
    <3>3. CASE r # q
      <4>1. Position(r)' = Position(r)
        BY <2>1, <3>3, SamePosition
      <4>2. Made(r, type)' = Made(r, type)
        BY <2>1, <4>1 DEF Made
      <4>. QED BY <2>3, <2>4, <3>1, <3>3, <4>2
    <3>. QED BY <3>2, <3>3
  <2>. QED BY <2>3, <2>5 DEF TallyInv
<1>. QED BY <1>3, <1>4, StepKinds

\* Every I/O statement has been executed, and counted as succeeded or failed, exactly as often
\* as the loops, groups and masters around it say (interpreter.c:139-236), however they are
\* nested; none with --dry-run.
THEOREM EachAsOften == Spec => []ExecutedAsOften
<1>1. PlacesInv /\ TallyInv => ExecutedAsOften
  <2>. SUFFICES ASSUME PlacesInv, TallyInv, NEW r \in Ranks, Finished(r), NEW type \in IOTypes
                PROVE  succeed[r][type] + fail[r][type] =
                         IF parseOnly THEN 0
                         ELSE Cardinality(UNION {{n} \X (1 .. Executions(program, r, n)) :
                                                   n \in {m \in Nodes : Stmt(m).type = type}})
    BY DEF ExecutedAsOften
  <2>1. Safe /\ program \in Programs /\ type \notin BlockTypes /\ Nodes = NodesOf(program)
    BY InPlaces, ProgramTypes DEF IOTypes, BlockTypes, Safe
  <2>2. ASSUME NEW w \in Visits(program, r, type)
        PROVE  Before(w[2], Position(r))
    <3>1. PICK n, x : w = << n, x >>
      BY InSum DEF Visits
    <3>2. IsPlace(program, n, x) /\ Reaches(program, r, x)
      BY <2>1, <3>1, VisitsAre
    <3>. QED BY <2>1, <3>1, <3>2, FinishedPassed
  <2>3. Made(r, type) = Visits(program, r, type)
    BY <2>2 DEF Made
  <2>4. OfType(program, type) = {m \in Nodes : Stmt(m).type = type}
    BY <2>1 DEF OfType, TypeOf, Stmt
  <2>5. Cardinality(Made(r, type))
          = Cardinality(UNION {{n} \X (1 .. Executions(program, r, n)) : n \in OfType(program, type)})
    BY <2>1, <2>3, VisitsCount
  <2>6. Tally(r, type) = IF parseOnly THEN 0 ELSE Cardinality(Made(r, type))
    BY DEF TallyInv
  <2>. QED BY <2>4, <2>5, <2>6 DEF Tally
<1>2. Init => PlacesInv /\ TallyInv
  BY PlacesInit, TallyInit
<1>3. PlacesInv /\ TallyInv /\ [Next]_allVars => PlacesInv' /\ TallyInv'
  BY PlacesStep, TallyStep
<1>. QED BY <1>1, <1>2, <1>3, PTL DEF Spec
===============================================================================
