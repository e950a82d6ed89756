-------------------------- MODULE KernelMemoryProofs --------------------------
(***************************************************************************)
(* Theorems about KernelMemory, for every number of entries per table,     *)
(* every memory map, framebuffer and set of devices its assumptions allow. *)
(*                                                                         *)
(* The argument: the tables are a tree of four levels (Tree), so that two  *)
(* pages whose walks end at the same entry are the same page; adding an    *)
(* empty table under a free entry keeps the tree and changes no            *)
(* translation; setting an entry of the last level changes one.  A frame   *)
(* RequestPage returns was clear in the bitmap, and everything in use is   *)
(* set in it, so that no frame gets two uses.  The heap has as many pages  *)
(* as it has frames, so it is no longer than the memory, and stays away    *)
(* from the pages that are mapped to themselves.                           *)
(***************************************************************************)
EXTENDS KernelMemory, FiniteSetTheorems, TLAPS

-----------------------------------------------------------------------------
(* Arithmetic: the indices of PageMapIndexer tell the pages apart.           *)

\* The indices into a table.
Rows == 0 .. Entries - 1

\* What division by a positive number means.
LEMMA Division ==
  ASSUME NEW a \in Nat, NEW b \in Nat \ {0}
  PROVE  /\ a \div b \in Nat /\ a % b \in 0 .. b - 1
         /\ a = b * (a \div b) + (a % b)
         /\ b * (a \div b) <= a /\ a < b * (a \div b) + b
<1>1. a \div b \in Nat /\ b * (a \div b) <= a /\ a < b * (a \div b) + b
  BY SMT
<1>2. a % b \in 0 .. b - 1 /\ a = b * (a \div b) + (a % b)
  BY SMT
<1>3. QED
  BY <1>1, <1>2

\* Products grow with their factors.
LEMMA Product ==
  ASSUME NEW a \in Nat, NEW b \in Nat, NEW c \in Nat, a <= c
  PROVE  a * b \in Nat /\ c * b \in Nat /\ a * b <= c * b /\ b * a <= b * c
<1>1. (c - a) \in Nat /\ (c - a) * b \in Nat /\ a * b \in Nat /\ c * b \in Nat
  BY SMT
<1>2. c * b - a * b = (c - a) * b
  BY SMT
<1>3. a * b = b * a /\ c * b = b * c
  BY SMT
<1>4. QED
  BY <1>1, <1>2, <1>3, SMT

\* A quotient is known by its bounds.
LEMMA Quotient ==
  ASSUME NEW a \in Nat, NEW b \in Nat \ {0}, NEW q \in Nat, b * q <= a, a < b * q + b
  PROVE  a \div b = q
<1> DEFINE d == a \div b
<1>1. d \in Nat /\ b * d <= a /\ a < b * d + b
  BY Division
<1> HIDE DEF d
<1>2. ~(d < q)
  <2>1. SUFFICES ASSUME d + 1 <= q PROVE FALSE
    BY <1>1, SMT
  <2>2. b * (d + 1) <= b * q
    BY <1>1, <2>1, Product
  <2>3. b * (d + 1) = b * d + b
    BY <1>1, SMT
  <2>4. QED
    BY <1>1, <2>2, <2>3, SMT
<1>3. ~(q < d)
  <2>1. SUFFICES ASSUME q + 1 <= d PROVE FALSE
    BY <1>1, SMT
  <2>2. b * (q + 1) <= b * d
    BY <1>1, <2>1, Product
  <2>3. b * (q + 1) = b * q + b
    BY SMT
  <2>4. QED
    BY <1>1, <2>2, <2>3, SMT
<1>4. d = q
  BY <1>1, <1>2, <1>3, SMT
<1>5. QED
  BY <1>4 DEF d

\* Dividing twice is dividing by the product.
LEMMA DividedTwice ==
  ASSUME NEW a \in Nat, NEW b \in Nat \ {0}, NEW c \in Nat \ {0}
  PROVE  b * c \in Nat \ {0} /\ a \div (b * c) = (a \div b) \div c
<1> DEFINE d == a \div b
           e == d \div c
<1>1. d \in Nat /\ b * d <= a /\ a < b * d + b
  BY Division
<1> HIDE DEF d
<1>2. e \in Nat /\ c * e <= d /\ d < c * e + c
  BY <1>1, Division
<1> HIDE DEF e
<1>9. c * e \in Nat /\ d + 1 <= c * e + c
  BY <1>1, <1>2, SMT
<1>3. b * c \in Nat \ {0}
  <2>1. 1 * c <= b * c /\ b * c \in Nat
    BY Product
  <2>2. QED
    BY <2>1, SMT
<1>4. b * (c * e) <= b * d /\ b * (d + 1) <= b * (c * e + c)
  <2>1. c * e + c \in Nat /\ d + 1 \in Nat
    BY <1>1, <1>9
  <2>2. QED
    BY <1>1, <1>2, <1>9, <2>1, Product
<1>5. /\ b * (c * e) = (b * c) * e
      /\ b * (c * e + c) = (b * c) * e + b * c
      /\ b * (d + 1) = b * d + b
  <2>1. b \in Int /\ c \in Int /\ d \in Int /\ e \in Int
    BY <1>1, <1>2
  <2>2. QED
    BY <2>1, SMT
<1>6. (b * c) * e <= a /\ a < (b * c) * e + b * c
  <2> DEFINE p == b * c
             q == (b * c) * e
             r == b * d
  <2>1. p \in Nat /\ q \in Int /\ r \in Int
    BY <1>1, <1>2, <1>3, SMT
  <2>2. q <= r /\ r + b <= q + p /\ r <= a /\ a < r + b
    BY <1>1, <1>4, <1>5
  <2> HIDE DEF p, q, r
  <2>3. q <= a /\ a < q + p
    BY <2>1, <2>2
  <2>4. QED
    BY <2>3 DEF p, q
<1>7. a \div (b * c) = e
  BY <1>2, <1>3, <1>6, Quotient
<1>8. QED
  BY <1>3, <1>7 DEF d, e

\* So the divisions of PageMapIndexer are repeated shifts by one level.
LEMMA Levels ==
  ASSUME NEW b \in Nat \ {0}, NEW n \in Nat
  PROVE  /\ b * b \in Nat \ {0} /\ b * b * b \in Nat \ {0} /\ b * b * b * b \in Nat \ {0}
         /\ n \div (b * b) = (n \div b) \div b
         /\ n \div (b * b * b) = ((n \div b) \div b) \div b
         /\ n \div (b * b * b * b) = (((n \div b) \div b) \div b) \div b
<1> DEFINE Times(x, y)  == x * y
           Divide(x, y) == x \div y
<1>1. \A x \in Nat, y, z \in Nat \ {0} :
        /\ Times(y, z) \in Nat \ {0}
        /\ Divide(x, Times(y, z)) = Divide(Divide(x, y), z)
  BY DividedTwice
<1> HIDE DEF Times, Divide
<1> DEFINE square == Times(b, b)
           cube   == Times(square, b)
<1>2. square \in Nat \ {0} /\ Divide(n, square) = Divide(Divide(n, b), b)
  BY <1>1
<1> HIDE DEF square
<1>3. cube \in Nat \ {0} /\ Divide(n, cube) = Divide(Divide(n, square), b)
  BY <1>1, <1>2
<1> HIDE DEF cube
<1>4. Times(cube, b) \in Nat \ {0} /\ Divide(n, Times(cube, b)) = Divide(Divide(n, cube), b)
  BY <1>1, <1>3
<1>5. QED
  BY <1>2, <1>3, <1>4 DEF square, cube, Times, Divide

\* The four indices are rows of a table,
LEMMA IndexTypes ==
  ASSUME NEW v \in Nat
  PROVE  /\ PageMapIndexer(v).P_i \in Rows /\ PageMapIndexer(v).PT_i \in Rows
         /\ PageMapIndexer(v).PD_i \in Rows /\ PageMapIndexer(v).PDP_i \in Rows
<1>1. Entries \in Nat \ {0}
  BY PageTablesAssumption
<1>2. \A n \in Nat : n % Entries \in Rows
  BY <1>1, Division DEF Rows
<1>3. Entries * Entries \in Nat \ {0} /\ Entries * Entries * Entries \in Nat \ {0}
  BY <1>1, Levels
<1>4. /\ v \div Entries \in Nat /\ v \div (Entries * Entries) \in Nat
      /\ v \div (Entries * Entries * Entries) \in Nat
  BY <1>1, <1>3, Division
<1>5. QED
  BY <1>2, <1>4 DEF PageMapIndexer

\* and tell the pages apart.
LEMMA IndicesTellApart ==
  ASSUME NEW u \in VirtualPages, NEW v \in VirtualPages,
         PageMapIndexer(u) = PageMapIndexer(v)
  PROVE  u = v
<1> DEFINE E == Entries
           One(n)   == n \div E
           Two(n)   == (n \div E) \div E
           Three(n) == ((n \div E) \div E) \div E
<1>1. E \in Nat \ {0}
  BY PageTablesAssumption
<1> HIDE DEF E
<1>2. E * E \in Nat \ {0} /\ E * E * E \in Nat \ {0} /\ E * E * E * E \in Nat \ {0}
  BY <1>1, Levels
<1>3. u \in Nat /\ v \in Nat /\ u < E * E * E * E /\ v < E * E * E * E
  BY <1>2 DEF VirtualPages, E
<1>4. ASSUME NEW n \in Nat
      PROVE  /\ One(n) \in Nat /\ Two(n) \in Nat /\ Three(n) \in Nat
             /\ n \div (E * E) = Two(n) /\ n \div (E * E * E) = Three(n)
             /\ n \div (E * E * E * E) = Three(n) \div E
             /\ n = E * One(n) + (n % E)
             /\ One(n) = E * Two(n) + (One(n) % E)
             /\ Two(n) = E * Three(n) + (Two(n) % E)
  <2>1. One(n) \in Nat
    BY <1>1, Division
  <2>2. Two(n) \in Nat
    BY <1>1, <2>1, Division
  <2>3. Three(n) \in Nat
    BY <1>1, <2>2, Division
  <2>4. n \div (E * E) = Two(n) /\ n \div (E * E * E) = Three(n)
        /\ n \div (E * E * E * E) = Three(n) \div E
    BY <1>1, Levels
  <2>5. QED
    BY <1>1, <2>1, <2>2, <2>3, <2>4, Division
<1>5. ASSUME NEW n \in Nat, n < E * E * E * E
      PROVE  Three(n) % E = Three(n)
  <2>1. n \div (E * E * E * E) = Three(n) \div E
    BY <1>4
  <2>2. n \div (E * E * E * E) = 0
    BY <1>2, <1>5, Quotient
  <2>3. Three(n) = E * (Three(n) \div E) + (Three(n) % E)
    BY <1>1, <1>4, Division
  <2>4. Three(n) % E \in Nat
    BY <1>1, <1>4, Division
  <2>5. QED
    BY <1>1, <2>1, <2>2, <2>3, <2>4
<1>6. /\ u % E = v % E /\ One(u) % E = One(v) % E
      /\ (u \div (E * E)) % E = (v \div (E * E)) % E
      /\ (u \div (E * E * E)) % E = (v \div (E * E * E)) % E
  BY DEF PageMapIndexer, E
<1> HIDE DEF One, Two, Three
<1>7. Two(u) % E = Two(v) % E /\ Three(u) = Three(v)
  BY <1>3, <1>4, <1>5, <1>6
<1>8. Two(u) = Two(v)
  BY <1>3, <1>4, <1>7
<1>9. One(u) = One(v)
  BY <1>3, <1>4, <1>6, <1>8
<1>10. QED
  BY <1>3, <1>4, <1>6, <1>9

-----------------------------------------------------------------------------
(* The tables as a tree, and the walk through it.                            *)
\* What memset makes of a page.
EmptyTable == [i \in Rows |-> NotPresent]

\* The entries of the tables of m above the last level, with d[x] the level of
\* table x under the PML4.
Inner(m, d) == {e \in (DOMAIN m.tables) \X Rows : d[e[1]] < 3 /\ Present(m.tables[e[1]][e[2]])}

\* The fields of memory (the mem of KernelMemory).
IsMemory(m) == m = [pfa |-> m.pfa, PML4 |-> m.PML4, tables |-> m.tables]

\* The tables of m are a tree with the levels d: an entry above the last level
\* leads to a table one level down, no two lead to the same one, and there is
\* one to each table but the PML4.
Tree(m, d) ==
  /\ IsMemory(m)
  /\ DOMAIN m.tables \subseteq Nat
  /\ m.tables \in [DOMAIN m.tables -> [Rows -> Int]]
  /\ d \in [DOMAIN m.tables -> 0 .. 3]
  /\ \A x \in DOMAIN m.tables : d[x] = 0 <=> x = m.PML4
  /\ m.PML4 \in DOMAIN m.tables
  /\ \A x \in DOMAIN m.tables, i \in Rows :
       d[x] < 3 /\ Present(m.tables[x][i]) =>
         /\ m.tables[x][i] \in DOMAIN m.tables
         /\ d[m.tables[x][i]] = d[x] + 1
  /\ \A x, y \in DOMAIN m.tables, i, j \in Rows :
       /\ d[x] < 3 /\ d[y] < 3 /\ Present(m.tables[x][i])
       /\ m.tables[x][i] = m.tables[y][j]
       => x = y /\ i = j
  /\ \A y \in DOMAIN m.tables : y # m.PML4 =>
       \E x \in DOMAIN m.tables, i \in Rows : d[x] < 3 /\ m.tables[x][i] = y
  /\ IsFiniteSet(Inner(m, d)) /\ IsFiniteSet(DOMAIN m.tables)
  /\ Cardinality(DOMAIN m.tables) = Cardinality(Inner(m, d)) + 1

\* The walk of Translate, level by level.
Walk(m, x, i) == IF Present(x) THEN m.tables[x][i] ELSE NotPresent
PDPOf(m, v) == Walk(m, m.PML4, PageMapIndexer(v).PDP_i)
PDOf(m, v)  == Walk(m, PDPOf(m, v), PageMapIndexer(v).PD_i)
PTOf(m, v)  == Walk(m, PDOf(m, v), PageMapIndexer(v).PT_i)

\* The processor's Translate is this walk.
LEMMA TranslateIsWalk ==
  ASSUME NEW m, NEW v
  PROVE  Translate(m, v) = Walk(m, PTOf(m, v), PageMapIndexer(v).P_i)
BY DEF Translate, Walk, PTOf, PDOf, PDPOf, PageMapIndexer

\* Where the walk through a tree gets on each level.
LEMMA WalkLevels ==
  ASSUME NEW m, NEW d, Tree(m, d), NEW v \in Nat
  PROVE  /\ Present(m.PML4)
         /\ Present(PDPOf(m, v)) => PDPOf(m, v) \in DOMAIN m.tables /\ d[PDPOf(m, v)] = 1
         /\ Present(PDOf(m, v)) => /\ PDOf(m, v) \in DOMAIN m.tables /\ d[PDOf(m, v)] = 2
                                   /\ Present(PDPOf(m, v))
         /\ Present(PTOf(m, v)) => /\ PTOf(m, v) \in DOMAIN m.tables /\ d[PTOf(m, v)] = 3
                                   /\ Present(PDOf(m, v))
<1> DEFINE D == DOMAIN m.tables
<1>1. /\ PageMapIndexer(v).PT_i \in Rows /\ PageMapIndexer(v).PD_i \in Rows
      /\ PageMapIndexer(v).PDP_i \in Rows
  BY IndexTypes
<1>2. /\ m.PML4 \in D /\ d[m.PML4] = 0 /\ D \subseteq Nat
      /\ \A x \in D, i \in Rows : d[x] < 3 /\ Present(m.tables[x][i]) =>
           m.tables[x][i] \in D /\ d[m.tables[x][i]] = d[x] + 1
  BY DEF Tree
<1>3. \A x \in D : Present(x)
  BY <1>2 DEF Present, NotPresent
<1>4. ~Present(NotPresent)
  BY DEF Present
<1>5. Present(PDPOf(m, v)) => PDPOf(m, v) \in D /\ d[PDPOf(m, v)] = 1
  BY <1>1, <1>2, <1>3 DEF PDPOf, Walk
<1>6. Present(PDOf(m, v)) => /\ PDOf(m, v) \in D /\ d[PDOf(m, v)] = 2 /\ Present(PDPOf(m, v))
  BY <1>1, <1>2, <1>4, <1>5 DEF PDOf, Walk
<1>7. Present(PTOf(m, v)) => /\ PTOf(m, v) \in D /\ d[PTOf(m, v)] = 3 /\ Present(PDOf(m, v))
  BY <1>1, <1>2, <1>4, <1>6 DEF PTOf, Walk
<1>8. QED
  BY <1>2, <1>3, <1>5, <1>6, <1>7

\* Two pages whose walks meet at a table of the last level have the same indices
\* so far.
LEMMA WalksMeet ==
  ASSUME NEW m, NEW d, Tree(m, d), NEW u \in VirtualPages, NEW v \in VirtualPages,
         PTOf(m, u) = PTOf(m, v), Present(PTOf(m, v)),
         PageMapIndexer(u).P_i = PageMapIndexer(v).P_i
  PROVE  u = v
<1> DEFINE D == DOMAIN m.tables
           I(w) == PageMapIndexer(w)
<1>0. u \in Nat /\ v \in Nat
  BY DEF VirtualPages
<1>1. \A w \in {u, v} : /\ I(w).PT_i \in Rows /\ I(w).PD_i \in Rows /\ I(w).PDP_i \in Rows
  BY <1>0, IndexTypes
<1>2. \A w \in {u, v} :
        /\ PDPOf(m, w) = m.tables[m.PML4][I(w).PDP_i]
        /\ PDOf(m, w) = m.tables[PDPOf(m, w)][I(w).PD_i]
        /\ PTOf(m, w) = m.tables[PDOf(m, w)][I(w).PT_i]
        /\ PDPOf(m, w) \in D /\ d[PDPOf(m, w)] = 1 /\ Present(PDPOf(m, w))
        /\ PDOf(m, w) \in D /\ d[PDOf(m, w)] = 2 /\ Present(PDOf(m, w))
  <2>1. SUFFICES ASSUME NEW w \in {u, v}
                 PROVE  /\ PDPOf(m, w) = m.tables[m.PML4][I(w).PDP_i]
                        /\ PDOf(m, w) = m.tables[PDPOf(m, w)][I(w).PD_i]
                        /\ PTOf(m, w) = m.tables[PDOf(m, w)][I(w).PT_i]
                        /\ PDPOf(m, w) \in D /\ d[PDPOf(m, w)] = 1 /\ Present(PDPOf(m, w))
                        /\ PDOf(m, w) \in D /\ d[PDOf(m, w)] = 2 /\ Present(PDOf(m, w))
    OBVIOUS
  <2>2. Present(PTOf(m, w))
    OBVIOUS
  <2>3. /\ Present(m.PML4)
        /\ Present(PDPOf(m, w)) => PDPOf(m, w) \in D /\ d[PDPOf(m, w)] = 1
        /\ Present(PDOf(m, w)) => /\ PDOf(m, w) \in D /\ d[PDOf(m, w)] = 2
                                  /\ Present(PDPOf(m, w))
        /\ Present(PTOf(m, w)) => Present(PDOf(m, w))
    BY <1>0, WalkLevels
  <2>4. QED
    BY <2>2, <2>3 DEF PDPOf, PDOf, PTOf, Walk
<1>3. /\ m.PML4 \in D /\ d[m.PML4] = 0
      /\ \A x, y \in D, i, j \in Rows :
           d[x] < 3 /\ d[y] < 3 /\ Present(m.tables[x][i]) /\ m.tables[x][i] = m.tables[y][j]
             => x = y /\ i = j
  BY DEF Tree
<1>4. PDOf(m, u) = PDOf(m, v) /\ I(u).PT_i = I(v).PT_i
  BY <1>1, <1>2, <1>3
<1>5. PDPOf(m, u) = PDPOf(m, v) /\ I(u).PD_i = I(v).PD_i
  BY <1>1, <1>2, <1>3, <1>4
<1>6. I(u).PDP_i = I(v).PDP_i
  BY <1>1, <1>2, <1>3, <1>5
<1>7. I(u) = I(v)
  BY <1>4, <1>5, <1>6 DEF PageMapIndexer
<1>8. QED
  BY <1>7, IndicesTellApart

\* m with a table f more, empty, that entry i of table x leads to.
WithTable(m, n, x, i, f) ==
  /\ IsMemory(n) /\ n.PML4 = m.PML4
  /\ n.tables = [y \in DOMAIN m.tables \cup {f} |->
                   IF y = x THEN [m.tables[x] EXCEPT ![i] = f]
                   ELSE IF y = f THEN EmptyTable ELSE m.tables[y]]

\* The levels of its tables.
Deeper(d, x, f) == [y \in DOMAIN d \cup {f} |-> IF y = f THEN d[x] + 1 ELSE d[y]]

\* A frame that is no table yet becomes one: the tables stay a tree.
LEMMA TreeGrows ==
  ASSUME NEW m, NEW d, Tree(m, d), NEW x \in DOMAIN m.tables, NEW i \in Rows, d[x] < 3,
         ~Present(m.tables[x][i]), NEW f \in Nat \ DOMAIN m.tables,
         NEW n, WithTable(m, n, x, i, f)
  PROVE  Tree(n, Deeper(d, x, f))
<1> DEFINE D == DOMAIN m.tables
           e == Deeper(d, x, f)
<1>1. /\ D \subseteq Nat /\ m.tables \in [D -> [Rows -> Int]]
      /\ d \in [D -> 0 .. 3] /\ m.PML4 \in D
      /\ \A y \in D : d[y] = 0 <=> y = m.PML4
  BY DEF Tree
<1>2. /\ \A y \in D, j \in Rows : d[y] < 3 /\ Present(m.tables[y][j]) =>
           m.tables[y][j] \in D /\ d[m.tables[y][j]] = d[y] + 1
      /\ \A y, z \in D, j, k \in Rows :
           d[y] < 3 /\ d[z] < 3 /\ Present(m.tables[y][j]) /\ m.tables[y][j] = m.tables[z][k]
             => y = z /\ j = k
      /\ \A y \in D : y # m.PML4 => \E z \in D, j \in Rows : d[z] < 3 /\ m.tables[z][j] = y
  BY DEF Tree
<1>3. /\ DOMAIN n.tables = D \cup {f} /\ n.PML4 = m.PML4 /\ IsMemory(n)
      /\ n.tables[f] = EmptyTable
      /\ n.tables[x] = [m.tables[x] EXCEPT ![i] = f]
      /\ \A y \in D \ {x} : n.tables[y] = m.tables[y]
  BY DEF WithTable
<1>4. /\ DOMAIN e = D \cup {f} /\ e[f] = d[x] + 1
      /\ \A y \in D : e[y] = d[y]
  BY <1>1 DEF Deeper
<1>5. /\ \A j \in Rows : n.tables[x][j] = IF j = i THEN f ELSE m.tables[x][j]
      /\ \A j \in Rows : n.tables[f][j] = NotPresent
      /\ NotPresent \in Int /\ ~Present(NotPresent) /\ NotPresent \notin Nat
  BY <1>1, <1>3 DEF EmptyTable, NotPresent, Present
<1>6. \A y \in D, j \in Rows : n.tables[y][j] = IF y = x /\ j = i THEN f ELSE m.tables[y][j]
  BY <1>3, <1>5
<1>7. e \in [D \cup {f} -> 0 .. 3]
  BY <1>1 DEF Deeper
<1>8. n.tables \in [D \cup {f} -> [Rows -> Int]]
  <2>1. /\ EmptyTable \in [Rows -> Int]
        /\ [m.tables[x] EXCEPT ![i] = f] \in [Rows -> Int]
    BY <1>1, <1>5 DEF EmptyTable
  <2>2. QED
    BY <1>1, <2>1 DEF WithTable
<1>9. \A y \in D \cup {f} : e[y] = 0 <=> y = n.PML4
  BY <1>1, <1>3, <1>4
<1>10. ASSUME NEW y \in D \cup {f}, NEW j \in Rows, e[y] < 3, Present(n.tables[y][j])
       PROVE  n.tables[y][j] \in D \cup {f} /\ e[n.tables[y][j]] = e[y] + 1
  BY <1>2, <1>4, <1>5, <1>6, <1>10
<1>11. ASSUME NEW y \in D \cup {f}, NEW z \in D \cup {f}, NEW j \in Rows, NEW k \in Rows,
              e[y] < 3, e[z] < 3, Present(n.tables[y][j]), n.tables[y][j] = n.tables[z][k]
       PROVE  y = z /\ j = k
  <2>1. y \in D /\ z \in D
    BY <1>5, <1>11
  <2>2. d[y] < 3 /\ d[z] < 3
    BY <1>4, <1>11, <2>1
  <2>3. CASE y = x /\ j = i
    <3>1. n.tables[z][k] = f
      BY <1>6, <1>11, <2>1, <2>3
    <3>2. z = x /\ k = i
      <4>1. SUFFICES ASSUME ~(z = x /\ k = i) PROVE FALSE
        OBVIOUS
      <4>2. m.tables[z][k] = f
        BY <1>6, <2>1, <3>1, <4>1
      <4>3. m.tables[z][k] \in D
        BY <1>2, <1>5, <2>1, <2>2, <4>2 DEF Present
      <4>4. QED
        BY <4>2, <4>3
    <3>3. QED
      BY <2>3, <3>2
  <2>4. CASE ~(y = x /\ j = i)
    <3>1. n.tables[y][j] = m.tables[y][j] /\ Present(m.tables[y][j])
      BY <1>6, <1>11, <2>1, <2>4
    <3>2. m.tables[y][j] \in D
      BY <1>2, <2>1, <2>2, <3>1
    <3>3. ~(z = x /\ k = i)
      BY <1>6, <1>11, <2>1, <3>1, <3>2
    <3>4. n.tables[z][k] = m.tables[z][k]
      BY <1>6, <2>1, <3>3
    <3>5. m.tables[y][j] = m.tables[z][k]
      BY <1>11, <3>1, <3>4
    <3>6. QED
      BY <1>2, <2>1, <2>2, <3>1, <3>5
  <2>5. QED
    BY <2>3, <2>4
<1>12. ASSUME NEW y \in D \cup {f}, y # n.PML4
       PROVE  \E z \in D \cup {f}, j \in Rows : e[z] < 3 /\ n.tables[z][j] = y
  <2>1. CASE y = f
    BY <1>4, <1>6, <2>1
  <2>2. CASE y \in D
    <3>1. PICK z \in D, j \in Rows : d[z] < 3 /\ m.tables[z][j] = y
      BY <1>2, <1>3, <1>12, <2>2
    <3>2. Present(m.tables[z][j])
      BY <1>1, <1>5, <2>2, <3>1 DEF Present
    <3>3. ~(z = x /\ j = i)
      BY <3>2
    <3>4. QED
      BY <1>4, <1>6, <3>1, <3>3
  <2>3. QED
    BY <2>1, <2>2
<1>13. /\ IsFiniteSet(Inner(n, e)) /\ IsFiniteSet(D \cup {f})
       /\ Cardinality(D \cup {f}) = Cardinality(Inner(n, e)) + 1
  <2>1. <<x, i>> \notin Inner(m, d)
    BY DEF Inner
  <2>2. Inner(n, e) = Inner(m, d) \cup {<<x, i>>}
    <3>1. ASSUME NEW p
          PROVE  p \in Inner(n, e) <=> p \in Inner(m, d) \cup {<<x, i>>}
      <4>1. CASE p \notin (D \cup {f}) \X Rows
        BY <1>3, <4>1 DEF Inner
      <4>2. CASE p \in (D \cup {f}) \X Rows
        <5>1. PICK y \in D \cup {f}, j \in Rows : p = <<y, j>>
          BY <4>2
        <5>2. p \in Inner(n, e) <=> e[y] < 3 /\ Present(n.tables[y][j])
          BY <1>3, <5>1 DEF Inner
        <5>3. p \in Inner(m, d) <=> y \in D /\ d[y] < 3 /\ Present(m.tables[y][j])
          BY <5>1 DEF Inner
        <5>4. CASE y = f
          BY <1>5, <5>1, <5>2, <5>3, <5>4
        <5>5. CASE y \in D /\ y = x /\ j = i
          BY <1>4, <1>5, <1>6, <5>1, <5>2, <5>5 DEF Present
        <5>6. CASE y \in D /\ ~(y = x /\ j = i)
          BY <1>4, <1>6, <5>1, <5>2, <5>3, <5>6
        <5>7. QED
          BY <5>4, <5>5, <5>6
      <4>3. QED
        BY <4>1, <4>2
    <3>2. QED
      BY <3>1
  <2>3. /\ IsFiniteSet(Inner(m, d)) /\ IsFiniteSet(D)
        /\ Cardinality(D) = Cardinality(Inner(m, d)) + 1
    BY DEF Tree
  <2>4. Cardinality(Inner(m, d)) \in Nat /\ Cardinality(D) \in Nat
    BY <2>3, FS_CardinalityType
  <2>5. /\ IsFiniteSet(Inner(n, e))
        /\ Cardinality(Inner(n, e)) = Cardinality(Inner(m, d)) + 1
    BY <2>1, <2>2, <2>3, FS_AddElement
  <2>6. /\ IsFiniteSet(D \cup {f})
        /\ Cardinality(D \cup {f}) = Cardinality(D) + 1
    BY <2>3, FS_AddElement
  <2>7. QED
    BY <2>3, <2>4, <2>5, <2>6
<1>14. D \cup {f} \subseteq Nat /\ n.PML4 \in D \cup {f}
  BY <1>1, <1>3
<1> HIDE DEF D, e
<1>15. QED
  BY <1>3, <1>7, <1>8, <1>9, <1>10, <1>11, <1>12, <1>13, <1>14 DEF Tree, e

\* and no page is translated differently.
LEMMA TreeGrowsUnseen ==
  ASSUME NEW m, NEW d, Tree(m, d), NEW x \in DOMAIN m.tables, NEW i \in Rows, d[x] < 3,
         ~Present(m.tables[x][i]), NEW f \in Nat \ DOMAIN m.tables,
         NEW n, WithTable(m, n, x, i, f), NEW v \in Nat
  PROVE  Translate(n, v) = Translate(m, v)
<1> DEFINE D == DOMAIN m.tables
           I == PageMapIndexer(v)
<1>1. /\ I.P_i \in Rows /\ I.PT_i \in Rows /\ I.PD_i \in Rows /\ I.PDP_i \in Rows
  BY IndexTypes
<1>2. /\ D \subseteq Nat /\ m.tables \in [D -> [Rows -> Int]] /\ d \in [D -> 0 .. 3]
      /\ m.PML4 \in D /\ d[m.PML4] = 0 /\ n.PML4 = m.PML4
  BY DEF Tree, WithTable
<1>3. /\ \A j \in Rows : n.tables[f][j] = NotPresent
      /\ \A y \in D, j \in Rows :
           n.tables[y][j] = IF y = x /\ j = i THEN f ELSE m.tables[y][j]
  BY <1>2 DEF WithTable, EmptyTable
<1>4. /\ \A y \in D : Present(y)
      /\ Present(f) /\ ~Present(NotPresent) /\ m.tables[x][i] = NotPresent
  BY <1>2 DEF Present, NotPresent
\* One level of both walks: they are together, or the one in n is in f, or a
\* level behind it, and the one in m has ended.
<1> DEFINE Together(y, z) == \/ z = y /\ (Present(y) => y \in D)
                             \/ y = NotPresent /\ z = f
<1>5. ASSUME NEW y, NEW z, Together(y, z), NEW j \in Rows
      PROVE  \/ Walk(n, z, j) = Walk(m, y, j)
             \/ Walk(m, y, j) = NotPresent /\ Walk(n, z, j) = f /\ z = x /\ y = x
  <2>1. CASE y = NotPresent /\ z = f
    BY <1>3, <1>4, <2>1 DEF Walk
  <2>2. CASE z = y /\ (Present(y) => y \in D)
    BY <1>3, <1>4, <2>2 DEF Walk
  <2>3. QED
    BY <1>5, <2>1, <2>2
<1>6. /\ Present(m.PML4)
      /\ Present(PDPOf(m, v)) => PDPOf(m, v) \in D
      /\ Present(PDOf(m, v)) => PDOf(m, v) \in D
      /\ Present(PTOf(m, v)) => PTOf(m, v) \in D /\ d[PTOf(m, v)] = 3
  BY WalkLevels
<1>7. Together(PDPOf(m, v), PDPOf(n, v))
  <2>1. Together(m.PML4, n.PML4)
    BY <1>2
  <2>2. QED
    BY <1>1, <1>5, <1>6, <2>1 DEF PDPOf
<1>8. Together(PDOf(m, v), PDOf(n, v))
  BY <1>1, <1>5, <1>6, <1>7 DEF PDOf
<1>9. Together(PTOf(m, v), PTOf(n, v))
  BY <1>1, <1>5, <1>6, <1>8 DEF PTOf
<1>10. PTOf(m, v) # x
  BY <1>4, <1>6
<1>11. Walk(n, PTOf(n, v), I.P_i) = Walk(m, PTOf(m, v), I.P_i)
  BY <1>1, <1>5, <1>9, <1>10
<1>12. QED
  BY <1>11, TranslateIsWalk

\* Setting an entry of a table of the last level leaves the tree alone.
LEMMA LeafSet ==
  ASSUME NEW m, NEW d, Tree(m, d), NEW x \in DOMAIN m.tables, d[x] = 3, NEW i \in Rows,
         NEW frame \in Nat
  PROVE  LET n == SetEntry(m, x, i, frame)
         IN  /\ Tree(n, d)
             /\ n.pfa = m.pfa /\ n.PML4 = m.PML4 /\ DOMAIN n.tables = DOMAIN m.tables
             /\ \A y \in DOMAIN m.tables, j \in Rows :
                  n.tables[y][j] = IF y = x /\ j = i THEN frame ELSE m.tables[y][j]
<1> DEFINE n == SetEntry(m, x, i, frame)
           D == DOMAIN m.tables
<1>1. /\ m = [pfa |-> m.pfa, PML4 |-> m.PML4, tables |-> m.tables]
      /\ m.tables \in [D -> [Rows -> Int]]
  BY DEF Tree, IsMemory
<1>2. n = [pfa |-> m.pfa, PML4 |-> m.PML4,
           tables |-> [m.tables EXCEPT ![x] = [m.tables[x] EXCEPT ![i] = frame]]]
  <2> DEFINE T == [m.tables EXCEPT ![x] = [m.tables[x] EXCEPT ![i] = frame]]
  <2>1. n = [m EXCEPT !.tables = T]
    BY DEF SetEntry
  <2> HIDE DEF n, T
  <2>2. n = [pfa |-> m.pfa, PML4 |-> m.PML4, tables |-> T]
    BY <1>1, <2>1
  <2>3. QED
    BY <2>2 DEF T
<1> HIDE DEF n
<1>3. /\ IsMemory(n) /\ n.pfa = m.pfa /\ n.PML4 = m.PML4
      /\ n.tables = [m.tables EXCEPT ![x] = [m.tables[x] EXCEPT ![i] = frame]]
  BY <1>2 DEF IsMemory
<1>4. DOMAIN n.tables = D /\ n.tables \in [D -> [Rows -> Int]]
  BY <1>1, <1>3
<1>5. \A y \in D, j \in Rows :
        n.tables[y][j] = IF y = x /\ j = i THEN frame ELSE m.tables[y][j]
  BY <1>1, <1>3
<1>6. \A y \in D, j \in Rows : d[y] < 3 => n.tables[y][j] = m.tables[y][j]
  BY <1>5
<1>7. Inner(n, d) = Inner(m, d)
  <2>1. ASSUME NEW p \in D \X Rows
        PROVE  p \in Inner(n, d) <=> p \in Inner(m, d)
    BY <1>4, <1>6 DEF Inner
  <2>2. QED
    BY <1>4, <2>1 DEF Inner
<1>8. Tree(n, d)
  <2>1. \A y \in D, j \in Rows : d[y] < 3 /\ Present(n.tables[y][j]) =>
           n.tables[y][j] \in D /\ d[n.tables[y][j]] = d[y] + 1
    BY <1>6 DEF Tree
  <2>2. \A y, z \in D, j, k \in Rows :
          d[y] < 3 /\ d[z] < 3 /\ Present(n.tables[y][j]) /\ n.tables[y][j] = n.tables[z][k]
             => y = z /\ j = k
    BY <1>6 DEF Tree
  <2>3. ASSUME NEW y \in D, y # m.PML4
        PROVE  \E z \in D, j \in Rows : d[z] < 3 /\ n.tables[z][j] = y
    <3>1. PICK z \in D, j \in Rows : d[z] < 3 /\ m.tables[z][j] = y
      BY <2>3 DEF Tree
    <3>2. QED
      BY <1>6, <3>1
  <2>4. QED
    BY <1>3, <1>4, <1>7, <2>1, <2>2, <2>3 DEF Tree
<1>9. QED
  BY <1>3, <1>4, <1>5, <1>8 DEF n

\* If it is the entry the walk of page v ends at, then v is translated to the
\* frame and nothing else changes.
LEMMA LeafTranslates ==
  ASSUME NEW m, NEW d, Tree(m, d), NEW v \in VirtualPages, NEW frame \in Nat,
         Present(PTOf(m, v)), NEW u \in VirtualPages
  PROVE  Translate(SetEntry(m, PTOf(m, v), PageMapIndexer(v).P_i, frame), u)
           = IF u = v THEN frame ELSE Translate(m, u)
<1> DEFINE D == DOMAIN m.tables
           x == PTOf(m, v)
           i == PageMapIndexer(v).P_i
           n == SetEntry(m, x, i, frame)
           I == PageMapIndexer(u)
<1>0. u \in Nat /\ v \in Nat
  BY DEF VirtualPages
<1>1. i \in Rows /\ I.P_i \in Rows /\ I.PT_i \in Rows /\ I.PD_i \in Rows /\ I.PDP_i \in Rows
  BY <1>0, IndexTypes
<1>2. x \in D /\ d[x] = 3
  BY <1>0, WalkLevels
<1>3. /\ n.PML4 = m.PML4
      /\ \A y \in D, j \in Rows :
           n.tables[y][j] = IF y = x /\ j = i THEN frame ELSE m.tables[y][j]
  BY <1>1, <1>2, LeafSet
<1> HIDE DEF n
<1>4. /\ Present(m.PML4) /\ m.PML4 \in D /\ d[m.PML4] = 0
      /\ Present(PDPOf(m, u)) => PDPOf(m, u) \in D /\ d[PDPOf(m, u)] = 1
      /\ Present(PDOf(m, u)) => PDOf(m, u) \in D /\ d[PDOf(m, u)] = 2
      /\ Present(PTOf(m, u)) => PTOf(m, u) \in D
  BY <1>0, WalkLevels DEF Tree
<1>5. PDPOf(n, u) = PDPOf(m, u)
  BY <1>1, <1>2, <1>3, <1>4 DEF PDPOf, Walk
<1>6. PDOf(n, u) = PDOf(m, u)
  BY <1>1, <1>2, <1>3, <1>4, <1>5 DEF PDOf, Walk
<1>7. PTOf(n, u) = PTOf(m, u)
  BY <1>1, <1>2, <1>3, <1>4, <1>6 DEF PTOf, Walk
<1>8. CASE u = v
  <2>1. Walk(n, PTOf(n, u), I.P_i) = frame
    BY <1>1, <1>2, <1>3, <1>7, <1>8 DEF Walk
  <2>2. QED
    BY <1>8, <2>1, TranslateIsWalk DEF n
<1>9. CASE u # v
  <2>1. ~(PTOf(m, u) = x /\ I.P_i = i)
    BY <1>9, WalksMeet
  <2>2. Walk(n, PTOf(n, u), I.P_i) = Walk(m, PTOf(m, u), I.P_i)
    BY <1>1, <1>2, <1>3, <1>4, <1>7, <2>1 DEF Walk
  <2>3. QED
    BY <1>9, <2>2, TranslateIsWalk DEF n
<1>10. QED
  BY <1>8, <1>9

-----------------------------------------------------------------------------
\* The allocator's fields.
AllocatorOK(p) ==
  /\ p = [Size |-> p.Size, Buffer |-> p.Buffer, bits |-> p.bits,
          freeMemory |-> p.freeMemory, usedMemory |-> p.usedMemory,
          reservedMemory |-> p.reservedMemory, pageBitmapIndex |-> p.pageBitmapIndex]
  /\ p.Size \in Nat /\ p.Buffer \in Nat
  /\ p.bits \subseteq 0 .. p.Size * 8
  /\ p.pageBitmapIndex \in 0 .. p.Size * 8

\* The pages RequestPage may return.
Grantable(p) == 0 .. p.Size * 8 - 1

\* A non-empty set of naturals has a least element, Min.
LEMMA MinIsLeast ==
  ASSUME NEW S \in SUBSET Nat, S # {}
  PROVE  Min(S) \in S
<1>1. PICK x \in S : \A y \in S : ~(<<y, x>> \in OpToRel(<, Nat))
  BY WFMin, NatLessThanWellFounded
<1>2. ASSUME NEW y \in S
      PROVE  x <= y
  <2>1. ~(<<y, x>> \in {ss \in Nat \X Nat : ss[1] < ss[2]})
    BY <1>1, Zenon DEF OpToRel
  <2>2. QED
    BY <2>1
<1>3. QED
  BY <1>2 DEF Min

\* RequestPage returns a page whose bit was clear and sets it, or NULL.
LEMMA Requesting ==
  ASSUME NEW p, AllocatorOK(p), NULL \in p.bits
  PROVE  LET q == RequestPage(p)
             f == RequestedPage(p)
         IN  /\ AllocatorOK(q) /\ q.Size = p.Size /\ q.Buffer = p.Buffer
             /\ f = NULL  => q.bits = p.bits
             /\ f # NULL  => f \in Grantable(p) \ p.bits /\ q.bits = p.bits \cup {f}
<1> DEFINE q == RequestPage(p)
           f == RequestedPage(p)
<1>1. /\ p.Size \in Nat /\ p.Buffer \in Nat /\ p.bits \subseteq 0 .. p.Size * 8
      /\ p.pageBitmapIndex \in 0 .. p.Size * 8
  BY DEF AllocatorOK
<1>2. CASE Candidates(p) = {}
  <2> DEFINE c == IF p.pageBitmapIndex < p.Size * 8 THEN p.Size * 8 ELSE p.pageBitmapIndex
  <2>1. q = [p EXCEPT !.pageBitmapIndex = c] /\ f = NULL
    BY <1>2 DEF RequestPage, RequestedPage
  <2>2. c \in 0 .. p.Size * 8
    BY <1>1
  <2> HIDE DEF c
  <2>3. q = [Size |-> p.Size, Buffer |-> p.Buffer, bits |-> p.bits,
             freeMemory |-> p.freeMemory, usedMemory |-> p.usedMemory,
             reservedMemory |-> p.reservedMemory, pageBitmapIndex |-> c]
    BY <2>1 DEF AllocatorOK
  <2> HIDE DEF q, f
  <2>4. QED
    BY <1>1, <2>1, <2>2, <2>3 DEF AllocatorOK, q, f
<1>3. CASE Candidates(p) # {}
  <2>1. f = Min(Candidates(p)) /\ Candidates(p) \in SUBSET Nat
    BY <1>1, <1>3 DEF RequestedPage, Candidates
  <2>2. f \in Candidates(p)
    BY <1>3, <2>1, MinIsLeast
  <2>3. f \in Grantable(p) \ p.bits /\ f \in 0 .. p.Size * 8 /\ f # NULL
    BY <1>1, <2>2 DEF Candidates, GetBitmap, InBitmap, Grantable
  <2> HIDE DEF f
  <2>4. ToSet(p, {f}) = {f}
    BY <1>1, <2>3 DEF ToSet, InBitmap, GetBitmap
  <2>5. q = [LockPages(p, {f}) EXCEPT !.pageBitmapIndex = f]
    BY <1>3 DEF RequestPage, f
  <2> DEFINE k == Cardinality({f})
  <2> HIDE DEF k
  <2>6. LockPages(p, {f}) =
          [p EXCEPT !.bits = @ \cup {f}, !.freeMemory = @ - k, !.usedMemory = @ + k]
    BY <2>4 DEF LockPages, k
  <2>7. q = [Size |-> p.Size, Buffer |-> p.Buffer, bits |-> p.bits \cup {f},
             freeMemory |-> p.freeMemory - k, usedMemory |-> p.usedMemory + k,
             reservedMemory |-> p.reservedMemory, pageBitmapIndex |-> f]
    <3>1. p = [Size |-> p.Size, Buffer |-> p.Buffer, bits |-> p.bits,
               freeMemory |-> p.freeMemory, usedMemory |-> p.usedMemory,
               reservedMemory |-> p.reservedMemory, pageBitmapIndex |-> p.pageBitmapIndex]
      BY DEF AllocatorOK
    <3>2. LockPages(p, {f}) =
            [Size |-> p.Size, Buffer |-> p.Buffer, bits |-> p.bits \cup {f},
             freeMemory |-> p.freeMemory - k, usedMemory |-> p.usedMemory + k,
             reservedMemory |-> p.reservedMemory, pageBitmapIndex |-> p.pageBitmapIndex]
      BY <2>6, <3>1
    <3>3. QED
      BY <2>5, <3>2
  <2> HIDE DEF q
  <2>8. /\ q.Size = p.Size /\ q.Buffer = p.Buffer /\ q.bits = p.bits \cup {f}
        /\ q.pageBitmapIndex = f /\ AllocatorOK(q)
    <3>1. p.bits \cup {f} \subseteq 0 .. p.Size * 8
      BY <1>1, <2>3
    <3>2. p.bits \cup {f} \in SUBSET Nat
      BY <1>1, <3>1
    <3>3. QED
      BY <1>1, <2>3, <2>7, <3>1, <3>2 DEF AllocatorOK
  <2>9. QED
    BY <2>3, <2>8 DEF q, f
<1>4. QED
  BY <1>2, <1>3

\* LockPages and ReservePages set the bits of those of their pages that have one.
LEMMA Marking ==
  ASSUME NEW p, AllocatorOK(p), NEW P \in SUBSET Nat,
         NEW q \in {LockPages(p, P), ReservePages(p, P)}
  PROVE  /\ AllocatorOK(q) /\ q.Size = p.Size /\ q.Buffer = p.Buffer
         /\ q.bits = p.bits \cup (P \cap (0 .. p.Size * 8))
<1> DEFINE N == ToSet(p, P)
           k == Cardinality(N)
<1>1. /\ p.Size \in Nat /\ p.Buffer \in Nat /\ p.bits \subseteq 0 .. p.Size * 8
      /\ p.pageBitmapIndex \in 0 .. p.Size * 8
  BY DEF AllocatorOK
<1>2. p.bits \cup N = p.bits \cup (P \cap (0 .. p.Size * 8))
  <2>1. \A i \in P : i \in N <=> i \in 0 .. p.Size * 8 /\ i \notin p.bits
    BY <1>1 DEF ToSet, InBitmap, GetBitmap
  <2>2. N \subseteq P
    BY DEF ToSet
  <2> HIDE DEF N
  <2>3. QED
    BY <2>1, <2>2
<1>3. \E a, b, c :
        q = [Size |-> p.Size, Buffer |-> p.Buffer, bits |-> p.bits \cup N,
             freeMemory |-> a, usedMemory |-> b, reservedMemory |-> c,
             pageBitmapIndex |-> p.pageBitmapIndex]
  <2> HIDE DEF k
  <2>1. CASE q = LockPages(p, P)
    <3>1. q = [p EXCEPT !.bits = @ \cup N, !.freeMemory = @ - k, !.usedMemory = @ + k]
      BY <2>1 DEF LockPages, k
    <3> HIDE DEF N
    <3>2. q = [Size |-> p.Size, Buffer |-> p.Buffer, bits |-> p.bits \cup N,
               freeMemory |-> p.freeMemory - k, usedMemory |-> p.usedMemory + k,
               reservedMemory |-> p.reservedMemory, pageBitmapIndex |-> p.pageBitmapIndex]
      BY <3>1 DEF AllocatorOK
    <3>3. QED
      BY <3>2
  <2>2. CASE q = ReservePages(p, P)
    <3>1. q = [p EXCEPT !.bits = @ \cup N, !.freeMemory = @ - k, !.reservedMemory = @ + k]
      BY <2>2 DEF ReservePages, k
    <3> HIDE DEF N
    <3>2. q = [Size |-> p.Size, Buffer |-> p.Buffer, bits |-> p.bits \cup N,
               freeMemory |-> p.freeMemory - k, usedMemory |-> p.usedMemory,
               reservedMemory |-> p.reservedMemory + k, pageBitmapIndex |-> p.pageBitmapIndex]
      BY <3>1 DEF AllocatorOK
    <3>3. QED
      BY <3>2
  <2>3. QED
    BY <2>1, <2>2
<1> HIDE DEF N
<1>4. QED
  BY <1>1, <1>2, <1>3 DEF AllocatorOK

\* UnreservePages clears the bits of its pages.
LEMMA Clearing ==
  ASSUME NEW p, AllocatorOK(p), NEW P \in SUBSET Nat
  PROVE  LET q == UnreservePages(p, P)
         IN  /\ AllocatorOK(q) /\ q.Size = p.Size /\ q.Buffer = p.Buffer
             /\ q.bits = p.bits \ P
<1> DEFINE C == ToClear(p, P)
           k == Cardinality(C)
           c == LowerCursor(p, C)
           q == UnreservePages(p, P)
<1>1. /\ p.Size \in Nat /\ p.Buffer \in Nat /\ p.bits \subseteq 0 .. p.Size * 8
      /\ p.pageBitmapIndex \in 0 .. p.Size * 8
  BY DEF AllocatorOK
<1>2. C = P \cap p.bits
  BY <1>1 DEF ToClear, GetBitmap, InBitmap
<1>3. c \in 0 .. p.Size * 8
  <2>1. CASE C = {}
    BY <1>1, <2>1 DEF LowerCursor
  <2>2. CASE C # {}
    <3>1. Min(C) \in C
      BY <1>2, <2>2, MinIsLeast
    <3>2. QED
      BY <1>1, <1>2, <3>1 DEF LowerCursor
  <2>3. QED
    BY <2>1, <2>2
<1> HIDE DEF c, k
<1>4. q = [p EXCEPT !.bits = @ \ C, !.freeMemory = @ + k, !.reservedMemory = @ - k,
                    !.pageBitmapIndex = c]
  BY DEF UnreservePages, k, c
<1> HIDE DEF C, q
<1>5. q = [Size |-> p.Size, Buffer |-> p.Buffer, bits |-> p.bits \ C,
           freeMemory |-> p.freeMemory + k, usedMemory |-> p.usedMemory,
           reservedMemory |-> p.reservedMemory - k, pageBitmapIndex |-> c]
  BY <1>4 DEF AllocatorOK
<1>6. p.bits \ C = p.bits \ P
  BY <1>2
<1>7. QED
  BY <1>1, <1>3, <1>5, <1>6 DEF AllocatorOK, q

\* Memory that can be mapped in: a tree of tables whose frames are taken, and so
\* is page 0.
Sound(m, d) == /\ Tree(m, d) /\ AllocatorOK(m.pfa)
               /\ DOMAIN m.tables \subseteq m.pfa.bits
               /\ NULL \in m.pfa.bits

\* From m to n tables were added whose frames were free; what led somewhere leads
\* there still, and what is mapped is mapped where it was.
Grown(m, d, n, e) ==
  /\ Sound(n, e)
  /\ n.PML4 = m.PML4 /\ n.pfa.Size = m.pfa.Size /\ n.pfa.Buffer = m.pfa.Buffer
  /\ m.pfa.bits \subseteq n.pfa.bits
  /\ DOMAIN m.tables \subseteq DOMAIN n.tables
  /\ DOMAIN n.tables \ DOMAIN m.tables \subseteq Grantable(m.pfa) \ m.pfa.bits
  /\ \A x \in DOMAIN m.tables : e[x] = d[x]
  /\ \A x \in DOMAIN m.tables, i \in Rows :
       Present(m.tables[x][i]) => n.tables[x][i] = m.tables[x][i]
  /\ \A v \in Nat : Translate(n, v) = Translate(m, v)

\* Growing twice is growing.
LEMMA GrownTwice ==
  ASSUME NEW m, NEW d, NEW n, NEW e, NEW o, NEW g, Grown(m, d, n, e), Grown(n, e, o, g)
  PROVE  Grown(m, d, o, g)
<1>1. DOMAIN o.tables \ DOMAIN m.tables \subseteq Grantable(m.pfa) \ m.pfa.bits
  <2>1. Grantable(n.pfa) = Grantable(m.pfa)
    BY DEF Grown, Grantable
  <2>2. QED
    BY <2>1 DEF Grown
<1>2. \A x \in DOMAIN m.tables, i \in Rows :
       Present(m.tables[x][i]) => o.tables[x][i] = m.tables[x][i]
  BY DEF Grown
<1>3. QED
  BY <1>1, <1>2 DEF Grown

\* n is m after a frame f was requested, cleared, and entered in table x.
Added(m, n, x, i, f) ==
  /\ IsMemory(n) /\ n.pfa = RequestPage(m.pfa) /\ n.PML4 = m.PML4
  /\ n.tables = [y \in DOMAIN m.tables \cup {f} |->
                   IF y = x THEN [(IF x = f THEN EmptyTable ELSE m.tables[x]) EXCEPT ![i] = f]
                   ELSE IF y = f THEN EmptyTable ELSE m.tables[y]]

\* What Descend does when the entry is missing, whatever RequestPage returns.
LEMMA DescendAdds ==
  ASSUME NEW m, IsMemory(m), NEW x \in DOMAIN m.tables,
         m.tables \in [DOMAIN m.tables -> [Rows -> Int]],
         NEW i \in Rows, ~Present(m.tables[x][i])
  PROVE  Added(m, Descend(m, x, i), x, i, RequestedPage(m.pfa))
<1> DEFINE n == Descend(m, x, i)
           f == RequestedPage(m.pfa)
           p == RequestPage(m.pfa)
           r == [m EXCEPT !.pfa = RequestPage(@)]
           c == ClearedTable(r, f)
           T == [y \in DOMAIN m.tables \cup {f} |-> IF y = f THEN EmptyTable ELSE m.tables[y]]
           U == [T EXCEPT ![x] = [T[x] EXCEPT ![i] = f]]
<1>1. n = SetEntry(c, x, i, f)
  BY DEF Descend
<1> HIDE DEF f, p
<1>2. r = [pfa |-> p, PML4 |-> m.PML4, tables |-> m.tables]
  BY DEF IsMemory, p
<1> HIDE DEF r
<1>3. c = [r EXCEPT !.tables = T]
  BY <1>2 DEF ClearedTable, EmptyTable, Rows
<1> HIDE DEF c, T
<1>4. c = [pfa |-> p, PML4 |-> m.PML4, tables |-> T]
  BY <1>2, <1>3
<1>5. SetEntry(c, x, i, f) = [c EXCEPT !.tables = U]
  BY <1>4 DEF SetEntry
<1> HIDE DEF n, U
<1>6. n = [pfa |-> p, PML4 |-> m.PML4, tables |-> U]
  BY <1>1, <1>4, <1>5
<1>7. U = [y \in DOMAIN m.tables \cup {f} |->
             IF y = x THEN [(IF x = f THEN EmptyTable ELSE m.tables[x]) EXCEPT ![i] = f]
             ELSE IF y = f THEN EmptyTable ELSE m.tables[y]]
  BY DEF U, T
<1>8. QED
  BY <1>6, <1>7 DEF IsMemory, Added, n, p, f

\* From m to n entry i of table x got a table on the next level, if it had none.
LeadsDown(m, d, n, e, x, i) ==
  /\ Grown(m, d, n, e)
  /\ Present(n.tables[x][i]) /\ n.tables[x][i] \in DOMAIN n.tables
  /\ e[n.tables[x][i]] = d[x] + 1

\* One level down, when there is a page for the table or no need of one: the
\* entry leads to a table.
LEMMA DescendGrows ==
  ASSUME NEW m, NEW d, Sound(m, d), NEW x \in DOMAIN m.tables, d[x] < 3, NEW i \in Rows,
         NULL \notin DOMAIN (Descend(m, x, i)).tables
  PROVE  \E e : LeadsDown(m, d, Descend(m, x, i), e, x, i)
<1> DEFINE D == DOMAIN m.tables
           n == Descend(m, x, i)
           f == RequestedPage(m.pfa)
<1>1. /\ D \subseteq Nat /\ m.tables \in [D -> [Rows -> Int]] /\ IsMemory(m)
      /\ d \in [D -> 0 .. 3] /\ Tree(m, d)
      /\ AllocatorOK(m.pfa) /\ D \subseteq m.pfa.bits /\ NULL \in m.pfa.bits
  BY DEF Sound, Tree
<1>2. CASE Present(m.tables[x][i])
  <2>1. n = m
    BY <1>2 DEF Descend
  <2>2. Grown(m, d, m, d)
    BY <1>1 DEF Grown, Sound
  <2>3. m.tables[x][i] \in D /\ d[m.tables[x][i]] = d[x] + 1
    BY <1>1, <1>2 DEF Tree
  <2>4. QED
    BY <1>2, <2>1, <2>2, <2>3 DEF LeadsDown
<1>3. CASE ~Present(m.tables[x][i])
  <2>1. /\ IsMemory(n) /\ n.pfa = RequestPage(m.pfa) /\ n.PML4 = m.PML4
        /\ n.tables = [y \in D \cup {f} |->
                         IF y = x THEN [(IF x = f THEN EmptyTable ELSE m.tables[x])
                                          EXCEPT ![i] = f]
                         ELSE IF y = f THEN EmptyTable ELSE m.tables[y]]
    <3>1. Added(m, n, x, i, f)
      BY <1>1, <1>3, DescendAdds
    <3>2. QED
      BY <3>1 DEF Added
  <2> DEFINE e == Deeper(d, x, f)
  <2>2. f # NULL
    <3>1. DOMAIN n.tables = D \cup {f}
      BY <2>1
    <3>2. QED
      BY <3>1
  <2> HIDE DEF n
  <2>3. /\ AllocatorOK(n.pfa) /\ n.pfa.Size = m.pfa.Size /\ n.pfa.Buffer = m.pfa.Buffer
        /\ f \in Grantable(m.pfa) \ m.pfa.bits /\ n.pfa.bits = m.pfa.bits \cup {f}
    BY <1>1, <2>1, <2>2, Requesting
  <2> HIDE DEF f
  <2>4. f \notin D /\ f \in Nat /\ x # f
    BY <1>1, <2>3 DEF Grantable
  <2>5. WithTable(m, n, x, i, f)
    BY <2>1, <2>4 DEF WithTable
  <2>6. Tree(n, e)
    BY <1>1, <1>3, <2>4, <2>5, TreeGrows
  <2>7. \A v \in Nat : Translate(n, v) = Translate(m, v)
    BY <1>1, <1>3, <2>4, <2>5, TreeGrowsUnseen
  <2>8. /\ DOMAIN n.tables = D \cup {f}
        /\ \A y \in D, j \in Rows : n.tables[y][j] = IF y = x /\ j = i THEN f ELSE m.tables[y][j]
    BY <1>1, <2>1, <2>4
  <2>9. /\ \A y \in D : e[y] = d[y]
        /\ e[f] = d[x] + 1
    BY <1>1, <2>4 DEF Deeper
  <2> HIDE DEF e
  <2>10. \A y \in D, j \in Rows : Present(m.tables[y][j]) => n.tables[y][j] = m.tables[y][j]
    BY <1>3, <2>8
  <2>11. Grown(m, d, n, e)
    BY <1>1, <2>1, <2>3, <2>6, <2>7, <2>8, <2>9, <2>10 DEF Grown, Sound
  <2>12. n.tables[x][i] = f /\ Present(f)
    BY <2>4, <2>8 DEF Present, NotPresent
  <2>13. QED
    BY <2>8, <2>9, <2>11, <2>12 DEF n, LeadsDown
<1>4. QED
  BY <1>2, <1>3

-----------------------------------------------------------------------------
(* What holds even when RequestPage returns NULL and page 0 becomes a table. *)

\* Every entry of table x leads to a table.
Leads(m, x) == \A i \in Rows : Present(m.tables[x][i]) => m.tables[x][i] \in DOMAIN m.tables

\* The types of memory, wherever its entries lead.
Typed(m) ==
  /\ IsMemory(m) /\ AllocatorOK(m.pfa) /\ NULL \in m.pfa.bits
  /\ m.tables \in [DOMAIN m.tables -> [Rows -> Int]]
  /\ DOMAIN m.tables \subseteq m.pfa.bits

\* From m to n entry i of table x got a table to lead to, if it had none, and
\* tables that led to tables still do.
StepsDown(m, n, x, i) ==
  /\ Typed(n) /\ DOMAIN m.tables \subseteq DOMAIN n.tables
  /\ n.PML4 = m.PML4 /\ n.pfa.Size = m.pfa.Size /\ n.pfa.Buffer = m.pfa.Buffer
  /\ m.pfa.bits \subseteq n.pfa.bits
  /\ n.tables[x][i] \in DOMAIN n.tables
  /\ \A y \in DOMAIN m.tables : Leads(m, y) => Leads(n, y)
  /\ \/ n = m /\ Present(m.tables[x][i])
     \/ /\ Leads(n, n.tables[x][i])
        /\ \A j \in Rows : LET z == n.tables[n.tables[x][i]][j]
                           IN  Present(z) => z = n.tables[x][i]

\* This is what Descend does.
LEMMA DescendTyped ==
  ASSUME NEW m, Typed(m), NEW x \in DOMAIN m.tables, Leads(m, x), NEW i \in Rows
  PROVE  StepsDown(m, Descend(m, x, i), x, i)
<1> DEFINE D == DOMAIN m.tables
           n == Descend(m, x, i)
           f == RequestedPage(m.pfa)
<1>1. CASE Present(m.tables[x][i])
  <2>1. n = m
    BY <1>1 DEF Descend
  <2>2. m.tables[x][i] \in D
    BY <1>1 DEF Leads
  <2>3. StepsDown(m, m, x, i)
    BY <1>1, <2>2 DEF StepsDown, Typed, AllocatorOK
  <2>4. QED
    BY <2>1, <2>3
<1>2. CASE ~Present(m.tables[x][i])
  <2>1. /\ IsMemory(n) /\ n.pfa = RequestPage(m.pfa) /\ n.PML4 = m.PML4
        /\ n.tables = [y \in D \cup {f} |->
                         IF y = x THEN [(IF x = f THEN EmptyTable ELSE m.tables[x])
                                          EXCEPT ![i] = f]
                         ELSE IF y = f THEN EmptyTable ELSE m.tables[y]]
    <3>1. Added(m, n, x, i, f)
      BY <1>2, DescendAdds DEF Typed
    <3>2. QED
      BY <3>1 DEF Added
  <2> HIDE DEF n
  <2>2. /\ AllocatorOK(n.pfa) /\ n.pfa.Size = m.pfa.Size /\ n.pfa.Buffer = m.pfa.Buffer
        /\ f \in n.pfa.bits /\ m.pfa.bits \subseteq n.pfa.bits
    BY <2>1, Requesting DEF Typed
  <2> HIDE DEF f
  <2>3. f \in Int /\ NotPresent \in Int /\ ~Present(NotPresent)
    BY <2>2 DEF AllocatorOK, NotPresent, Present
  <2>4. m.tables \in [D -> [Rows -> Int]] /\ D \subseteq m.pfa.bits /\ NULL \in m.pfa.bits
    BY DEF Typed
  <2>5. EmptyTable \in [Rows -> Int] /\ \A j \in Rows : EmptyTable[j] = NotPresent
    BY <2>3 DEF EmptyTable
  <2>6. n.tables \in [D \cup {f} -> [Rows -> Int]]
    <3>1. \A y \in D \cup {f} : n.tables[y] \in [Rows -> Int]
      BY <2>1, <2>3, <2>4, <2>5
    <3>2. QED
      BY <2>1, <3>1
  <2>7. Typed(n)
    BY <2>1, <2>2, <2>4, <2>6 DEF Typed
  <2>8. n.tables[x][i] = f
    BY <2>1, <2>4, <2>5
  <2>9. \A y \in D \cup {f}, j \in Rows :
          \/ n.tables[y][j] = f /\ y = x
          \/ n.tables[y][j] = NotPresent /\ y = f
          \/ y \in D /\ n.tables[y][j] = m.tables[y][j] /\ y # f
    BY <2>1, <2>4, <2>5
  <2>10. \A y \in D : Leads(m, y) => Leads(n, y)
    <3>1. SUFFICES ASSUME NEW y \in D, Leads(m, y), NEW j \in Rows, Present(n.tables[y][j])
                   PROVE  n.tables[y][j] \in D \cup {f}
      BY <2>1, <2>4 DEF Leads
    <3>2. CASE n.tables[y][j] = m.tables[y][j]
      <4>1. m.tables[y][j] \in D
        BY <3>1, <3>2 DEF Leads
      <4>2. QED
        BY <3>2, <4>1
    <3>3. CASE n.tables[y][j] # m.tables[y][j]
      BY <2>3, <2>9, <3>1, <3>3
    <3>4. QED
      BY <3>2, <3>3
  <2>11. /\ Leads(n, f)
         /\ \A j \in Rows : Present(n.tables[f][j]) => n.tables[f][j] = f
    BY <2>1, <2>3, <2>9 DEF Leads
  <2>12. QED
    BY <2>1, <2>2, <2>7, <2>8, <2>10, <2>11 DEF n, StepsDown
<1>3. QED
  BY <1>1, <1>2

-----------------------------------------------------------------------------
(* MapMemory.                                                                *)
\* A tree is typed, and its tables above the last level lead to tables.
LEMMA SoundIsTyped ==
  ASSUME NEW m, NEW d, Sound(m, d)
  PROVE  /\ Typed(m) /\ m.PML4 \in DOMAIN m.tables /\ d[m.PML4] = 0
         /\ \A x \in DOMAIN m.tables : d[x] < 3 => Leads(m, x)
BY DEF Sound, Typed, Tree, Leads

\* From m to n nothing was lost, whatever RequestPage returned.
StaysTyped(m, n) ==
  /\ Typed(n) /\ n.PML4 = m.PML4
  /\ n.pfa.Size = m.pfa.Size /\ n.pfa.Buffer = m.pfa.Buffer
  /\ m.pfa.bits \subseteq n.pfa.bits
  /\ DOMAIN m.tables \subseteq DOMAIN n.tables

\* The three steps down of MapMemory and the entry it sets.
InSteps(m, v, frame) ==
  LET at      == PageMapIndexer(v)
      withPDP == Descend(m, m.PML4, at.PDP_i)
      PDP     == withPDP.tables[m.PML4][at.PDP_i]
      withPD  == Descend(withPDP, PDP, at.PD_i)
      PD      == withPD.tables[PDP][at.PD_i]
      withPT  == Descend(withPD, PD, at.PT_i)
      PT      == withPT.tables[PD][at.PT_i]
      n       == MapMemory(m, v, frame)
  IN  /\ DOMAIN withPDP.tables \subseteq DOMAIN withPD.tables
      /\ DOMAIN withPD.tables \subseteq DOMAIN withPT.tables
      /\ DOMAIN withPT.tables = DOMAIN n.tables
      /\ n = SetEntry(withPT, PT, at.P_i, frame)

\* MapMemory is these steps, and leaves typed memory.
LEMMA MapMemoryTyped ==
  ASSUME NEW m, NEW d, Sound(m, d), NEW v \in Nat, NEW frame \in Nat
  PROVE  InSteps(m, v, frame) /\ StaysTyped(m, MapMemory(m, v, frame))
<1> DEFINE at      == PageMapIndexer(v)
           withPDP == Descend(m, m.PML4, at.PDP_i)
           PDP     == withPDP.tables[m.PML4][at.PDP_i]
           withPD  == Descend(withPDP, PDP, at.PD_i)
           PD      == withPD.tables[PDP][at.PD_i]
           withPT  == Descend(withPD, PD, at.PT_i)
           PT      == withPT.tables[PD][at.PT_i]
           n       == MapMemory(m, v, frame)
<1>1. at.P_i \in Rows /\ at.PT_i \in Rows /\ at.PD_i \in Rows /\ at.PDP_i \in Rows
  BY IndexTypes
<1>2. n = SetEntry(withPT, PT, at.P_i, frame)
  BY DEF MapMemory
<1> HIDE DEF at, n
<1>3. /\ Typed(m) /\ m.PML4 \in DOMAIN m.tables /\ d[m.PML4] = 0
      /\ \A x \in DOMAIN m.tables : d[x] < 3 => Leads(m, x)
  BY SoundIsTyped
<1>4. Leads(m, m.PML4)
  BY <1>3
<1>5. /\ Typed(withPDP) /\ DOMAIN m.tables \subseteq DOMAIN withPDP.tables
      /\ withPDP.PML4 = m.PML4
      /\ withPDP.pfa.Size = m.pfa.Size /\ withPDP.pfa.Buffer = m.pfa.Buffer
      /\ m.pfa.bits \subseteq withPDP.pfa.bits
      /\ PDP \in DOMAIN withPDP.tables
      /\ \/ withPDP = m /\ Present(m.tables[m.PML4][at.PDP_i])
         \/ /\ Leads(withPDP, PDP)
            /\ \A j \in Rows : Present(withPDP.tables[PDP][j]) => withPDP.tables[PDP][j] = PDP
  <2>1. StepsDown(m, withPDP, m.PML4, at.PDP_i)
    BY <1>1, <1>3, <1>4, DescendTyped
  <2> HIDE DEF withPDP
  <2>2. QED
    BY <2>1 DEF StepsDown
<1> HIDE DEF withPDP, PDP
\* Where the second entry leads to is a table that leads to tables.
<1>6. /\ Leads(withPDP, PDP)
      /\ Present(withPDP.tables[PDP][at.PD_i]) => Leads(withPDP, withPDP.tables[PDP][at.PD_i])
  <2>1. CASE withPDP = m /\ Present(m.tables[m.PML4][at.PDP_i])
    <3>1. /\ \A x \in DOMAIN m.tables, i \in Rows : d[x] < 3 /\ Present(m.tables[x][i]) =>
               m.tables[x][i] \in DOMAIN m.tables /\ d[m.tables[x][i]] = d[x] + 1
      BY DEF Sound, Tree
    <3>2. PDP \in DOMAIN m.tables /\ d[PDP] = 1
      BY <1>1, <1>3, <2>1, <3>1 DEF PDP
    <3>3. Present(m.tables[PDP][at.PD_i]) =>
            m.tables[PDP][at.PD_i] \in DOMAIN m.tables /\ d[m.tables[PDP][at.PD_i]] = 2
      BY <1>1, <3>1, <3>2
    <3>4. QED
      BY <1>3, <2>1, <3>2, <3>3
  <2>2. CASE /\ Leads(withPDP, PDP)
             /\ \A j \in Rows : Present(withPDP.tables[PDP][j]) => withPDP.tables[PDP][j] = PDP
    BY <1>1, <2>2
  <2>3. QED
    BY <1>5, <2>1, <2>2
<1>7. /\ Typed(withPD) /\ DOMAIN withPDP.tables \subseteq DOMAIN withPD.tables
      /\ withPD.PML4 = m.PML4
      /\ withPD.pfa.Size = m.pfa.Size /\ withPD.pfa.Buffer = m.pfa.Buffer
      /\ m.pfa.bits \subseteq withPD.pfa.bits
      /\ PD \in DOMAIN withPD.tables
      /\ \/ withPD = withPDP /\ Present(withPDP.tables[PDP][at.PD_i])
         \/ Leads(withPD, PD)
  <2>1. /\ Typed(withPD) /\ DOMAIN withPDP.tables \subseteq DOMAIN withPD.tables
        /\ withPD.PML4 = withPDP.PML4
        /\ withPD.pfa.Size = withPDP.pfa.Size /\ withPD.pfa.Buffer = withPDP.pfa.Buffer
        /\ withPDP.pfa.bits \subseteq withPD.pfa.bits
        /\ PD \in DOMAIN withPD.tables
        /\ \/ withPD = withPDP /\ Present(withPDP.tables[PDP][at.PD_i])
           \/ Leads(withPD, PD)
    <3>1. StepsDown(withPDP, withPD, PDP, at.PD_i)
      BY <1>1, <1>5, <1>6, DescendTyped
    <3> HIDE DEF withPD
    <3>2. QED
      BY <3>1 DEF StepsDown
  <2> HIDE DEF withPD, PD
  <2>2. QED
    BY <1>5, <2>1
<1>8. Leads(withPD, PD)
  BY <1>6, <1>7
<1> HIDE DEF withPD, PD
<1>9. /\ Typed(withPT) /\ DOMAIN withPD.tables \subseteq DOMAIN withPT.tables
      /\ withPT.PML4 = withPD.PML4
      /\ withPT.pfa.Size = withPD.pfa.Size /\ withPT.pfa.Buffer = withPD.pfa.Buffer
      /\ withPD.pfa.bits \subseteq withPT.pfa.bits
      /\ PT \in DOMAIN withPT.tables
  <2>1. StepsDown(withPD, withPT, PD, at.PT_i)
    BY <1>1, <1>7, <1>8, DescendTyped
  <2> HIDE DEF withPT
  <2>2. QED
    BY <2>1 DEF StepsDown
<1> HIDE DEF withPT, PT
<1>10. /\ withPT = [pfa |-> withPT.pfa, PML4 |-> withPT.PML4, tables |-> withPT.tables]
       /\ withPT.tables \in [DOMAIN withPT.tables -> [Rows -> Int]]
  BY <1>9 DEF Typed, IsMemory
<1> DEFINE T == [withPT.tables EXCEPT ![PT] = [withPT.tables[PT] EXCEPT ![at.P_i] = frame]]
<1>11. n = [withPT EXCEPT !.tables = T]
  BY <1>2 DEF SetEntry
<1>12. T \in [DOMAIN withPT.tables -> [Rows -> Int]] /\ DOMAIN T = DOMAIN withPT.tables
  BY <1>1, <1>9, <1>10
<1> HIDE DEF T
<1>13. n = [pfa |-> withPT.pfa, PML4 |-> withPT.PML4, tables |-> T]
  BY <1>10, <1>11
<1>14. Typed(n) /\ n.PML4 = withPT.PML4 /\ n.pfa = withPT.pfa
       /\ DOMAIN n.tables = DOMAIN withPT.tables
  BY <1>9, <1>12, <1>13 DEF Typed, IsMemory
<1>15. StaysTyped(m, n)
  BY <1>5, <1>7, <1>9, <1>14 DEF StaysTyped
<1>16. /\ DOMAIN withPDP.tables \subseteq DOMAIN withPD.tables
       /\ DOMAIN withPD.tables \subseteq DOMAIN withPT.tables
       /\ DOMAIN withPT.tables = DOMAIN n.tables
       /\ n = SetEntry(withPT, PT, at.P_i, frame)
  BY <1>2, <1>7, <1>9, <1>14
<1>17. InSteps(m, v, frame)
  BY <1>16, Zenon DEF InSteps, at, withPDP, PDP, withPD, PD, withPT, PT, n
<1>18. QED
  BY <1>15, <1>17 DEF n

\* What MapMemory(v, frame) has done to m: it added tables, of frames that were
\* free, and translates v to the frame and every other page as before.
MapsOne(m, n, v, frame) ==
  /\ n.PML4 = m.PML4 /\ n.pfa.Size = m.pfa.Size /\ n.pfa.Buffer = m.pfa.Buffer
  /\ m.pfa.bits \subseteq n.pfa.bits
  /\ DOMAIN m.tables \subseteq DOMAIN n.tables
  /\ DOMAIN n.tables \ DOMAIN m.tables \subseteq Grantable(m.pfa) \ m.pfa.bits
  /\ \A u \in VirtualPages : Translate(n, u) = IF u = v THEN frame ELSE Translate(m, u)

\* That is what MapMemory does, as long as page 0 does not become a table.
LEMMA MapMemoryMaps ==
  ASSUME NEW m, NEW d, Sound(m, d), NEW v \in VirtualPages, NEW frame \in Nat,
         NULL \notin DOMAIN (MapMemory(m, v, frame)).tables
  PROVE  LET n == MapMemory(m, v, frame)
         IN  MapsOne(m, n, v, frame) /\ \E e : Sound(n, e)
<1> DEFINE at      == PageMapIndexer(v)
           withPDP == Descend(m, m.PML4, at.PDP_i)
           PDP     == withPDP.tables[m.PML4][at.PDP_i]
           withPD  == Descend(withPDP, PDP, at.PD_i)
           PD      == withPD.tables[PDP][at.PD_i]
           withPT  == Descend(withPD, PD, at.PT_i)
           PT      == withPT.tables[PD][at.PT_i]
           n       == MapMemory(m, v, frame)
<1>0. v \in Nat
  BY DEF VirtualPages
<1>1. at.P_i \in Rows /\ at.PT_i \in Rows /\ at.PD_i \in Rows /\ at.PDP_i \in Rows
  BY <1>0, IndexTypes
<1>2. /\ n = SetEntry(withPT, PT, at.P_i, frame)
      /\ DOMAIN withPDP.tables \subseteq DOMAIN withPD.tables
      /\ DOMAIN withPD.tables \subseteq DOMAIN withPT.tables
      /\ DOMAIN withPT.tables = DOMAIN n.tables
  <2>1. InSteps(m, v, frame)
    BY <1>0, MapMemoryTyped
  <2>2. QED
    BY <2>1, Zenon DEF InSteps
<1> HIDE DEF n
<1>3. /\ NULL \notin DOMAIN withPDP.tables /\ NULL \notin DOMAIN withPD.tables
      /\ NULL \notin DOMAIN withPT.tables
  BY <1>2 DEF n
<1> HIDE DEF at
<1>4. m.PML4 \in DOMAIN m.tables /\ d[m.PML4] = 0
  BY SoundIsTyped
<1>5. PICK e : /\ Grown(m, d, withPDP, e)
               /\ Present(PDP) /\ PDP \in DOMAIN withPDP.tables /\ e[PDP] = 1
  <2>1. d[m.PML4] < 3 /\ m.PML4 \in DOMAIN m.tables /\ at.PDP_i \in Rows
    BY <1>1, <1>4
  <2>2. \E e : LeadsDown(m, d, withPDP, e, m.PML4, at.PDP_i)
    BY <1>3, <2>1, DescendGrows, Zenon
  <2> HIDE DEF withPDP
  <2>3. QED
    BY <1>4, <2>2 DEF LeadsDown
<1>6. withPDP.tables[m.PML4][at.PDP_i] = PDP
  OBVIOUS
<1> HIDE DEF withPDP, PDP
<1>7. PICK g : /\ Grown(withPDP, e, withPD, g)
               /\ Present(PD) /\ PD \in DOMAIN withPD.tables /\ g[PD] = 2
  <2>1. Sound(withPDP, e)
    BY <1>5 DEF Grown
  <2>2. \E g : LeadsDown(withPDP, e, withPD, g, PDP, at.PD_i)
    BY <1>1, <1>3, <1>5, <2>1, DescendGrows
  <2> HIDE DEF withPD
  <2>3. QED
    BY <1>5, <2>2 DEF LeadsDown
<1>8. withPD.tables[PDP][at.PD_i] = PD
  OBVIOUS
<1> HIDE DEF withPD, PD
<1>9. PICK h : /\ Grown(withPD, g, withPT, h)
               /\ Present(PT) /\ PT \in DOMAIN withPT.tables /\ h[PT] = 3
  <2>1. Sound(withPD, g)
    BY <1>7 DEF Grown
  <2>2. \E h : LeadsDown(withPD, g, withPT, h, PD, at.PT_i)
    BY <1>1, <1>3, <1>7, <2>1, DescendGrows
  <2> HIDE DEF withPT
  <2>3. QED
    BY <1>7, <2>2 DEF LeadsDown
<1>10. withPT.tables[PD][at.PT_i] = PT
  OBVIOUS
<1> HIDE DEF withPT, PT
<1>11. Grown(m, d, withPT, h)
  BY <1>5, <1>7, <1>9, GrownTwice
<1>12. Tree(withPT, h) /\ Sound(withPT, h) /\ withPT.PML4 = m.PML4
  BY <1>11 DEF Grown, Sound
<1>13. PTOf(withPT, v) = PT
  <2>1. withPT.tables[m.PML4][at.PDP_i] = PDP
    BY <1>1, <1>4, <1>5, <1>6, <1>7, <1>9 DEF Grown
  <2>2. withPT.tables[PDP][at.PD_i] = PD
    BY <1>1, <1>5, <1>7, <1>8, <1>9 DEF Grown
  <2>3. Present(m.PML4)
    BY <1>0, <1>12, WalkLevels
  <2>4. QED
    BY <1>5, <1>7, <1>10, <1>12, <2>1, <2>2, <2>3 DEF PTOf, PDOf, PDPOf, Walk, at
<1>14. /\ Tree(n, h) /\ n.pfa = withPT.pfa /\ n.PML4 = withPT.PML4
       /\ DOMAIN n.tables = DOMAIN withPT.tables
  BY <1>1, <1>2, <1>9, <1>12, LeafSet
<1>15. Sound(n, h)
  BY <1>12, <1>14 DEF Sound
<1>16. ASSUME NEW u \in VirtualPages
       PROVE  Translate(n, u) = IF u = v THEN frame ELSE Translate(m, u)
  <2>1. Translate(n, u) = IF u = v THEN frame ELSE Translate(withPT, u)
    BY <1>2, <1>9, <1>12, <1>13, LeafTranslates DEF at
  <2>2. Translate(withPT, u) = Translate(m, u)
    BY <1>11 DEF Grown, VirtualPages
  <2>3. QED
    BY <2>1, <2>2
<1>17. MapsOne(m, n, v, frame)
  BY <1>11, <1>14, <1>16 DEF MapsOne, Grown
<1>18. QED
  BY <1>15, <1>17 DEF n

-----------------------------------------------------------------------------
(* The allocator the kernel starts with.                                     *)
\* The pages below a virtual page are virtual pages.
LEMMA PagesBelow ==
  ASSUME NEW v \in VirtualPages, NEW u \in Nat, u <= v
  PROVE  u \in VirtualPages
<1> DEFINE top == Entries * Entries * Entries * Entries - 1
<1>1. top \in Int
  <2>1. Entries \in Nat \ {0}
    BY PageTablesAssumption
  <2>2. Entries * Entries * Entries * Entries \in Nat \ {0}
    BY <2>1, Levels
  <2>3. QED
    BY <2>2
<1>2. VirtualPages = 0 .. top
  BY DEF VirtualPages
<1> HIDE DEF top
<1>3. QED
  BY <1>1, <1>2

\* What the assumptions say of one memory map and one framebuffer.
LEMMA Layout ==
  ASSUME NEW M \in MemoryMaps, NEW b \in FbBases
  PROVE  /\ GetMemorySize(M) \in Nat /\ 1 <= GetMemorySize(M) /\ GetMemorySize(M) <= HeapStart
         /\ HeapStart \in VirtualPages /\ HeapStart \in Nat
         /\ 0 .. GetMemorySize(M) - 1 \subseteq VirtualPages
         /\ LET size == GetMemorySize(M) \div 8 + 1
            IN  /\ size \in Nat /\ GetMemorySize(M) < size * 8
                /\ size * 8 <= GetMemorySize(M) + 8
                /\ GetMemorySize(M) % 8 = 7 => size * 8 = GetMemorySize(M) + 1
<1> DEFINE ms == GetMemorySize(M)
           q  == ms \div 8
<1>1. ms \in 1 .. HeapStart /\ HeapStart \in Nat
  BY KernelMemoryAssumption
<1> HIDE DEF ms
<1>2. ms \in Nat /\ 1 <= ms /\ ms <= HeapStart
  BY <1>1
<1>3. HeapStart \in VirtualPages
  <2>1. HeapStart \in Pages(HeapStart, InitialPages)
    BY KernelMemoryAssumption DEF Pages
  <2>2. QED
    BY <2>1, KernelMemoryAssumption
<1>4. q \in Nat /\ 8 * q <= ms /\ ms < 8 * q + 8 /\ ms = 8 * q + (ms % 8)
  BY <1>2, Division
<1> HIDE DEF q
<1>5. /\ q + 1 \in Nat /\ ms < (q + 1) * 8 /\ (q + 1) * 8 <= ms + 8
      /\ ms % 8 = 7 => (q + 1) * 8 = ms + 1
  BY <1>2, <1>4
<1>6. 0 .. ms - 1 \subseteq VirtualPages
  <2>1. SUFFICES ASSUME NEW x \in 0 .. ms - 1 PROVE x \in VirtualPages
    OBVIOUS
  <2>2. x \in Nat /\ x <= HeapStart
    BY <1>1, <1>2
  <2>3. QED
    BY <1>3, <2>2, PagesBelow
<1> DEFINE size == ms \div 8 + 1
<1>7. size = q + 1
  BY DEF q
<1> HIDE DEF size
<1>8. /\ size \in Nat /\ ms < size * 8 /\ size * 8 <= ms + 8
      /\ ms % 8 = 7 => size * 8 = ms + 1
  BY <1>5, <1>7
<1>9. QED
  BY <1>1, <1>2, <1>3, <1>6, <1>8, Zenon DEF ms, size

\* The pages nobody may be given once the map was read.
Kept(p, b) ==
  Pages(0, BiosPages) \cup BitmapPages(p) \cup KernelPages \cup Pages(b, FbPages)

\* The allocator after ReadEFIMemoryMap and the lock of the kernel.
ReadAllocator(M) == LockPages(ReadEFIMemoryMap(UninitialisedAllocator, M, {}), KernelPages)

\* It keeps what is not conventional memory, and the BIOS, the bitmap and the
\* kernel.
LEMMA MapIsRead ==
  ASSUME NEW M \in MemoryMaps
  PROVE  LET p == ReadAllocator(M)
         IN  /\ AllocatorOK(p) /\ p.Size = GetMemorySize(M) \div 8 + 1
             /\ (Pages(0, BiosPages) \cup BitmapPages(p) \cup KernelPages \cup
                  ((0 .. GetMemorySize(M)) \ ConventionalPages(M)))
                \cap (0 .. p.Size * 8) \subseteq p.bits
<1> DEFINE ms         == GetMemorySize(M)
           size       == ms \div 8 + 1
           largest    == LargestFreeMemSeg(M)
           usable     == ConventionalPages(M)
           init       == InitBitmap([UninitialisedAllocator EXCEPT !.freeMemory = ms],
                                    size, largest, {})
           looked     == ReservePages(init, Pages(0, ms + 1))
           unreserved == UnreservePages(looked, usable)
           biosSafe   == ReservePages(unreserved, Pages(0, BiosPages))
           read       == LockPages(biosSafe, BitmapPages(biosSafe))
           p          == ReadAllocator(M)
           I          == 0 .. size * 8
<1>1. p = LockPages(read, KernelPages)
  BY DEF ReadAllocator, ReadEFIMemoryMap
<1>2. ms \in Nat /\ largest \in Nat /\ usable \in SUBSET Nat /\ KernelPages \in SUBSET Nat
  BY KernelMemoryAssumption
<1>3. size \in Nat
  <2>1. ms \div 8 \in Nat
    BY <1>2, Division
  <2>2. QED
    BY <2>1
<1>4. BiosPages \in Nat \ {0} /\ PageBytes \in Nat \ {0}
  BY PageFramesAssumption
<1> HIDE DEF ms, size, largest, usable, p
<1>5. /\ Pages(0, ms + 1) \in SUBSET Nat /\ Pages(0, ms + 1) = 0 .. ms
      /\ Pages(0, BiosPages) \in SUBSET Nat
  BY <1>2, <1>4 DEF Pages
<1>6. AllocatorOK(init) /\ init.Size = size /\ init.Buffer = largest /\ init.bits = {}
  <2> DEFINE empty == [UninitialisedAllocator EXCEPT !.freeMemory = ms]
  <2>1. empty = [Size |-> 0, Buffer |-> NULL, bits |-> {}, freeMemory |-> ms,
                 usedMemory |-> 0, reservedMemory |-> 0, pageBitmapIndex |-> 0]
    BY DEF UninitialisedAllocator
  <2>2. init = [empty EXCEPT !.Size = size, !.Buffer = largest, !.bits = {}]
    BY DEF InitBitmap
  <2> HIDE DEF empty, init
  <2>3. init = [Size |-> size, Buffer |-> largest, bits |-> {}, freeMemory |-> ms,
                usedMemory |-> 0, reservedMemory |-> 0, pageBitmapIndex |-> 0]
    BY <2>1, <2>2
  <2>4. QED
    BY <1>2, <1>3, <2>3 DEF AllocatorOK
<1> HIDE DEF init
<1>7. /\ AllocatorOK(looked) /\ looked.Size = size /\ looked.Buffer = largest
      /\ looked.bits = (0 .. ms) \cap I
  <2> DEFINE P == Pages(0, ms + 1)
  <2>1. P \in SUBSET Nat /\ P = 0 .. ms
    BY <1>5
  <2> HIDE DEF P
  <2>2. /\ AllocatorOK(ReservePages(init, P)) /\ (ReservePages(init, P)).Size = size
        /\ (ReservePages(init, P)).Buffer = largest
        /\ (ReservePages(init, P)).bits = {} \cup (P \cap I)
    BY <1>6, <2>1, Marking
  <2>3. QED
    BY <2>1, <2>2 DEF P
<1> HIDE DEF looked
<1>8. /\ AllocatorOK(unreserved) /\ unreserved.Size = size /\ unreserved.Buffer = largest
      /\ unreserved.bits = ((0 .. ms) \cap I) \ usable
  BY <1>2, <1>7, Clearing
<1> HIDE DEF unreserved
<1>9. /\ AllocatorOK(biosSafe) /\ biosSafe.Size = size /\ biosSafe.Buffer = largest
      /\ biosSafe.bits = unreserved.bits \cup (Pages(0, BiosPages) \cap I)
  BY <1>5, <1>8, Marking
<1> HIDE DEF biosSafe
<1>10. BitmapPages(biosSafe) \in SUBSET Nat
  <2>1. size \div PageBytes \in Nat
    BY <1>3, <1>4, Division
  <2>2. QED
    BY <1>2, <1>9, <2>1 DEF BitmapPages, Pages
<1>11. /\ AllocatorOK(read) /\ read.Size = size /\ read.Buffer = largest
       /\ read.bits = biosSafe.bits \cup (BitmapPages(biosSafe) \cap I)
  BY <1>9, <1>10, Marking
<1> HIDE DEF read
<1>12. /\ AllocatorOK(p) /\ p.Size = size /\ p.Buffer = largest
       /\ p.bits = read.bits \cup (KernelPages \cap I)
  BY <1>1, <1>2, <1>11, Marking
<1>13. BitmapPages(p) = BitmapPages(biosSafe)
  BY <1>9, <1>12 DEF BitmapPages
<1>14. (Pages(0, BiosPages) \cup BitmapPages(p) \cup KernelPages \cup ((0 .. ms) \ usable))
         \cap I \subseteq p.bits
  BY <1>8, <1>9, <1>11, <1>12, <1>13
<1>15. QED
  BY <1>12, <1>14 DEF p, ms, size, usable

\* Page GetMemorySize has a bit, but is only free if the map has a hole.
EndIsNoMemory(M) == GetMemorySize(M) \notin ConventionalPages(M)

\* So neither they nor the framebuffer can be requested.
LEMMA KeptAtFirst ==
  ASSUME NEW M \in MemoryMaps, NEW b \in FbBases
  PROVE  LET p == ReadAllocator(M)
         IN  /\ AllocatorOK(p) /\ p.Size = GetMemorySize(M) \div 8 + 1
             /\ NULL \in p.bits
             /\ Kept(p, b) \cap Grantable(p) \subseteq p.bits
             /\ EndIsNoMemory(M) => GetMemorySize(M) \in p.bits
<1> DEFINE p == ReadAllocator(M)
           ms == GetMemorySize(M)
           usable == ConventionalPages(M)
<1>1. /\ AllocatorOK(p) /\ p.Size = ms \div 8 + 1
      /\ (Pages(0, BiosPages) \cup BitmapPages(p) \cup KernelPages \cup ((0 .. ms) \ usable))
           \cap (0 .. p.Size * 8) \subseteq p.bits
  BY MapIsRead
<1>2. /\ ms \in Nat /\ p.Size \in Nat /\ ms < p.Size * 8 /\ p.Size * 8 <= ms + 8
  BY <1>1, Layout
<1>3. Pages(b, FbPages) \cap (usable \cup (ms + 1 .. ms + 7)) = {}
  BY DevicesAreApart
<1>4. EndIsNoMemory(M) => ms \notin usable
  BY DEF EndIsNoMemory
<1>5. 0 \in Pages(0, BiosPages)
  BY PageFramesAssumption DEF Pages
<1> HIDE DEF p, ms, usable
<1>6. Grantable(p) \subseteq 0 .. p.Size * 8 /\ Grantable(p) \subseteq 0 .. ms + 7
  BY <1>2 DEF Grantable
<1>7. ASSUME NEW x \in Pages(b, FbPages), x \in Grantable(p)
      PROVE  x \in p.bits
  <2>1. x \in 0 .. ms
    BY <1>2, <1>3, <1>6, <1>7
  <2>2. x \notin usable
    BY <1>3, <1>7
  <2>3. QED
    BY <1>1, <1>6, <1>7, <2>1, <2>2
<1>8. Kept(p, b) \cap Grantable(p) \subseteq p.bits
  BY <1>1, <1>6, <1>7 DEF Kept
<1>9. NULL \in p.bits
  BY <1>1, <1>2, <1>5 DEF NULL
<1>10. EndIsNoMemory(M) => ms \in p.bits
  BY <1>1, <1>2, <1>4
<1>11. QED
  BY <1>1, <1>8, <1>9, <1>10 DEF p, ms

-----------------------------------------------------------------------------
(* What is in use while the kernel maps and requests.                        *)
\* The frames of the heap up to page e.
HeapFramesOf(m, e) == {Translate(m, v) : v \in HeapStart .. e - 1}

\* The pages that may be mapped to themselves.
Identical(M, b) ==
  (0 .. GetMemorySize(M) - 1) \cup Pages(b, FbPages + 1) \cup DevicePages

\* The frames in use for tables, for the heap up to e, and as data D: each has
\* one use, is taken, and is none of the pages that are kept.
FramesApart(m, b, e, D) ==
  LET T == DOMAIN m.tables
      H == HeapFramesOf(m, e)
  IN  /\ T \cup H \cup D \subseteq Grantable(m.pfa) \cap m.pfa.bits
      /\ (T \cup H \cup D) \cap Kept(m.pfa, b) = {}
      /\ T \cap H = {} /\ T \cap D = {} /\ H \cap D = {}
      /\ IsFiniteSet(H) /\ Cardinality(H) = e - HeapStart

\* What is mapped: the pages of I to themselves, and those of the heap.
Translations(m, e, I) ==
  /\ \A v \in I : Translate(m, v) = v
  /\ \A v \in VirtualPages :
       v \notin I /\ v \notin HeapStart .. e - 1 => Translate(m, v) = NotPresent

\* Of the allocator: it keeps what it must, and it is as large as the memory.
Keeps(p, M, b) ==
  /\ p.Size = GetMemorySize(M) \div 8 + 1
  /\ Kept(p, b) \cap Grantable(p) \subseteq p.bits
  /\ EndIsNoMemory(M) => GetMemorySize(M) \in p.bits

\* The kernel's memory while it can be extended.
Using(m, M, b, e, D, I) ==
  /\ \E d : Sound(m, d)
  /\ Keeps(m.pfa, M, b)
  /\ FramesApart(m, b, e, D)
  /\ EndIsNoMemory(M) => GetMemorySize(M) \notin DOMAIN m.tables \cup D
  /\ e \in Nat /\ HeapStart <= e /\ HeapStart .. e - 1 \subseteq VirtualPages
  /\ I \subseteq Identical(M, b) /\ I \subseteq VirtualPages
  /\ Translations(m, e, I)

\* Only the top table and the contents of the tables matter to the walk.
LEMMA SameTables ==
  ASSUME NEW m, NEW n, n.PML4 = m.PML4, n.tables = m.tables
  PROVE  /\ \A v : Translate(n, v) = Translate(m, v)
         /\ \A e : HeapFramesOf(n, e) = HeapFramesOf(m, e)
<1>1. \A v : Translate(n, v) = Translate(m, v)
  BY DEF Translate
<1>2. QED
  BY <1>1 DEF HeapFramesOf

\* What is kept depends on where the bitmap lies and how long it is.
LEMMA SameKept ==
  ASSUME NEW p, NEW q, q.Size = p.Size, q.Buffer = p.Buffer, NEW b
  PROVE  Kept(q, b) = Kept(p, b) /\ Grantable(q) = Grantable(p)
BY DEF Kept, BitmapPages, Grantable

\* Memory with another allocator that has taken no less.
LEMMA OtherAllocator ==
  ASSUME NEW m, NEW d, Sound(m, d), NEW p, AllocatorOK(p),
         p.Size = m.pfa.Size, p.Buffer = m.pfa.Buffer, m.pfa.bits \subseteq p.bits
  PROVE  LET n == [m EXCEPT !.pfa = p]
         IN  /\ n.pfa = p /\ n.PML4 = m.PML4 /\ n.tables = m.tables
             /\ Sound(n, d)
<1> DEFINE n == [m EXCEPT !.pfa = p]
<1>1. m = [pfa |-> m.pfa, PML4 |-> m.PML4, tables |-> m.tables]
  BY DEF Sound, Tree, IsMemory
<1>2. n = [pfa |-> p, PML4 |-> m.PML4, tables |-> m.tables]
  BY <1>1
<1> HIDE DEF n
<1>3. n.pfa = p /\ n.PML4 = m.PML4 /\ n.tables = m.tables /\ IsMemory(n)
  BY <1>2 DEF IsMemory
<1>4. Inner(n, d) = Inner(m, d)
  BY <1>3 DEF Inner
<1>5. Tree(n, d)
  BY <1>3, <1>4 DEF Sound, Tree
<1>6. Sound(n, d)
  BY <1>3, <1>5 DEF Sound
<1>7. QED
  BY <1>3, <1>6 DEF n

\* Taking more pages keeps them.
LEMMA KeepsMore ==
  ASSUME NEW M, NEW b, NEW p, NEW q, Keeps(p, M, b),
         q.Size = p.Size, q.Buffer = p.Buffer, p.bits \subseteq q.bits
  PROVE  Keeps(q, M, b)
<1>1. Kept(q, b) = Kept(p, b) /\ Grantable(q) = Grantable(p)
  BY SameKept
<1>2. QED
  BY <1>1 DEF Keeps

\* A call that only takes pages (LockPages) leaves everything in use as it was.
LEMMA UsingAllocator ==
  ASSUME NEW m, NEW M \in MemoryMaps, NEW b \in FbBases, NEW e, NEW D, NEW I,
         Using(m, M, b, e, D, I), NEW p, AllocatorOK(p),
         p.Size = m.pfa.Size, p.Buffer = m.pfa.Buffer, m.pfa.bits \subseteq p.bits
  PROVE  Using([m EXCEPT !.pfa = p], M, b, e, D, I)
<1> DEFINE n == [m EXCEPT !.pfa = p]
<1>1. PICK d : Sound(m, d)
  BY DEF Using
<1>2. n.pfa = p /\ n.PML4 = m.PML4 /\ n.tables = m.tables /\ Sound(n, d)
  BY <1>1, OtherAllocator
<1> HIDE DEF n
<1>3. /\ \A v : Translate(n, v) = Translate(m, v)
      /\ HeapFramesOf(n, e) = HeapFramesOf(m, e)
  BY <1>2, SameTables
<1>4. Keeps(n.pfa, M, b)
  BY <1>2, KeepsMore DEF Using
<1>5. Kept(p, b) = Kept(m.pfa, b) /\ Grantable(p) = Grantable(m.pfa)
  BY SameKept
<1>6. FramesApart(n, b, e, D)
  BY <1>2, <1>3, <1>5 DEF Using, FramesApart
<1>7. Translations(n, e, I)
  BY <1>3 DEF Using, Translations
<1>8. Using(n, M, b, e, D, I)
  BY <1>2, <1>4, <1>6, <1>7 DEF Using
<1>9. QED
  BY <1>8 DEF n

\* A frame that was not taken is in no use, and not kept, and is memory.
LEMMA FreshFrame ==
  ASSUME NEW m, NEW M \in MemoryMaps, NEW b \in FbBases, NEW e, NEW D, NEW I,
         Using(m, M, b, e, D, I), NEW f \in Grantable(m.pfa) \ m.pfa.bits
  PROVE  /\ f \notin DOMAIN m.tables /\ f \notin HeapFramesOf(m, e) /\ f \notin D
         /\ f \notin Kept(m.pfa, b)
         /\ EndIsNoMemory(M) => f # GetMemorySize(M)
BY DEF Using, FramesApart, Keeps

\* RequestPage finds such a frame, unless it finds none.
LEMMA UsingRequested ==
  ASSUME NEW m, NEW M \in MemoryMaps, NEW b \in FbBases, NEW e, NEW D, NEW I,
         Using(m, M, b, e, D, I), RequestedPage(m.pfa) # NULL
  PROVE  LET n == [m EXCEPT !.pfa = RequestPage(m.pfa)]
             f == RequestedPage(m.pfa)
         IN  /\ f \in Grantable(m.pfa) \ m.pfa.bits
             /\ Using(n, M, b, e, D, I) /\ Using(n, M, b, e, D \cup {f}, I)
             /\ n.pfa = RequestPage(m.pfa) /\ f \in n.pfa.bits
             /\ n.PML4 = m.PML4 /\ n.tables = m.tables
<1> DEFINE p == RequestPage(m.pfa)
           n == [m EXCEPT !.pfa = p]
           f == RequestedPage(m.pfa)
<1>1. PICK d : Sound(m, d)
  BY DEF Using
<1>2. AllocatorOK(m.pfa) /\ NULL \in m.pfa.bits
  BY <1>1 DEF Sound
<1>3. /\ AllocatorOK(p) /\ p.Size = m.pfa.Size /\ p.Buffer = m.pfa.Buffer
      /\ f \in Grantable(m.pfa) \ m.pfa.bits /\ p.bits = m.pfa.bits \cup {f}
  BY <1>2, Requesting
<1> HIDE DEF p, f
<1>4. n.pfa = p /\ n.PML4 = m.PML4 /\ n.tables = m.tables
  BY <1>1, <1>3, OtherAllocator
<1>5. Using(n, M, b, e, D, I)
  BY <1>3, UsingAllocator
<1> HIDE DEF n
<1>6. /\ f \notin DOMAIN m.tables /\ f \notin HeapFramesOf(m, e) /\ f \notin D
      /\ f \notin Kept(m.pfa, b)
      /\ EndIsNoMemory(M) => f # GetMemorySize(M)
  BY <1>3, FreshFrame
<1>7. /\ HeapFramesOf(n, e) = HeapFramesOf(m, e)
      /\ Kept(n.pfa, b) = Kept(m.pfa, b) /\ Grantable(n.pfa) = Grantable(m.pfa)
  BY <1>3, <1>4, SameTables, SameKept
<1>8. FramesApart(n, b, e, D \cup {f})
  BY <1>3, <1>4, <1>5, <1>6, <1>7 DEF Using, FramesApart
<1>9. Using(n, M, b, e, D \cup {f}, I)
  BY <1>4, <1>5, <1>6, <1>8 DEF Using
<1>10. QED
  BY <1>3, <1>4, <1>5, <1>9 DEF n, p, f

-----------------------------------------------------------------------------
\* The heap is no larger than the memory, so that it does not reach a page that
\* is mapped to itself; with one more frame to spare, nor does the page behind it.
LEMMA HeapStaysBelow ==
  ASSUME NEW m, NEW M \in MemoryMaps, NEW b \in FbBases, NEW e, NEW D, NEW I,
         Using(m, M, b, e, D, I)
  PROVE  /\ \A v \in Identical(M, b) : v \notin HeapStart .. e - 1
         /\ (\E f \in Grantable(m.pfa) : f \notin HeapFramesOf(m, e)) => e \notin Identical(M, b)
<1> DEFINE H  == HeapFramesOf(m, e)
           R  == Grantable(m.pfa)
           ms == GetMemorySize(M)
           size == m.pfa.Size
<1>1. /\ ms \in Nat /\ ms <= HeapStart /\ HeapStart \in Nat
      /\ size \in Nat /\ size * 8 <= ms + 8
  <2>1. size = ms \div 8 + 1
    BY DEF Using, Keeps
  <2>2. QED
    BY <2>1, Layout
<1>2. /\ H \subseteq R /\ IsFiniteSet(H) /\ Cardinality(H) = e - HeapStart
      /\ e \in Nat /\ HeapStart <= e
  BY DEF Using, FramesApart
<1>3. (Pages(b, FbPages + 1) \cup DevicePages) \cap (HeapStart .. HeapStart + ms + 7) = {}
  BY DevicesAreApart
<1> HIDE DEF ms, H
<1>4. /\ IsFiniteSet(R) /\ Cardinality(R) = size * 8
  <2> DEFINE last == size * 8 - 1
  <2>1. last \in Int /\ 0 <= last + 1 /\ R = 0 .. last
    BY <1>1 DEF Grantable
  <2> HIDE DEF last
  <2>2. IsFiniteSet(R) /\ Cardinality(R) = IF 0 > last THEN 0 ELSE last - 0 + 1
    BY <2>1, FS_Interval
  <2>3. QED
    BY <1>1, <2>1, <2>2 DEF last
<1> HIDE DEF size, R
<1>5. Cardinality(H) <= size * 8
  BY <1>2, <1>4, FS_Subset
<1>6. ASSUME NEW v \in Identical(M, b), v \in HeapStart .. HeapStart + ms + 7
      PROVE  FALSE
  BY <1>1, <1>3, <1>6 DEF Identical, ms
<1>7. \A v \in Identical(M, b) : v \notin HeapStart .. e - 1
  BY <1>1, <1>2, <1>5, <1>6
<1>8. ASSUME NEW f \in R, f \notin H
      PROVE  e \notin Identical(M, b)
  <2>1. IsFiniteSet(H \cup {f}) /\ Cardinality(H \cup {f}) = Cardinality(H) + 1
    BY <1>2, <1>8, FS_AddElement
  <2>2. H \cup {f} \subseteq R
    BY <1>2, <1>8
  <2>3. Cardinality(H \cup {f}) <= size * 8
    BY <1>4, <2>2, FS_Subset
  <2>4. e \in HeapStart .. HeapStart + ms + 7
    BY <1>1, <1>2, <2>1, <2>3
  <2>5. QED
    BY <1>6, <2>4
<1>9. QED
  BY <1>7, <1>8 DEF R, H

\* MapMemory changes one translation, which was none or the same.
MapsAnew(m, n, v, frame) ==
  /\ Translate(m, v) \in {NotPresent, frame}
  /\ \A u \in VirtualPages : Translate(n, u) = IF u = v THEN frame ELSE Translate(m, u)

\* The frames of n's tables, those of the heap H and those of D: each has one use.
StillApart(m, n, M, b, H, D) ==
  LET T == DOMAIN n.tables
  IN  /\ Keeps(n.pfa, M, b) /\ Grantable(n.pfa) = Grantable(m.pfa)
      /\ Kept(n.pfa, b) = Kept(m.pfa, b)
      /\ T \cup H \cup D \subseteq Grantable(m.pfa) \cap n.pfa.bits
      /\ (T \cup H \cup D) \cap Kept(m.pfa, b) = {}
      /\ T \cap H = {} /\ T \cap D = {} /\ H \cap D = {}
      /\ EndIsNoMemory(M) => GetMemorySize(M) \notin T \cup D

\* The tables MapMemory adds are of fresh frames, so nothing is used twice.
LEMMA UsingTables ==
  ASSUME NEW m, NEW M \in MemoryMaps, NEW b \in FbBases, NEW e, NEW D, NEW I,
         Using(m, M, b, e, D, I), NEW n, NEW v, NEW frame, MapsOne(m, n, v, frame),
         \E d : Sound(n, d)
  PROVE  StillApart(m, n, M, b, HeapFramesOf(m, e), D)
<1> DEFINE T == DOMAIN n.tables
           F == T \ DOMAIN m.tables
           H == HeapFramesOf(m, e)
<1>1. /\ Keeps(n.pfa, M, b) /\ Grantable(n.pfa) = Grantable(m.pfa)
      /\ Kept(n.pfa, b) = Kept(m.pfa, b)
  BY KeepsMore, SameKept DEF MapsOne, Using
<1>2. F \subseteq Grantable(m.pfa) \ m.pfa.bits
  BY DEF MapsOne
<1>3. \A f \in F : /\ f \notin H /\ f \notin D /\ f \notin Kept(m.pfa, b)
                   /\ EndIsNoMemory(M) => f # GetMemorySize(M)
  BY <1>2, FreshFrame
<1>4. T \subseteq n.pfa.bits
  BY DEF Sound
<1>5. T = DOMAIN m.tables \cup F /\ m.pfa.bits \subseteq n.pfa.bits
  BY DEF MapsOne
<1>6. /\ DOMAIN m.tables \cup H \cup D \subseteq Grantable(m.pfa) \cap m.pfa.bits
      /\ (DOMAIN m.tables \cup H \cup D) \cap Kept(m.pfa, b) = {}
      /\ DOMAIN m.tables \cap H = {} /\ DOMAIN m.tables \cap D = {} /\ H \cap D = {}
      /\ EndIsNoMemory(M) => GetMemorySize(M) \notin DOMAIN m.tables \cup D
  BY DEF Using, FramesApart
<1> HIDE DEF T, F, H
<1>7. T \cup H \cup D \subseteq Grantable(m.pfa) \cap n.pfa.bits
  BY <1>2, <1>4, <1>5, <1>6
<1>8. (T \cup H \cup D) \cap Kept(m.pfa, b) = {}
  BY <1>3, <1>5, <1>6
<1>9. /\ T \cap H = {} /\ T \cap D = {} /\ H \cap D = {}
      /\ EndIsNoMemory(M) => GetMemorySize(M) \notin T \cup D
  BY <1>3, <1>5, <1>6
<1>10. StillApart(m, n, M, b, H, D)
  BY <1>1, <1>7, <1>8, <1>9 DEF StillApart, T
<1>11. QED
  BY <1>10 DEF H

\* A page is mapped to itself, the first time or again.
LEMMA UsingItself ==
  ASSUME NEW m, NEW M \in MemoryMaps, NEW b \in FbBases, NEW e, NEW D, NEW I,
         Using(m, M, b, e, D, I), NEW v \in Identical(M, b), v \in VirtualPages,
         NULL \notin DOMAIN (MapMemory(m, v, v)).tables
  PROVE  LET n == MapMemory(m, v, v)
         IN  Using(n, M, b, e, D, I \cup {v}) /\ MapsAnew(m, n, v, v)
<1> DEFINE n == MapMemory(m, v, v)
           H == HeapFramesOf(m, e)
<1>0. v \in Nat
  BY DEF VirtualPages
<1>1. PICK d : Sound(m, d)
  BY DEF Using
<1>2. MapsOne(m, n, v, v) /\ \E g : Sound(n, g)
  BY <1>0, <1>1, MapMemoryMaps
<1> HIDE DEF n
<1>3. StillApart(m, n, M, b, H, D)
  BY <1>2, UsingTables
<1>4. \A u \in VirtualPages : Translate(n, u) = IF u = v THEN v ELSE Translate(m, u)
  BY <1>2 DEF MapsOne
<1>5. \A u \in Identical(M, b) : u \notin HeapStart .. e - 1
  BY HeapStaysBelow
<1>6. /\ HeapStart .. e - 1 \subseteq VirtualPages
      /\ I \subseteq Identical(M, b) /\ I \subseteq VirtualPages
      /\ \A u \in I : Translate(m, u) = u
      /\ \A u \in VirtualPages :
           u \notin I /\ u \notin HeapStart .. e - 1 => Translate(m, u) = NotPresent
      /\ IsFiniteSet(H) /\ Cardinality(H) = e - HeapStart
  BY DEF Using, Translations, FramesApart
<1>7. HeapFramesOf(n, e) = H
  <2>1. \A u \in HeapStart .. e - 1 : Translate(n, u) = Translate(m, u)
    BY <1>4, <1>5, <1>6
  <2>2. QED
    BY <2>1 DEF HeapFramesOf
<1>8. FramesApart(n, b, e, D)
  BY <1>3, <1>6, <1>7 DEF FramesApart, StillApart
<1>9. Translations(n, e, I \cup {v})
  BY <1>4, <1>6 DEF Translations
<1>10. MapsAnew(m, n, v, v)
  BY <1>4, <1>5, <1>6 DEF MapsAnew
<1>11. Using(n, M, b, e, D, I \cup {v})
  BY <1>2, <1>3, <1>6, <1>8, <1>9 DEF Using, StillApart
<1>12. QED
  BY <1>10, <1>11 DEF n

\* The heap gets a frame more, which was requested for it.
LEMMA UsingHeap ==
  ASSUME NEW m, NEW M \in MemoryMaps, NEW b \in FbBases, NEW e, NEW D, NEW I,
         Using(m, M, b, e, D, I), e \in VirtualPages, RequestedPage(m.pfa) # NULL,
         NULL \notin DOMAIN (MapMemory([m EXCEPT !.pfa = RequestPage(m.pfa)], e,
                                       RequestedPage(m.pfa))).tables
  PROVE  LET f == RequestedPage(m.pfa)
             n == MapMemory([m EXCEPT !.pfa = RequestPage(m.pfa)], e, f)
         IN  Using(n, M, b, e + 1, D, I) /\ MapsAnew(m, n, e, f)
<1> DEFINE f == RequestedPage(m.pfa)
           r == [m EXCEPT !.pfa = RequestPage(m.pfa)]
           n == MapMemory(r, e, f)
           H == HeapFramesOf(m, e)
<1>1. /\ f \in Grantable(m.pfa) \ m.pfa.bits
      /\ Using(r, M, b, e, D, I) /\ Using(r, M, b, e, D \cup {f}, I)
      /\ r.PML4 = m.PML4 /\ r.tables = m.tables
  BY UsingRequested
<1>2. f \in Nat
  BY <1>1 DEF Grantable
<1>3. \A u : Translate(r, u) = Translate(m, u)
  BY <1>1, SameTables
<1>4. HeapFramesOf(r, e) = H
  BY <1>1, SameTables
<1>5. NULL \notin DOMAIN n.tables
  OBVIOUS
<1> HIDE DEF f, r
<1>6. PICK d : Sound(r, d)
  BY <1>1 DEF Using
<1>7. MapsOne(r, n, e, f) /\ \E g : Sound(n, g)
  BY <1>2, <1>5, <1>6, MapMemoryMaps
<1> HIDE DEF n, H
<1>8. StillApart(r, n, M, b, H, D \cup {f})
  BY <1>1, <1>4, <1>7, UsingTables
<1>9. \A u \in VirtualPages : Translate(n, u) = IF u = e THEN f ELSE Translate(m, u)
  BY <1>3, <1>7 DEF MapsOne
<1>10. f \notin H /\ f \notin D
  BY <1>1, FreshFrame DEF H
<1>11. e \notin Identical(M, b)
  BY <1>1, <1>10, HeapStaysBelow DEF H
<1>12. /\ HeapStart .. e - 1 \subseteq VirtualPages
       /\ I \subseteq Identical(M, b) /\ I \subseteq VirtualPages
       /\ \A u \in I : Translate(m, u) = u
       /\ \A u \in VirtualPages :
            u \notin I /\ u \notin HeapStart .. e - 1 => Translate(m, u) = NotPresent
       /\ IsFiniteSet(H) /\ Cardinality(H) = e - HeapStart
       /\ H \cap D = {} /\ e \in Nat /\ HeapStart <= e
  BY DEF Using, Translations, FramesApart, H
<1>13. HeapStart \in Nat
  BY KernelMemoryAssumption
<1>14. /\ HeapStart .. (e + 1) - 1 = (HeapStart .. e - 1) \cup {e}
       /\ e \notin HeapStart .. e - 1
  BY <1>12, <1>13
<1>15. HeapFramesOf(n, e + 1) = H \cup {f}
  <2>1. \A u \in HeapStart .. e - 1 : Translate(n, u) = Translate(m, u)
    BY <1>9, <1>12, <1>14
  <2>2. Translate(n, e) = f
    BY <1>9
  <2>3. QED
    BY <1>14, <2>1, <2>2 DEF HeapFramesOf, H
<1>16. IsFiniteSet(H \cup {f}) /\ Cardinality(H \cup {f}) = Cardinality(H) + 1
  BY <1>10, <1>12, FS_AddElement
<1>17. Cardinality(H \cup {f}) = (e + 1) - HeapStart
  BY <1>12, <1>13, <1>16
<1>18. FramesApart(n, b, e + 1, D)
  BY <1>8, <1>10, <1>12, <1>15, <1>16, <1>17 DEF FramesApart, StillApart
<1>19. Translations(n, e + 1, I)
  BY <1>9, <1>11, <1>12, <1>14 DEF Translations
<1>20. MapsAnew(m, n, e, f)
  BY <1>9, <1>11, <1>12, <1>14 DEF MapsAnew
<1>21. e + 1 \in Nat /\ HeapStart <= e + 1 /\ HeapStart .. (e + 1) - 1 \subseteq VirtualPages
  BY <1>12, <1>13, <1>14
<1>22. Using(n, M, b, e + 1, D, I)
  BY <1>7, <1>8, <1>12, <1>18, <1>19, <1>21 DEF Using, StillApart
<1>23. QED
  BY <1>20, <1>22 DEF n, r, f

\* The tables of each level, as TablesFormATree finds them from the PML4.
LEMMA TreeLevels ==
  ASSUME NEW m, NEW d, Tree(m, d)
  PROVE  LET T == DOMAIN m.tables
         IN  /\ {m.PML4} = {x \in T : d[x] = 0}
             /\ PDPs(m) = {x \in T : d[x] = 1}
             /\ PDs(m) = {x \in T : d[x] = 2}
             /\ PTs(m) = {x \in T : d[x] = 3}
<1> DEFINE T == DOMAIN m.tables
           Level(k) == {x \in T : d[x] = k}
<1>1. /\ T \subseteq Nat /\ d \in [T -> 0 .. 3] /\ m.PML4 \in T
      /\ \A x \in T : d[x] = 0 <=> x = m.PML4
      /\ \A x \in T, i \in Rows : d[x] < 3 /\ Present(m.tables[x][i]) =>
           m.tables[x][i] \in T /\ d[m.tables[x][i]] = d[x] + 1
      /\ \A y \in T : y # m.PML4 => \E x \in T, i \in Rows : d[x] < 3 /\ m.tables[x][i] = y
  BY DEF Tree
<1>2. \A x \in T : Present(x)
  BY <1>1 DEF Present, NotPresent
<1>3. ASSUME NEW k \in 0 .. 2
      PROVE  Targets(m, Level(k)) = Level(k + 1)
  <2>1. ASSUME NEW y \in Targets(m, Level(k))
        PROVE  y \in Level(k + 1)
    <3>1. PICK e \in {x \in Level(k) \X (0 .. Entries - 1) : Present(m.tables[x[1]][x[2]])} :
            y = m.tables[e[1]][e[2]]
      BY <2>1 DEF Targets
    <3>2. e[1] \in T /\ d[e[1]] = k /\ e[2] \in Rows /\ Present(m.tables[e[1]][e[2]])
      BY <3>1 DEF Rows
    <3>3. d[e[1]] < 3
      BY <3>2
    <3>4. QED
      BY <1>1, <3>1, <3>2, <3>3
  <2>2. ASSUME NEW y \in Level(k + 1)
        PROVE  y \in Targets(m, Level(k))
    <3>1. y \in T /\ d[y] = k + 1 /\ y # m.PML4
      BY <1>1
    <3>2. PICK x \in T, i \in Rows : d[x] < 3 /\ m.tables[x][i] = y
      BY <1>1, <3>1
    <3>3. Present(m.tables[x][i])
      BY <1>2, <3>1, <3>2
    <3>4. d[y] = d[x] + 1
      BY <1>1, <3>2, <3>3
    <3>5. x \in Level(k)
      BY <1>1, <3>1, <3>4
    <3> DEFINE e == <<x, i>>
    <3>6. e \in {z \in Level(k) \X (0 .. Entries - 1) : Present(m.tables[z[1]][z[2]])}
      BY <3>3, <3>5 DEF Rows
    <3>7. y = m.tables[e[1]][e[2]]
      BY <3>2
    <3>8. QED
      BY <3>6, <3>7 DEF Targets
  <2>3. QED
    BY <2>1, <2>2
<1>4. {m.PML4} = Level(0)
  BY <1>1
<1>5. PDPs(m) = Level(1)
  BY <1>3, <1>4 DEF PDPs
<1>6. PDs(m) = Level(2)
  BY <1>3, <1>5 DEF PDs
<1>7. PTs(m) = Level(3)
  BY <1>3, <1>6 DEF PTs
<1>8. QED
  BY <1>4, <1>5, <1>6, <1>7

\* What TablesFormATree says of memory.
LEMMA TreeCounts ==
  ASSUME NEW m, NEW d, Tree(m, d)
  PROVE  LET inner == {m.PML4} \cup PDPs(m) \cup PDs(m)
             entries == {x \in inner \X (0 .. Entries - 1) : Present(m.tables[x[1]][x[2]])}
         IN  /\ DOMAIN m.tables = inner \cup PTs(m)
             /\ Cardinality(DOMAIN m.tables) = Cardinality(entries) + 1
<1> DEFINE T == DOMAIN m.tables
           inner == {m.PML4} \cup PDPs(m) \cup PDs(m)
           entries == {x \in inner \X (0 .. Entries - 1) : Present(m.tables[x[1]][x[2]])}
<1>1. /\ {m.PML4} = {x \in T : d[x] = 0} /\ PDPs(m) = {x \in T : d[x] = 1}
      /\ PDs(m) = {x \in T : d[x] = 2} /\ PTs(m) = {x \in T : d[x] = 3}
  BY TreeLevels
<1>2. d \in [T -> 0 .. 3] /\ Cardinality(T) = Cardinality(Inner(m, d)) + 1
  BY DEF Tree
<1>3. inner = {x \in T : d[x] < 3} /\ T = inner \cup PTs(m)
  BY <1>1, <1>2
<1> HIDE DEF inner
<1>4. entries = Inner(m, d)
  <2>1. ASSUME NEW x \in T \X Rows
        PROVE  x \in entries <=> x \in Inner(m, d)
    BY <1>3, <2>1 DEF Inner, Rows
  <2>2. entries \subseteq T \X Rows /\ Inner(m, d) \subseteq T \X Rows
    BY <1>3 DEF Inner, Rows
  <2>3. QED
    BY <2>1, <2>2
<1>5. QED
  BY <1>2, <1>3, <1>4 DEF inner

-----------------------------------------------------------------------------
\* The stages in which the address space is extended.
MappedStages == {"identity", "framebuffer", "heap", "running"}

\* What holds in every stage.
Shape ==
  /\ mMap \in MemoryMaps /\ fbBase \in FbBases /\ stage \in Stages /\ t \in Nat
  /\ heapEnd \in Nat /\ HeapStart <= heapEnd /\ HeapPages \subseteq VirtualPages
  /\ itself \subseteq VirtualPages

\* Before there is a table.
NoTables ==
  /\ IsMemory(mem) /\ mem.PML4 = NULL /\ mem.tables = [f \in {} |-> NULL]
  /\ heapEnd = HeapStart /\ data = {} /\ itself = {}

\* Once there is an allocator.
Allocated == Typed(mem) /\ mem.PML4 \in Tables \cup {NULL} /\ data \subseteq mem.pfa.bits

\* The inductive invariant, stage by stage.  Once NULL was taken for a frame
\* only the types are left.
IInv ==
  /\ Shape
  /\ stage \in {"memory", "PML4"} => NoTables
  /\ stage = "memory" => mem.pfa = UninitialisedAllocator
  /\ stage # "memory" => Allocated
  /\ stage = "PML4" => Keeps(mem.pfa, mMap, fbBase)
  /\ stage \in MappedStages => Using(mem, mMap, fbBase, heapEnd, data, itself)
  /\ stage \in {"identity", "framebuffer"} => heapEnd = HeapStart
  /\ stage = "identity" => itself = 0 .. t - 1 /\ t <= MemoryEnd
  /\ stage \in {"framebuffer", "heap", "running"} => 0 .. MemoryEnd - 1 \subseteq itself
  /\ stage = "framebuffer" => fbBase <= t
  /\ stage = "heap" => heapEnd < HeapStart + InitialPages

\* The address space is as it was, but for one page that was not mapped, or
\* was mapped to the same frame.
Extends ==
  stage' # "wrecked" =>
    \/ Space' = Space
    \/ \E v \in VirtualPages, f \in Nat : /\ Space[v] \in {NotPresent, f}
                                          /\ Space' = [Space EXCEPT ![v] = f]

\* The Space of KernelMemory as a function of memory.
SpaceOf(m) ==
  [v \in VirtualPages |-> IF DOMAIN m.tables = {} THEN NotPresent ELSE Translate(m, v)]

\* Memory whose translations differ in one page.
LEMMA SpaceExtends ==
  ASSUME NEW m, NEW n, DOMAIN m.tables # {}, DOMAIN n.tables # {},
         NEW v \in VirtualPages, NEW f \in Nat, MapsAnew(m, n, v, f)
  PROVE  /\ (SpaceOf(m))[v] \in {NotPresent, f}
         /\ SpaceOf(n) = [SpaceOf(m) EXCEPT ![v] = f]
BY DEF MapsAnew, SpaceOf

\* The allocator does not matter to the address space.
LEMMA SameSpace ==
  ASSUME NEW m, NEW n, n.PML4 = m.PML4, n.tables = m.tables
  PROVE  SpaceOf(n) = SpaceOf(m)
BY SameTables DEF SpaceOf

\* MapMemory leaves typed memory whatever RequestPage returns.
LEMMA MappingTyped ==
  ASSUME NEW m, NEW d, Sound(m, d), NEW v \in Nat, NEW frame \in Nat
  PROVE  LET n == MapMemory(m, v, frame)
         IN  /\ Typed(n) /\ n.PML4 \in DOMAIN n.tables
             /\ m.pfa.bits \subseteq n.pfa.bits
<1> DEFINE n == MapMemory(m, v, frame)
<1>1. StaysTyped(m, n)
  BY MapMemoryTyped
<1>2. m.PML4 \in DOMAIN m.tables
  BY SoundIsTyped
<1> HIDE DEF n
<1>3. Typed(n) /\ n.PML4 \in DOMAIN n.tables /\ m.pfa.bits \subseteq n.pfa.bits
  BY <1>1, <1>2 DEF StaysTyped
<1>4. QED
  BY <1>3 DEF n

\* MapIdentity, MapFramebuffer and MapDevice map a page to itself.
LEMMA MappedToItself ==
  ASSUME IInv, stage \in MappedStages, NEW v \in Identical(mMap, fbBase),
         v \in VirtualPages, mem' = MapMemory(mem, v, v), itself' = itself \cup {v},
         UNCHANGED <<mMap, fbBase, heapEnd, data>>, t' \in Nat,
         NEW next \in Stages, StageAfter(next, mem')
  PROVE  /\ Shape' /\ Allocated' /\ Extends
         /\ stage' # "wrecked" =>
              stage' = next /\ Using(mem', mMap', fbBase', heapEnd', data', itself')
<1>1. /\ Shape /\ Allocated /\ Using(mem, mMap, fbBase, heapEnd, data, itself)
  BY DEF IInv, MappedStages
<1>2. /\ mMap \in MemoryMaps /\ fbBase \in FbBases /\ v \in Nat
  BY <1>1 DEF Shape, VirtualPages
<1>3. PICK d : Sound(mem, d)
  BY <1>1 DEF Using
<1>4. stage' = (IF NULL \in DOMAIN (mem').tables THEN "wrecked" ELSE next)
  BY DEF StageAfter
<1>5. Shape'
  BY <1>1, <1>4 DEF Shape, HeapPages, Stages
<1>6. /\ Typed(mem') /\ (mem').PML4 \in DOMAIN (mem').tables
      /\ mem.pfa.bits \subseteq (mem').pfa.bits
  BY <1>2, <1>3, MappingTyped
<1>7. Allocated'
  BY <1>1, <1>6 DEF Allocated, Tables
<1>8. ASSUME stage' # "wrecked"
      PROVE  /\ stage' = next /\ Using(mem', mMap', fbBase', heapEnd', data', itself')
             /\ MapsAnew(mem, mem', v, v)
  <2>1. stage' = next /\ NULL \notin DOMAIN (MapMemory(mem, v, v)).tables
    BY <1>4, <1>8
  <2> DEFINE n == MapMemory(mem, v, v)
  <2>2. Using(n, mMap, fbBase, heapEnd, data, itself \cup {v}) /\ MapsAnew(mem, n, v, v)
    BY <1>1, <1>2, <2>1, UsingItself
  <2> HIDE DEF n
  <2>3. mem' = n
    BY DEF n
  <2>4. QED
    BY <2>1, <2>2, <2>3
<1>9. Extends
  <2>1. SUFFICES ASSUME stage' # "wrecked"
                 PROVE  Space[v] \in {NotPresent, v} /\ Space' = [Space EXCEPT ![v] = v]
    BY <1>2 DEF Extends
  <2>2. DOMAIN mem.tables # {} /\ DOMAIN (mem').tables # {}
    BY <1>3, <1>6, SoundIsTyped
  <2>3. Space = SpaceOf(mem) /\ Space' = SpaceOf(mem')
    BY DEF Space, SpaceOf, Tables
  <2>4. MapsAnew(mem, mem', v, v)
    BY <1>8, <2>1
  <2>5. QED
    BY <1>2, <2>2, <2>3, <2>4, SpaceExtends
<1>10. QED
  BY <1>5, <1>7, <1>8, <1>9

-----------------------------------------------------------------------------
(* Every action keeps the invariant and extends the address space.           *)
\* The invariant holds before the memory map is read.
LEMMA InitOK == Init => IInv
<1> SUFFICES ASSUME Init PROVE IInv
  OBVIOUS
<1>1. HeapStart \in Nat
  BY KernelMemoryAssumption
<1>2. HeapPages = {}
  BY <1>1 DEF Init, HeapPages
<1>3. Shape
  BY <1>1, <1>2 DEF Init, Shape, Stages
<1>4. NoTables
  BY DEF Init, NoTables, IsMemory
<1>5. QED
  BY <1>3, <1>4 DEF Init, IInv, MappedStages

\* Reading the map (kernel.c:67-73) makes an allocator that keeps what it must.
LEMMA ReadMapOK == IInv /\ ReadMap => IInv' /\ Extends
<1> SUFFICES ASSUME IInv, ReadMap PROVE IInv' /\ Extends
  OBVIOUS
<1> DEFINE p == ReadAllocator(mMap)
<1>1. /\ mMap \in MemoryMaps /\ fbBase \in FbBases /\ Shape
      /\ NoTables /\ mem.pfa = UninitialisedAllocator
  BY DEF IInv, Shape, ReadMap
<1>2. /\ mem' = [mem EXCEPT !.pfa = p] /\ stage' = "PML4"
      /\ UNCHANGED <<mMap, fbBase, t, heapEnd, data, itself>>
  BY <1>1 DEF ReadMap, ReadAllocator
<1>3. /\ AllocatorOK(p) /\ NULL \in p.bits /\ Keeps(p, mMap, fbBase)
  BY <1>1, KeptAtFirst DEF Keeps
<1> HIDE DEF p
<1>4. /\ mem' = [pfa |-> p, PML4 |-> NULL, tables |-> [f \in {} |-> NULL]]
      /\ mem = [pfa |-> mem.pfa, PML4 |-> NULL, tables |-> [f \in {} |-> NULL]]
  BY <1>1, <1>2 DEF NoTables, IsMemory
<1>5. NoTables'
  BY <1>1, <1>2, <1>4 DEF NoTables, IsMemory
<1>6. Allocated'
  <2>1. DOMAIN (mem').tables = {} /\ (mem').tables \in [{} -> [Rows -> Int]]
    BY <1>4
  <2>2. Typed(mem')
    BY <1>3, <1>4, <2>1 DEF Typed, IsMemory
  <2>3. QED
    BY <1>4, <1>5, <2>2 DEF Allocated, NoTables
<1>7. Shape'
  BY <1>1, <1>2 DEF Shape, HeapPages, Stages
<1>8. IInv'
  BY <1>2, <1>3, <1>4, <1>5, <1>6, <1>7 DEF IInv, MappedStages
<1>9. Space' = Space
  BY <1>4 DEF Space, Tables
<1>10. QED
  BY <1>8, <1>9 DEF Extends

\* A table on its own is a tree.
LEMMA FirstTable ==
  ASSUME NEW m, IsMemory(m), NEW f \in Nat, m.PML4 = f, m.tables = [x \in {f} |-> EmptyTable]
  PROVE  /\ Tree(m, [x \in {f} |-> 0])
         /\ \A v \in Nat : Translate(m, v) = NotPresent
<1> DEFINE d == [x \in {f} |-> 0]
<1>1. /\ DOMAIN m.tables = {f} /\ m.tables[f] = EmptyTable
      /\ \A i \in Rows : m.tables[f][i] = NotPresent
  BY DEF EmptyTable
<1>2. NotPresent \in Int /\ ~Present(NotPresent) /\ NotPresent \notin Nat
  BY DEF NotPresent, Present
<1>3. m.tables \in [{f} -> [Rows -> Int]] /\ d \in [{f} -> 0 .. 3]
  BY <1>2 DEF EmptyTable
<1>4. Inner(m, d) = {}
  BY <1>1, <1>2 DEF Inner
<1>5. /\ IsFiniteSet({f}) /\ Cardinality({f}) = 1 /\ IsFiniteSet({}) /\ Cardinality({}) = 0
  BY FS_Singleton, FS_EmptySet
<1>6. \A x \in {f}, i \in Rows : ~Present(m.tables[x][i])
  BY <1>1, <1>2
<1>7. Tree(m, d)
  BY <1>1, <1>3, <1>4, <1>5, <1>6 DEF Tree
<1>8. ASSUME NEW v \in Nat
      PROVE  Translate(m, v) = NotPresent
  <2>1. PageMapIndexer(v).PDP_i \in Rows
    BY IndexTypes
  <2>2. PDPOf(m, v) = NotPresent
    BY <1>1, <2>1 DEF PDPOf, Walk
  <2>3. PDOf(m, v) = NotPresent /\ PTOf(m, v) = NotPresent
    BY <1>2, <2>2 DEF PDOf, PTOf, Walk
  <2>4. QED
    BY <1>2, <2>3, TranslateIsWalk DEF Walk
<1>9. QED
  BY <1>7, <1>8

\* The first table (kernel.c:75-77) is empty: nothing is mapped yet.
LEMMA MakePML4OK == IInv /\ MakePML4 => IInv' /\ Extends
<1> SUFFICES ASSUME IInv, MakePML4 PROVE IInv' /\ Extends
  OBVIOUS
<1> DEFINE f == RequestedPage(mem.pfa)
           p == RequestPage(mem.pfa)
<1>1. /\ mMap \in MemoryMaps /\ fbBase \in FbBases /\ Shape /\ stage = "PML4"
      /\ NoTables /\ Allocated /\ Keeps(mem.pfa, mMap, fbBase)
  BY DEF IInv, Shape, MakePML4
<1>2. /\ mem' = ClearedTable([mem EXCEPT !.pfa = p, !.PML4 = f], f) /\ t' = 0
      /\ stage' = IF NULL \in DOMAIN (mem').tables THEN "wrecked" ELSE "identity"
      /\ UNCHANGED <<mMap, fbBase, heapEnd, data, itself>>
  BY DEF MakePML4, StageAfter
<1>3. /\ AllocatorOK(mem.pfa) /\ NULL \in mem.pfa.bits
  BY <1>1 DEF Allocated, Typed
<1>4. /\ AllocatorOK(p) /\ p.Size = mem.pfa.Size /\ p.Buffer = mem.pfa.Buffer
      /\ f = NULL  => p.bits = mem.pfa.bits
      /\ f # NULL  => f \in Grantable(mem.pfa) \ mem.pfa.bits /\ p.bits = mem.pfa.bits \cup {f}
  BY <1>3, Requesting
<1> HIDE DEF p, f
<1>5. f \in p.bits /\ f \in Nat /\ NULL \in p.bits
  BY <1>3, <1>4 DEF AllocatorOK
<1>6. mem' = [pfa |-> p, PML4 |-> f, tables |-> [x \in {f} |-> EmptyTable]]
  <2> DEFINE r == [mem EXCEPT !.pfa = p, !.PML4 = f]
  <2> DEFINE none == [x \in {} |-> NULL]
  <2> HIDE DEF none
  <2>1. PICK a : mem = [pfa |-> a, PML4 |-> NULL, tables |-> none]
    BY <1>1 DEF NoTables, IsMemory, none
  <2>2. r = [pfa |-> p, PML4 |-> f, tables |-> none]
    <3> DEFINE q == [mem EXCEPT !.pfa = p]
    <3>1. r = [q EXCEPT !.PML4 = f]
      BY <2>1
    <3>2. q = [pfa |-> p, PML4 |-> NULL, tables |-> none]
      BY <2>1
    <3> HIDE DEF q, r
    <3>3. QED
      BY <3>1, <3>2
  <2>3. mem' = ClearedTable(r, f)
    BY <1>2
  <2> HIDE DEF r
  <2> DEFINE T == [x \in {f} |-> IF x = f THEN [i \in 0 .. Entries - 1 |-> NotPresent]
                                 ELSE r.tables[x]]
  <2>4. DOMAIN r.tables \cup {f} = {f}
    BY <2>2 DEF none
  <2>5. mem' = [r EXCEPT !.tables = T]
    BY <2>3, <2>4 DEF ClearedTable
  <2>6. T = [x \in {f} |-> EmptyTable]
    BY DEF EmptyTable, Rows
  <2> HIDE DEF T
  <2>7. QED
    BY <2>2, <2>5, <2>6
<1>7. /\ IsMemory(mem') /\ (mem').pfa = p /\ (mem').PML4 = f
      /\ (mem').tables = [x \in {f} |-> EmptyTable] /\ DOMAIN (mem').tables = {f}
  BY <1>6 DEF IsMemory
<1>8. /\ Tree(mem', [x \in {f} |-> 0])
      /\ \A v \in Nat : Translate(mem', v) = NotPresent
  BY <1>5, <1>7, FirstTable
<1>9. Sound(mem', [x \in {f} |-> 0])
  BY <1>4, <1>5, <1>7, <1>8 DEF Sound
<1>10. Typed(mem')
  BY <1>9, SoundIsTyped
<1>11. Allocated'
  BY <1>1, <1>2, <1>7, <1>10 DEF Allocated, Tables, NoTables
<1>12. Shape'
  BY <1>1, <1>2 DEF Shape, HeapPages, Stages
<1>13. Keeps(p, mMap, fbBase)
  BY <1>1, <1>4, KeepsMore
<1>14. HeapStart \in Nat /\ HeapStart .. heapEnd - 1 = {}
  BY <1>1, KernelMemoryAssumption DEF NoTables
<1>15. ASSUME f # NULL
       PROVE  Using(mem', mMap, fbBase, heapEnd, data, itself)
  <2>0. data = {}
    BY <1>1 DEF NoTables
  <2>1. HeapFramesOf(mem', heapEnd) = {}
    BY <1>14 DEF HeapFramesOf
  <2>2. IsFiniteSet({}) /\ Cardinality({}) = heapEnd - HeapStart
    BY <1>1, <1>14, FS_EmptySet DEF NoTables
  <2>3. Kept(p, fbBase) = Kept(mem.pfa, fbBase) /\ Grantable(p) = Grantable(mem.pfa)
    BY <1>4, SameKept
  <2>4. /\ f \in Grantable(p) /\ f \notin Kept(p, fbBase)
        /\ EndIsNoMemory(mMap) => f # GetMemorySize(mMap)
    BY <1>1, <1>4, <1>15, <2>3 DEF Keeps
  <2>5. FramesApart(mem', fbBase, heapEnd, data)
    BY <1>5, <1>7, <2>0, <2>1, <2>2, <2>4 DEF FramesApart
  <2>6. Translations(mem', heapEnd, itself)
    BY <1>1, <1>8 DEF Translations, NoTables, VirtualPages
  <2>7. \E d : Sound(mem', d)
    BY <1>9
  <2>8. EndIsNoMemory(mMap) => GetMemorySize(mMap) \notin DOMAIN (mem').tables \cup data
    BY <1>7, <2>0, <2>4
  <2>9. /\ heapEnd \in Nat /\ HeapStart <= heapEnd
        /\ HeapStart .. heapEnd - 1 \subseteq VirtualPages
        /\ itself \subseteq Identical(mMap, fbBase) /\ itself \subseteq VirtualPages
    BY <1>1, <1>14 DEF Shape, NoTables
  <2>10. QED
    BY <1>7, <1>13, <2>5, <2>6, <2>7, <2>8, <2>9 DEF Using
<1>16. stage' = IF f = NULL THEN "wrecked" ELSE "identity"
  BY <1>2, <1>7
<1>17. itself = 0 .. 0 - 1 /\ 0 <= MemoryEnd
  BY <1>1, Layout DEF NoTables, MemoryEnd
<1>18. IInv'
  <2>1. CASE f = NULL
    BY <1>11, <1>12, <1>16, <2>1 DEF IInv, MappedStages
  <2>2. CASE f # NULL
    <3>1. /\ stage' = "identity"
          /\ Using(mem', mMap', fbBase', heapEnd', data', itself')
      BY <1>2, <1>15, <1>16, <2>2
    <3>2. heapEnd' = HeapStart /\ itself' = 0 .. t' - 1 /\ t' <= MemoryEnd'
      BY <1>1, <1>2, <1>17 DEF NoTables, MemoryEnd
    <3>3. QED
      BY <1>11, <1>12, <3>1, <3>2 DEF IInv, MappedStages
  <2>3. QED
    BY <2>1, <2>2
<1>19. Space' = Space
  <2>1. Space = [v \in VirtualPages |-> NotPresent]
    BY <1>1 DEF Space, Tables, NoTables
  <2>2. Space' = [v \in VirtualPages |-> NotPresent]
    BY <1>8 DEF Space, Tables, VirtualPages
  <2>3. QED
    BY <2>1, <2>2
<1>20. QED
  BY <1>18, <1>19 DEF Extends

\* One page of memory is mapped to itself (kernel.c:79-81).
LEMMA MapIdentityOK == IInv /\ MapIdentity => IInv' /\ Extends
<1> SUFFICES ASSUME IInv, MapIdentity PROVE IInv' /\ Extends
  OBVIOUS
<1>1. /\ Shape /\ mMap \in MemoryMaps /\ fbBase \in FbBases /\ t \in Nat
      /\ stage = "identity" /\ t < MemoryEnd /\ heapEnd = HeapStart
      /\ itself = 0 .. t - 1 /\ stage \in MappedStages
  BY DEF IInv, Shape, MapIdentity, MappedStages
<1>2. MemoryEnd \in Nat /\ 0 .. MemoryEnd - 1 \subseteq VirtualPages
  BY <1>1, Layout DEF MemoryEnd
<1>3. t \in 0 .. MemoryEnd - 1
  BY <1>1, <1>2
<1>4. t \in Identical(mMap, fbBase) /\ t \in VirtualPages
  BY <1>2, <1>3 DEF Identical, MemoryEnd
<1>5. /\ mem' = MapMemory(mem, t, t) /\ itself' = itself \cup {t}
      /\ StageAfter("identity", mem') /\ t' = t + 1 /\ t' \in Nat
      /\ UNCHANGED <<mMap, fbBase, heapEnd, data>> /\ "identity" \in Stages
  BY <1>1 DEF MapIdentity, Stages
<1>6. /\ Shape' /\ Allocated' /\ Extends
      /\ stage' # "wrecked" =>
           stage' = "identity" /\ Using(mem', mMap', fbBase', heapEnd', data', itself')
  BY <1>1, <1>4, <1>5, MappedToItself
<1>7. itself' = 0 .. t' - 1 /\ t' <= MemoryEnd' /\ heapEnd' = HeapStart
  BY <1>1, <1>2, <1>5 DEF MemoryEnd
<1>8. CASE stage' = "wrecked"
  BY <1>6, <1>8 DEF IInv, MappedStages
<1>9. CASE stage' # "wrecked"
  BY <1>6, <1>7, <1>9 DEF IInv, MappedStages
<1>10. QED
  BY <1>6, <1>8, <1>9

\* The framebuffer is locked (kernel.c:83-85): the tables do not change.
LEMMA LockFramebufferOK == IInv /\ LockFramebuffer => IInv' /\ Extends
<1> SUFFICES ASSUME IInv, LockFramebuffer PROVE IInv' /\ Extends
  OBVIOUS
<1> DEFINE P == Pages(fbBase, FbPages + 2)
           p == LockPages(mem.pfa, P)
<1>1. /\ Shape /\ Allocated /\ mMap \in MemoryMaps /\ fbBase \in FbBases /\ t \in Nat
      /\ stage = "identity" /\ t >= MemoryEnd /\ t <= MemoryEnd /\ heapEnd = HeapStart
      /\ itself = 0 .. t - 1 /\ Using(mem, mMap, fbBase, heapEnd, data, itself)
  BY DEF IInv, Shape, LockFramebuffer, MappedStages
<1>2. /\ mem' = [mem EXCEPT !.pfa = p] /\ stage' = "framebuffer" /\ t' = fbBase
      /\ UNCHANGED <<mMap, fbBase, heapEnd, data, itself>>
  BY DEF LockFramebuffer
<1>3. P \in SUBSET Nat /\ fbBase \in Nat
  BY <1>1, KernelMemoryAssumption DEF Pages
<1>4. PICK d : Sound(mem, d)
  BY <1>1 DEF Using
<1>5. /\ AllocatorOK(p) /\ p.Size = mem.pfa.Size /\ p.Buffer = mem.pfa.Buffer
      /\ mem.pfa.bits \subseteq p.bits
  BY <1>3, <1>4, Marking DEF Sound
<1> HIDE DEF p
<1>6. /\ (mem').pfa = p /\ (mem').PML4 = mem.PML4 /\ (mem').tables = mem.tables
      /\ Sound(mem', d)
  BY <1>2, <1>4, <1>5, OtherAllocator
<1>7. Using(mem', mMap, fbBase, heapEnd, data, itself)
  BY <1>1, <1>2, <1>5, UsingAllocator
<1>8. Allocated'
  BY <1>1, <1>2, <1>5, <1>6, SoundIsTyped DEF Allocated, Tables
<1>9. Shape'
  BY <1>1, <1>2, <1>3 DEF Shape, HeapPages, Stages
<1>10. MemoryEnd \in Nat /\ MemoryEnd' = MemoryEnd
  BY <1>1, <1>2, Layout DEF MemoryEnd
<1>11. 0 .. MemoryEnd' - 1 \subseteq itself' /\ fbBase' <= t'
  BY <1>1, <1>2, <1>3, <1>10
<1>12. IInv'
  BY <1>1, <1>2, <1>7, <1>8, <1>9, <1>11 DEF IInv, MappedStages
<1>13. Space' = Space
  BY <1>6, SameSpace DEF Space, SpaceOf, Tables
<1>14. QED
  BY <1>12, <1>13 DEF Extends

\* One page of the framebuffer is mapped to itself (kernel.c:86-88).
LEMMA MapFramebufferOK == IInv /\ MapFramebuffer => IInv' /\ Extends
<1> SUFFICES ASSUME IInv, MapFramebuffer PROVE IInv' /\ Extends
  OBVIOUS
<1>1. /\ Shape /\ mMap \in MemoryMaps /\ fbBase \in FbBases /\ t \in Nat
      /\ stage = "framebuffer" /\ fbBase <= t /\ t < fbBase + FbPages + 1
      /\ heapEnd = HeapStart /\ 0 .. MemoryEnd - 1 \subseteq itself
      /\ stage \in MappedStages
  BY DEF IInv, Shape, MapFramebuffer, MappedStages
<1>2. fbBase \in Nat /\ FbPages \in Nat /\ Pages(fbBase, FbPages + 1) \subseteq VirtualPages
  BY <1>1, KernelMemoryAssumption
<1>3. t \in Pages(fbBase, FbPages + 1)
  BY <1>1, <1>2 DEF Pages
<1>4. t \in Identical(mMap, fbBase) /\ t \in VirtualPages
  BY <1>2, <1>3 DEF Identical
<1>5. /\ mem' = MapMemory(mem, t, t) /\ itself' = itself \cup {t}
      /\ StageAfter("framebuffer", mem') /\ t' = t + 1 /\ t' \in Nat
      /\ UNCHANGED <<mMap, fbBase, heapEnd, data>> /\ "framebuffer" \in Stages
  BY <1>1 DEF MapFramebuffer, Stages
<1>6. /\ Shape' /\ Allocated' /\ Extends
      /\ stage' # "wrecked" =>
           stage' = "framebuffer" /\ Using(mem', mMap', fbBase', heapEnd', data', itself')
  BY <1>1, <1>4, <1>5, MappedToItself
<1>7. 0 .. MemoryEnd' - 1 \subseteq itself' /\ fbBase' <= t' /\ heapEnd' = HeapStart
  BY <1>1, <1>2, <1>5 DEF MemoryEnd
<1>8. CASE stage' = "wrecked"
  BY <1>6, <1>8 DEF IInv, MappedStages
<1>9. CASE stage' # "wrecked"
  BY <1>6, <1>7, <1>9 DEF IInv, MappedStages
<1>10. QED
  BY <1>6, <1>8, <1>9

\* Loading cr3 (kernel.c:90) changes no table.
LEMMA LoadCR3OK == IInv /\ LoadCR3 => IInv' /\ Extends
<1> SUFFICES ASSUME IInv, LoadCR3 PROVE IInv' /\ Extends
  OBVIOUS
<1>1. /\ Shape /\ Allocated /\ stage = "framebuffer" /\ heapEnd = HeapStart
      /\ Using(mem, mMap, fbBase, heapEnd, data, itself)
      /\ 0 .. MemoryEnd - 1 \subseteq itself
  BY DEF IInv, LoadCR3, MappedStages
<1>2. stage' = "heap" /\ UNCHANGED <<mMap, fbBase, t, mem, heapEnd, data, itself>>
  BY DEF LoadCR3
<1>3. HeapStart < HeapStart + InitialPages
  BY KernelMemoryAssumption
<1>4. Shape' /\ Allocated'
  BY <1>1, <1>2 DEF Shape, Allocated, Tables, HeapPages, Stages
<1>5. IInv'
  BY <1>1, <1>2, <1>3, <1>4 DEF IInv, MappedStages, MemoryEnd
<1>6. Space' = Space
  BY <1>2 DEF Space, Tables
<1>7. QED
  BY <1>5, <1>6 DEF Extends

\* A page more for the heap.
LEMMA MapHeapPageOK ==
  ASSUME IInv, stage \in {"heap", "running"}, heapEnd \in VirtualPages, MapHeapPage
  PROVE  IInv' /\ Extends
<1> DEFINE f == RequestedPage(mem.pfa)
           p == RequestPage(mem.pfa)
           r == [mem EXCEPT !.pfa = p]
           n == MapMemory(r, heapEnd, f)
<1>1. /\ Shape /\ Allocated /\ mMap \in MemoryMaps /\ fbBase \in FbBases
      /\ heapEnd \in Nat /\ HeapStart <= heapEnd /\ HeapPages \subseteq VirtualPages
      /\ Using(mem, mMap, fbBase, heapEnd, data, itself)
      /\ 0 .. MemoryEnd - 1 \subseteq itself
  BY DEF IInv, Shape, MappedStages
<1>2. /\ mem' = n
      /\ stage' = IF f = NULL \/ NULL \in DOMAIN n.tables THEN "wrecked"
                  ELSE IF heapEnd + 1 < HeapStart + InitialPages THEN "heap"
                  ELSE "running"
      /\ heapEnd' = heapEnd + 1
      /\ UNCHANGED <<mMap, fbBase, t, data, itself>>
  BY DEF MapHeapPage, HeapEndAfter
<1>3. PICK d : Sound(mem, d)
  BY <1>1 DEF Using
<1>4. /\ AllocatorOK(p) /\ p.Size = mem.pfa.Size /\ p.Buffer = mem.pfa.Buffer
      /\ mem.pfa.bits \subseteq p.bits /\ f \in Nat
  <2>1. AllocatorOK(mem.pfa) /\ NULL \in mem.pfa.bits
    BY <1>3 DEF Sound
  <2>2. /\ AllocatorOK(p) /\ p.Size = mem.pfa.Size /\ p.Buffer = mem.pfa.Buffer
        /\ f = NULL  => p.bits = mem.pfa.bits
        /\ f # NULL  => f \in Grantable(mem.pfa) \ mem.pfa.bits /\ p.bits = mem.pfa.bits \cup {f}
    BY <2>1, Requesting
  <2> HIDE DEF f, p
  <2>3. QED
    BY <2>2 DEF Grantable, NULL
<1>5. Sound(r, d) /\ r.pfa = p
  BY <1>3, <1>4, OtherAllocator
<1>6. /\ Typed(n) /\ n.PML4 \in DOMAIN n.tables /\ p.bits \subseteq n.pfa.bits
  BY <1>1, <1>4, <1>5, MappingTyped
<1>7. HeapStart \in Nat
  BY KernelMemoryAssumption
<1>8. stage' # "wrecked" =>
        /\ Using(n, mMap, fbBase, heapEnd + 1, data, itself)
        /\ MapsAnew(mem, n, heapEnd, f)
  BY <1>1, <1>2, UsingHeap
<1>9. DOMAIN mem.tables # {}
  BY <1>3, SoundIsTyped
<1> HIDE DEF f, p, r, n
<1>10. Allocated'
  BY <1>1, <1>2, <1>4, <1>6 DEF Allocated, Tables
<1>11. Shape'
  <2>1. stage' \in Stages
    BY <1>2 DEF Stages
  <2>2. HeapStart .. (heapEnd + 1) - 1 \subseteq VirtualPages
    BY <1>1, <1>7 DEF HeapPages
  <2>3. heapEnd + 1 \in Nat /\ HeapStart <= heapEnd + 1
    BY <1>1, <1>7
  <2>4. QED
    BY <1>1, <1>2, <2>1, <2>2, <2>3 DEF Shape, HeapPages
<1>12. MemoryEnd' = MemoryEnd
  BY <1>2 DEF MemoryEnd
<1>13. IInv'
  <2>1. CASE stage' = "wrecked"
    BY <1>10, <1>11, <2>1 DEF IInv, MappedStages
  <2>2. CASE stage' # "wrecked"
    <3>1. stage' \in {"heap", "running"}
      BY <1>2, <2>2
    <3>2. stage' = "heap" => heapEnd' < HeapStart + InitialPages
      BY <1>2, <2>2
    <3>3. QED
      BY <1>1, <1>2, <1>8, <1>10, <1>11, <1>12, <2>2, <3>1, <3>2 DEF IInv, MappedStages
  <2>3. QED
    BY <2>1, <2>2
<1>14. Extends
  <2>1. SUFFICES ASSUME stage' # "wrecked"
                 PROVE  Space[heapEnd] \in {NotPresent, f} /\ Space' = [Space EXCEPT ![heapEnd] = f]
    BY <1>4 DEF Extends
  <2>2. Space = SpaceOf(mem) /\ Space' = SpaceOf(mem')
    BY DEF Space, SpaceOf, Tables
  <2>3. MapsAnew(mem, mem', heapEnd, f) /\ DOMAIN (mem').tables # {}
    BY <1>2, <1>6, <1>8, <2>1
  <2>4. QED
    BY <1>4, <1>9, <2>2, <2>3, SpaceExtends
<1>15. QED
  BY <1>13, <1>14

\* The first pages of the heap (heap.c:9-12) are virtual pages.
LEMMA InitializeHeapOK == IInv /\ InitializeHeap => IInv' /\ Extends
<1> SUFFICES ASSUME IInv, InitializeHeap PROVE IInv' /\ Extends
  OBVIOUS
<1>1. /\ stage = "heap" /\ heapEnd \in Nat /\ HeapStart <= heapEnd
      /\ heapEnd < HeapStart + InitialPages
  BY DEF IInv, Shape, InitializeHeap
<1>2. HeapStart \in Nat /\ InitialPages \in Nat
      /\ Pages(HeapStart, InitialPages) \subseteq VirtualPages
  BY KernelMemoryAssumption
<1>3. heapEnd \in VirtualPages
  BY <1>1, <1>2 DEF Pages
<1>4. QED
  BY <1>1, <1>3, MapHeapPageOK DEF InitializeHeap

\* ExpandHeap (heap.c:90-93) maps a page more in the same way.
LEMMA ExpandHeapOK == IInv /\ ExpandHeap => IInv' /\ Extends
BY MapHeapPageOK DEF ExpandHeap

\* A frame for the IDT or a driver is fresh, and no table changes.
LEMMA RequestDataOK == IInv /\ RequestData => IInv' /\ Extends
<1> SUFFICES ASSUME IInv, RequestData PROVE IInv' /\ Extends
  OBVIOUS
<1> DEFINE f == RequestedPage(mem.pfa)
           p == RequestPage(mem.pfa)
<1>1. /\ Shape /\ Allocated /\ mMap \in MemoryMaps /\ fbBase \in FbBases
      /\ stage = "running" /\ 0 .. MemoryEnd - 1 \subseteq itself
      /\ Using(mem, mMap, fbBase, heapEnd, data, itself)
  BY DEF IInv, Shape, RequestData, MappedStages
<1>2. /\ data' = data \cup {f} /\ stage' = (IF f = NULL THEN "wrecked" ELSE "running")
      /\ mem' = [mem EXCEPT !.pfa = p]
      /\ UNCHANGED <<mMap, fbBase, t, heapEnd, itself>>
  BY DEF RequestData
<1>3. PICK d : Sound(mem, d)
  BY <1>1 DEF Using
<1>4. /\ AllocatorOK(p) /\ p.Size = mem.pfa.Size /\ p.Buffer = mem.pfa.Buffer
      /\ mem.pfa.bits \subseteq p.bits /\ f \in p.bits
  <2>1. AllocatorOK(mem.pfa) /\ NULL \in mem.pfa.bits
    BY <1>3 DEF Sound
  <2>2. /\ AllocatorOK(p) /\ p.Size = mem.pfa.Size /\ p.Buffer = mem.pfa.Buffer
        /\ f = NULL  => p.bits = mem.pfa.bits
        /\ f # NULL  => f \in Grantable(mem.pfa) \ mem.pfa.bits /\ p.bits = mem.pfa.bits \cup {f}
    BY <2>1, Requesting
  <2> HIDE DEF f, p
  <2>3. QED
    BY <2>1, <2>2
<1>5. /\ (mem').pfa = p /\ (mem').PML4 = mem.PML4 /\ (mem').tables = mem.tables
      /\ Sound(mem', d)
  BY <1>2, <1>3, <1>4, OtherAllocator
<1>6. f # NULL => Using(mem', mMap, fbBase, heapEnd, data \cup {f}, itself)
  BY <1>1, <1>2, UsingRequested
<1> HIDE DEF f, p
<1>7. Allocated'
  BY <1>1, <1>2, <1>4, <1>5, SoundIsTyped DEF Allocated, Tables
<1>8. Shape'
  BY <1>1, <1>2 DEF Shape, HeapPages, Stages
<1>9. IInv'
  BY <1>1, <1>2, <1>6, <1>7, <1>8 DEF IInv, MappedStages, MemoryEnd
<1>10. Space' = Space
  BY <1>5, SameSpace DEF Space, SpaceOf, Tables
<1>11. QED
  BY <1>9, <1>10 DEF Extends

\* A page of a device is mapped to itself, the first time or again.
LEMMA MapDeviceOK == IInv /\ MapDevice => IInv' /\ Extends
<1> SUFFICES ASSUME IInv, MapDevice PROVE IInv' /\ Extends
  OBVIOUS
<1>1. /\ Shape /\ t \in Nat /\ stage = "running" /\ stage \in MappedStages
      /\ 0 .. MemoryEnd - 1 \subseteq itself
  BY DEF IInv, Shape, MapDevice, MappedStages
<1>2. PICK v \in DevicePages :
        /\ mem' = MapMemory(mem, v, v) /\ itself' = itself \cup {v}
        /\ StageAfter("running", mem')
        /\ UNCHANGED <<mMap, fbBase, t, heapEnd, data>>
  BY <1>1 DEF MapDevice
<1>3. v \in Identical(mMap, fbBase) /\ v \in VirtualPages
  BY KernelMemoryAssumption DEF Identical
<1>4. "running" \in Stages /\ t' \in Nat
  BY <1>1, <1>2 DEF Stages
<1>5. /\ Shape' /\ Allocated' /\ Extends
      /\ stage' # "wrecked" =>
           stage' = "running" /\ Using(mem', mMap', fbBase', heapEnd', data', itself')
  BY <1>1, <1>2, <1>3, <1>4, MappedToItself
<1>6. 0 .. MemoryEnd' - 1 \subseteq itself'
  BY <1>1, <1>2 DEF MemoryEnd
<1>7. CASE stage' = "wrecked"
  BY <1>5, <1>7 DEF IInv, MappedStages
<1>8. CASE stage' # "wrecked"
  BY <1>5, <1>6, <1>8 DEF IInv, MappedStages
<1>9. QED
  BY <1>5, <1>7, <1>8

\* Every step keeps the invariant, and extends the address space or leaves it.
LEMMA StepOK == IInv /\ [Next]_vars => IInv' /\ Extends
<1> SUFFICES ASSUME IInv, [Next]_vars PROVE IInv' /\ Extends
  OBVIOUS
<1>1. CASE ReadMap
  BY <1>1, ReadMapOK
<1>2. CASE MakePML4
  BY <1>2, MakePML4OK
<1>3. CASE MapIdentity
  BY <1>3, MapIdentityOK
<1>4. CASE LockFramebuffer
  BY <1>4, LockFramebufferOK
<1>5. CASE MapFramebuffer
  BY <1>5, MapFramebufferOK
<1>6. CASE LoadCR3
  BY <1>6, LoadCR3OK
<1>7. CASE InitializeHeap
  BY <1>7, InitializeHeapOK
<1>8. CASE ExpandHeap
  BY <1>8, ExpandHeapOK
<1>9. CASE RequestData
  BY <1>9, RequestDataOK
<1>10. CASE MapDevice
  BY <1>10, MapDeviceOK
<1>11. CASE UNCHANGED vars
  BY <1>11 DEF vars, IInv, Shape, NoTables, Allocated, Tables, HeapPages, MemoryEnd,
               Extends, Space
<1>12. QED
  BY <1>1, <1>2, <1>3, <1>4, <1>5, <1>6, <1>7, <1>8, <1>9, <1>10, <1>11 DEF Next

-----------------------------------------------------------------------------
(* The theorems.                                                             *)
\* The invariant holds always: induction along the steps of the kernel.
THEOREM Invariant == Spec => []IInv
<1>1. IInv /\ [Next]_vars => IInv'
  BY StepOK
<1>2. QED
  BY InitOK, <1>1, PTL DEF Spec

\* In the stages with tables, the frames of the heap are those of the walk.
LEMMA HeapFramesAre ==
  ASSUME Using(mem, mMap, fbBase, heapEnd, data, itself)
  PROVE  /\ HeapFrames = HeapFramesOf(mem, heapEnd)
         /\ \A v \in VirtualPages : Space[v] = Translate(mem, v)
<1>1. PICK d : Sound(mem, d)
  BY DEF Using
<1>2. Tables # {}
  BY <1>1, SoundIsTyped DEF Tables
<1>3. \A v \in VirtualPages : Space[v] = Translate(mem, v)
  BY <1>2 DEF Space
<1>4. HeapPages \subseteq VirtualPages
  BY DEF Using, HeapPages
<1>5. QED
  BY <1>3, <1>4 DEF HeapFrames, HeapFramesOf, HeapPages

\* The types of the kernel's memory follow from it.
LEMMA InvariantTypes == IInv => TypeOK
<1> SUFFICES ASSUME IInv PROVE TypeOK
  OBVIOUS
<1>1. Shape
  BY DEF IInv
<1>2. heapEnd \in HeapStart .. HeapStart + Cardinality(VirtualPages)
  <2> DEFINE top == Entries * Entries * Entries * Entries - 1
  <2>1. top \in Nat
    <3>1. Entries \in Nat \ {0}
      BY PageTablesAssumption
    <3>2. Entries * Entries * Entries * Entries \in Nat \ {0}
      BY <3>1, Levels
    <3>3. QED
      BY <3>2
  <2>2. VirtualPages = 0 .. top
    BY DEF VirtualPages
  <2> HIDE DEF top
  <2>3. Cardinality(VirtualPages) = top + 1
    BY <2>1, <2>2, FS_Interval
  <2>4. HeapStart \in Nat
    BY KernelMemoryAssumption
  <2>5. heapEnd \in Nat /\ HeapStart <= heapEnd /\ HeapStart .. heapEnd - 1 \subseteq 0 .. top
    BY <1>1, <2>2 DEF Shape, HeapPages
  <2>6. heapEnd <= HeapStart + (top + 1)
    <3>1. CASE heapEnd = HeapStart
      BY <2>1, <2>4, <3>1
    <3>2. CASE heapEnd # HeapStart
      <4>1. heapEnd - 1 \in HeapStart .. heapEnd - 1
        BY <2>4, <2>5, <3>2
      <4>2. heapEnd - 1 \in 0 .. top
        BY <2>5, <4>1
      <4>3. QED
        BY <2>1, <2>4, <2>5, <4>2
    <3>3. QED
      BY <3>1, <3>2
  <2>7. QED
    BY <2>1, <2>3, <2>4, <2>5, <2>6
<1>3. CASE stage = "memory"
  <2>1. NoTables /\ mem.pfa = UninitialisedAllocator
    BY <1>3 DEF IInv
  <2>2. Tables = {} /\ mem.tables \in [Tables -> [0 .. Entries - 1 -> Int]]
    BY <2>1 DEF NoTables, Tables
  <2>3. mem.pfa.bits = {} /\ mem.pfa.pageBitmapIndex = 0 /\ AllocatorBits = 0 .. 0
    BY <2>1 DEF UninitialisedAllocator, AllocatorBits
  <2>4. mem.PML4 = NULL /\ data = {}
    BY <2>1 DEF NoTables
  <2>5. QED
    BY <1>1, <1>2, <2>2, <2>3, <2>4 DEF TypeOK, Shape
<1>4. CASE stage # "memory"
  <2>1. /\ AllocatorOK(mem.pfa) /\ data \subseteq mem.pfa.bits
        /\ mem.PML4 \in Tables \cup {NULL}
        /\ mem.tables \in [Tables -> [Rows -> Int]] /\ Tables \subseteq mem.pfa.bits
    BY <1>4 DEF IInv, Allocated, Typed, Tables
  <2>2. mem.pfa.bits \subseteq AllocatorBits /\ mem.pfa.pageBitmapIndex \in AllocatorBits
    BY <2>1 DEF AllocatorOK, AllocatorBits
  <2>3. QED
    BY <1>1, <1>2, <2>1, <2>2 DEF TypeOK, Shape, Rows
<1>5. QED
  BY <1>3, <1>4

\* However many pages are mapped in whatever order, and wherever memory runs out
\* in the middle of MapMemory, the page tables form a tree: MapMemory
\* (PageTableManager.c:13-62) never enters a table twice and loses none.
THEOREM TreeAlways == Spec => []TablesFormATree
<1>1. IInv => TablesFormATree
  <2> SUFFICES ASSUME IInv PROVE TablesFormATree
    OBVIOUS
  <2>1. TypeOK
    BY InvariantTypes
  <2>2. CASE stage \in {"memory", "PML4", "wrecked"}
    BY <2>1, <2>2 DEF TablesFormATree
  <2>3. CASE stage \notin {"memory", "PML4", "wrecked"}
    <3>1. Using(mem, mMap, fbBase, heapEnd, data, itself)
      BY <2>3 DEF IInv, Shape, Stages, MappedStages
    <3>2. PICK d : Tree(mem, d)
      BY <3>1 DEF Using, Sound
    <3>3. LET inner == {mem.PML4} \cup PDPs(mem) \cup PDs(mem)
              entries == {x \in inner \X (0 .. Entries - 1) : Present(mem.tables[x[1]][x[2]])}
          IN  /\ DOMAIN mem.tables = inner \cup PTs(mem)
              /\ Cardinality(DOMAIN mem.tables) = Cardinality(entries) + 1
      BY <3>2, TreeCounts
    <3>4. QED
      BY <2>1, <3>3 DEF TablesFormATree, Tables
  <2>4. QED
    BY <2>2, <2>3
<1>2. QED
  BY Invariant, <1>1, PTL

\* No frame RequestPage returns has two uses, and none is a page of the BIOS, the
\* bitmap, the kernel or the framebuffer, although the framebuffer is locked
\* only after tables were requested (kernel.c:75-85).
THEOREM OneUse == Spec => []FramesHaveOneUse
<1>1. IInv => FramesHaveOneUse
  <2> SUFFICES ASSUME IInv, stage # "wrecked" PROVE FramesHaveOneUse
    BY DEF FramesHaveOneUse
  <2>1. CASE stage \in {"memory", "PML4"}
    <3>1. HeapStart \in Nat /\ heapEnd = HeapStart /\ data = {} /\ Tables = {}
      BY <2>1, KernelMemoryAssumption DEF IInv, NoTables, Tables
    <3>2. HeapPages = {}
      BY <3>1 DEF HeapPages
    <3>3. HeapFrames = {} /\ Cardinality(HeapFrames) = 0
      BY <3>2, FS_EmptySet DEF HeapFrames
    <3>4. QED
      BY <3>1, <3>3 DEF FramesHaveOneUse
  <2>2. CASE stage \notin {"memory", "PML4"}
    <3>1. Using(mem, mMap, fbBase, heapEnd, data, itself)
      BY <2>2 DEF IInv, Shape, Stages, MappedStages
    <3>2. HeapFrames = HeapFramesOf(mem, heapEnd)
      BY <3>1, HeapFramesAre
    <3>3. QED
      BY <3>1, <3>2 DEF Using, FramesApart, FramesHaveOneUse, Kept, Tables
  <2>3. QED
    BY <2>1, <2>2
<1>2. QED
  BY Invariant, <1>1, PTL

\* Every table and every frame used by its address is mapped to itself once cr3
\* is loaded (kernel.c:79-81), but for the few that lie behind the sum of the
\* map's descriptors: those are spare bits or memory behind a hole.
THEOREM UsedFramesMapped == Spec => []UsedFramesAreMappedToThemselves
<1>1. IInv => UsedFramesAreMappedToThemselves
  <2> SUFFICES ASSUME IInv, stage \in {"heap", "running"},
                      NEW f \in (Tables \cup data) \ BehindTheSum(mMap)
               PROVE  Space[f] = f
    BY DEF UsedFramesAreMappedToThemselves
  <2> DEFINE ms == GetMemorySize(mMap)
  <2>1. /\ Using(mem, mMap, fbBase, heapEnd, data, itself)
        /\ 0 .. ms - 1 \subseteq itself /\ mMap \in MemoryMaps /\ fbBase \in FbBases
    BY DEF IInv, Shape, MappedStages, MemoryEnd
  <2>2. f \in Grantable(mem.pfa) /\ (EndIsNoMemory(mMap) => f # ms)
    BY <2>1 DEF Using, FramesApart, Tables
  <2>3. ms \in Nat /\ mem.pfa.Size = ms \div 8 + 1 /\ ms \div 8 + 1 \in Nat
    <3>1. ms \in Nat
      BY <2>1, Layout
    <3>2. mem.pfa.Size = ms \div 8 + 1
      BY <2>1 DEF Using, Keeps
    <3>3. ms \div 8 \in Nat
      BY <3>1, Division
    <3>4. QED
      BY <3>1, <3>2, <3>3
  <2>4. f \in 0 .. (ms \div 8 + 1) * 8 - 1
    BY <2>2, <2>3 DEF Grantable
  <2>5. f = ms => f \in ConventionalPages(mMap)
    BY <2>2 DEF EndIsNoMemory
  <2>6. f \notin ms .. (ms \div 8 + 1) * 8 - 1
    BY <2>5 DEF BehindTheSum
  <2> HIDE DEF ms
  <2>7. f \in 0 .. ms - 1
    BY <2>3, <2>4, <2>6
  <2>8. f \in itself /\ f \in VirtualPages /\ Translate(mem, f) = f
    BY <2>1, <2>7 DEF Using, Translations
  <2>9. QED
    BY <2>1, <2>8, HeapFramesAre
<1>2. QED
  BY Invariant, <1>1, PTL

\* After cr3 is loaded no translation is replaced by a different one, so that the
\* missing invlpg of PageTableManager.c:13-62 does no harm: the heap stays away
\* from what is mapped to itself, and only devices are mapped again.
THEOREM NoTranslationReplaced == Spec => NoTranslationIsReplaced
<1>1. IInv /\ [Next]_vars =>
        [(stage \in {"heap", "running"} /\ stage' # "wrecked") =>
           \A v \in VirtualPages : Space[v] \in {NotPresent, Space'[v]}]_vars
  <2> SUFFICES ASSUME IInv, [Next]_vars, stage' # "wrecked", NEW v \in VirtualPages
               PROVE  Space[v] \in {NotPresent, Space'[v]}
    OBVIOUS
  <2>1. Extends
    BY StepOK
  <2>2. CASE Space' = Space
    BY <2>2
  <2>3. ASSUME NEW u \in VirtualPages, NEW f \in Nat, Space[u] \in {NotPresent, f},
               Space' = [Space EXCEPT ![u] = f]
        PROVE  Space[v] \in {NotPresent, Space'[v]}
    <3>1. DOMAIN Space = VirtualPages
      BY DEF Space
    <3>2. QED
      BY <2>3, <3>1
  <2>4. QED
    BY <2>1, <2>2, <2>3 DEF Extends
<1>2. QED
  BY Invariant, <1>1, PTL DEF Spec, NoTranslationIsReplaced

\* The page tables implement an address space: every step of the kernel maps one
\* page and no other, or none, whatever tables MapMemory adds on its way.
THEOREM AddressSpaceRefinement == Spec => ImplementsAddressSpace
<1>1. Init => Address!Init
  BY DEF Init, Address!Init, Space, Tables
<1>2. IInv /\ [Next]_vars => [stage' # "wrecked" => Address!Next \/ UNCHANGED Space]_vars
  <2> SUFFICES ASSUME IInv, [Next]_vars, stage' # "wrecked"
               PROVE  Address!Next \/ UNCHANGED Space
    OBVIOUS
  <2>1. Extends
    BY StepOK
  <2>2. CASE Space' = Space
    BY <2>2
  <2>3. ASSUME NEW u \in VirtualPages, NEW f \in Nat, Space' = [Space EXCEPT ![u] = f]
        PROVE  Address!Next
    <3>1. DOMAIN Space = VirtualPages
      BY DEF Space
    <3>2. Space'[u] = f
      BY <2>3, <3>1
    <3>3. Address!Map(u)
      BY <2>3, <3>2 DEF Address!Map
    <3>4. QED
      BY <3>3 DEF Address!Next
  <2>4. QED
    BY <2>1, <2>2, <2>3 DEF Extends
<1>3. QED
  BY Invariant, <1>1, <1>2, PTL DEF Spec, ImplementsAddressSpace
=============================================================================
