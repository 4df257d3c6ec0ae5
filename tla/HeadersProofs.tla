--------------------------- MODULE HeadersProofs ---------------------------
(***************************************************************************)
(* The array of components or file groups is never written past its end,   *)
(* for all tables and whatever size it begins with; and a handle walks its *)
(* tables as OffsetLists does, so that the same holds of unshield_open.    *)
(***************************************************************************)
EXTENDS Headers, SequenceTheorems, FiniteSetTheorems, WellFoundedInduction, TLAPS

(* What makes ArrayFits inductive: the offset is zero or that of an entry, *)
(* so that the entry taken has an item.                                    *)
OnList == IsTable(table) /\ offset \in {0} \cup DOMAIN table.nodes
WInv == ArrayFits /\ OnList

LEMMA WalkInitWInv == WalkInit => WInv
  BY SizeAssumption, TablesAssumption DEF WalkInit, WInv, ArrayFits, OnList

LEMMA StartWalkWInv == ASSUME WInv, NEW t \in Tables, StartWalk(t) PROVE WInv'
  BY SizeAssumption, TablesAssumption DEF StartWalk, WInv, ArrayFits, OnList

LEMMA NextSlotWInv == ASSUME WInv, NextSlot PROVE WInv'
<1>1. slot \in 1 .. Slots
  BY SizeAssumption DEF WInv, ArrayFits, NextSlot
<1>2. OnList'
  BY <1>1 DEF WInv, OnList, IsTable, NextSlot
<1>3. ArrayFits'
  BY <1>1, SizeAssumption DEF WInv, ArrayFits, NextSlot
<1> QED
  BY <1>2, <1>3 DEF WInv

(* After the array has grown, or not, there is room for one item more.     *)
LEMMA GrownHasRoom ==
  ASSUME ArrayFits PROVE Grown \in Nat \ {0} /\ Len(items) + 1 <= Grown
<1>1. Len(items) \in Nat
  BY DEF ArrayFits
<1> QED
  BY <1>1 DEF ArrayFits, Grown

LEMMA TakeWInv == ASSUME WInv, Take PROVE WInv'
<1>1. offset \in DOMAIN table.nodes
  BY DEF WInv, OnList, Take
<1>2. Entry.item \in Items /\ Entry.next \in {0} \cup DOMAIN table.nodes
  BY <1>1 DEF WInv, OnList, IsTable, Entry
<1>3. OnList'
  BY <1>2 DEF WInv, OnList, IsTable, Take, Following
<1>4. items' \in Seq(Items) /\ Len(items') = Len(items) + 1
  BY <1>2 DEF WInv, ArrayFits, Take
<1>5. ArrayFits'
  BY <1>4, GrownHasRoom DEF WInv, ArrayFits, Take
<1> QED
  BY <1>3, <1>5 DEF WInv

LEMMA AbortWInv == ASSUME WInv, Abort PROVE WInv'
<1>1. Len(items) \in Nat
  BY DEF WInv, ArrayFits
<1>2. ArrayFits'
  BY <1>1, GrownHasRoom DEF WInv, ArrayFits, Abort
<1> QED
  BY <1>2 DEF WInv, OnList, IsTable, Abort

LEMMA WalkNextWInv == ASSUME WInv, [WalkNext]_walkVars PROVE WInv'
<1>1. CASE UNCHANGED walkVars
  BY <1>1 DEF walkVars, WInv, ArrayFits, OnList, IsTable
<1>2. CASE WalkEnd
  BY <1>2 DEF WalkEnd, WInv, ArrayFits, OnList, IsTable
<1> QED
  BY <1>1, <1>2, StartWalkWInv, NextSlotWInv, TakeWInv, AbortWInv DEF WalkNext, Walk

(* The walks of both tables stay inside of their arrays.                   *)
THEOREM ArraysFit == WalkSpec => []ArrayFits
<1>1. WInv => ArrayFits
  BY DEF WInv
<1> QED
  BY <1>1, WalkInitWInv, WalkNextWInv, PTL DEF WalkSpec
-----------------------------------------------------------------------------
(* Induction over the naturals as a fact about a set of them.              *)
LEMMA LeastNumber ==
  ASSUME NEW T \in SUBSET Nat, T # {}
  PROVE  \E m \in T : \A n \in T : m <= n
<1>1. PICK R : R = OpToRel(<, Nat)
  OBVIOUS
<1>2. PICK x \in T : \A y \in T : ~(<<y, x>> \in R)
  BY <1>1, NatLessThanWellFounded, WFMin
<1>3. ASSUME NEW y \in T, y < x PROVE FALSE
  <2>1. <<y, x>> \in Nat \X Nat /\ <<y, x>>[1] < <<y, x>>[2]
    BY <1>3
  <2> QED BY <1>1, <1>2, <2>1 DEF OpToRel
<1> QED BY <1>2, <1>3

LEMMA SetInduction ==
  ASSUME NEW S, 0 \in S, \A n \in Nat : n \in S => n + 1 \in S
  PROVE  Nat \subseteq S
<1> SUFFICES ASSUME Nat \ S # {} PROVE FALSE
  OBVIOUS
<1>1. PICK m \in Nat \ S : \A n \in Nat \ S : m <= n
  BY LeastNumber
<1>2. m - 1 \in Nat /\ (m - 1) + 1 = m
  BY <1>1
<1> QED BY <1>1, <1>2

(* A step that is repeated N times.                                        *)
Repeated(f, a, F, N) ==
  f[0] = a /\ \A k \in 0 .. N - 1 : f[k + 1] = F[k][f[k]]

LEMMA CanRepeat ==
  ASSUME NEW S, NEW a \in S, NEW F \in [Nat -> [S -> S]], NEW N \in Nat
  PROVE  \E f \in [0 .. N -> S] : Repeated(f, a, F, N)
<1> DEFINE T == {n \in Nat : \E f \in [0 .. n -> S] : Repeated(f, a, F, n)}
<1>1. 0 \in T
  <2>1. [k \in 0 .. 0 |-> a] \in [0 .. 0 -> S] /\ Repeated([k \in 0 .. 0 |-> a], a, F, 0)
    BY DEF Repeated
  <2> QED BY <2>1
<1>2. ASSUME NEW n \in Nat, n \in T PROVE n + 1 \in T
  <2>1. PICK f \in [0 .. n -> S] : Repeated(f, a, F, n)
    BY <1>2
  <2> DEFINE g == [k \in 0 .. n + 1 |-> IF k <= n THEN f[k] ELSE F[n][f[n]]]
  <2>2. g \in [0 .. n + 1 -> S]
    BY <2>1
  <2>3. Repeated(g, a, F, n + 1)
    <3>1. g[0] = a
      BY <2>1 DEF Repeated
    <3>2. ASSUME NEW k \in 0 .. n PROVE g[k + 1] = F[k][g[k]]
      BY <2>1 DEF Repeated
    <3>3. (n + 1) - 1 = n
      OBVIOUS
    <3> HIDE DEF g
    <3> QED BY <3>1, <3>2, <3>3 DEF Repeated
  <2> QED BY <2>2, <2>3
<1> HIDE DEF T
<1>3. Nat \subseteq T
  BY <1>1, <1>2, SetInduction
<1> QED BY <1>3 DEF T
-----------------------------------------------------------------------------
(* The way from an offset along the list.                                  *)
Places(t) == {0} \cup DOMAIN t.nodes
Width(t) == Cardinality(DOMAIN t.nodes)

LEMMA AfterIsPlace ==
  ASSUME NEW t, IsTable(t), NEW o \in Places(t)
  PROVE  After(t, o) \in Places(t) /\ Width(t) \in Nat
  BY FS_CardinalityType DEF IsTable, After, Places, Width

LEMMA WayIs ==
  ASSUME NEW t, IsTable(t), NEW o \in Places(t)
  PROVE  /\ Way(t, o) \in [0 .. Width(t) -> Places(t)]
         /\ Way(t, o)[0] = o
         /\ \A k \in 0 .. Width(t) - 1 : Way(t, o)[k + 1] = After(t, Way(t, o)[k])
<1> DEFINE N == Width(t)
           P == Places(t)
           F == [k \in Nat |-> [x \in P |-> After(t, x)]]
           Eq(w) == w = [k \in 0 .. N |-> IF k = 0 THEN o ELSE After(t, w[k - 1])]
<1>1. N \in Nat /\ F \in [Nat -> [P -> P]]
  BY AfterIsPlace
<1>2. PICK f \in [0 .. N -> P] : Repeated(f, o, F, N)
  <2> HIDE DEF F, P, N
  <2>1. o \in P
    BY DEF P
  <2> QED BY <1>1, <2>1, CanRepeat
<1>3. f[0] = o /\ \A k \in 0 .. N - 1 : f[k + 1] = After(t, f[k])
  <2>1. f[0] = o /\ \A k \in 0 .. N - 1 : f[k + 1] = F[k][f[k]]
    BY <1>2 DEF Repeated
  <2>2. ASSUME NEW k \in 0 .. N - 1 PROVE F[k][f[k]] = After(t, f[k])
    <3>1. k \in Nat /\ f[k] \in P
      BY <1>1, <1>2
    <3> QED BY <3>1
  <2> HIDE DEF F
  <2> QED BY <2>1, <2>2
<1>4. Eq(f)
  <2> DEFINE g == [k \in 0 .. N |-> IF k = 0 THEN o ELSE After(t, f[k - 1])]
  <2>1. ASSUME NEW k \in 0 .. N PROVE f[k] = g[k]
    <3>1. CASE k = 0
      BY <1>3, <3>1
    <3>2. CASE k # 0
      <4>1. k - 1 \in 0 .. N - 1 /\ (k - 1) + 1 = k
        BY <1>1, <3>2
      <4> QED BY <1>3, <3>2, <4>1
    <3> QED BY <3>1, <3>2
  <2> QED BY <1>2, <2>1
<1>5. Eq(Way(t, o))
  <2>1. Way(t, o) = CHOOSE w : Eq(w)
    BY DEF Way, Width
  <2> HIDE DEF Eq
  <2> QED BY <1>4, <2>1
<1> DEFINE w == Way(t, o)
<1>6. w[0] = o /\ \A k \in 0 .. N - 1 : w[k + 1] = After(t, w[k])
  <2> HIDE DEF w
  <2>1. Eq(w)
    BY <1>5 DEF w
  <2> QED BY <1>1, <2>1
<1>7. DOMAIN w = 0 .. N
  <2> HIDE DEF w
  <2>1. Eq(w)
    BY <1>5 DEF w
  <2> QED BY <2>1
<1>8. \A k \in 0 .. N : w[k] \in P
  <2> DEFINE T == {k \in Nat : k <= N => w[k] \in P}
  <2>1. 0 \in T
    BY <1>6
  <2>2. ASSUME NEW k \in Nat, k \in T PROVE k + 1 \in T
    <3> SUFFICES ASSUME k + 1 <= N PROVE w[k + 1] \in P
      OBVIOUS
    <3>1. k \in 0 .. N - 1 /\ w[k] \in P
      BY <1>1, <2>2
    <3> QED BY <1>6, <3>1, AfterIsPlace
  <2> HIDE DEF T
  <2>3. Nat \subseteq T
    BY <2>1, <2>2, SetInduction
  <2> QED BY <1>1, <2>3 DEF T
<1> HIDE DEF w
<1>9. w \in [0 .. N -> P]
  <2>1. Eq(w)
    BY <1>5 DEF w
  <2> QED BY <1>7, <1>8, <2>1
<1> QED BY <1>6, <1>9 DEF w

(* Behind its end a list stays at its end.                                 *)
LEMMA EndStays ==
  ASSUME NEW t, IsTable(t), NEW o \in Places(t), NEW i \in 0 .. Width(t), NEW j \in i .. Width(t),
         Way(t, o)[i] = 0
  PROVE  Way(t, o)[j] = 0
<1> DEFINE N == Width(t)
           w == Way(t, o)
           T == {d \in Nat : i + d <= N => w[i + d] = 0}
<1>1. N \in Nat
  BY AfterIsPlace
<1>2. 0 \in T
  BY <1>1
<1>3. ASSUME NEW d \in Nat, d \in T PROVE d + 1 \in T
  <2> SUFFICES ASSUME i + (d + 1) <= N PROVE w[i + (d + 1)] = 0
    OBVIOUS
  <2>1. i + d \in 0 .. N - 1 /\ w[i + d] = 0 /\ i + (d + 1) = (i + d) + 1
    BY <1>1, <1>3
  <2> QED BY <2>1, WayIs DEF After
<1> HIDE DEF T
<1>4. Nat \subseteq T
  BY <1>2, <1>3, SetInduction
<1>5. j - i \in T /\ i + (j - i) = j /\ j <= N
  BY <1>1, <1>4
<1> QED BY <1>5 DEF T

(* A list has n entries: all it passes before it ends or repeats itself.   *)
HasEntries(t, o, n) ==
  /\ n \in 0 .. Width(t) + 1
  /\ Entries(t, o) \in Seq(Items) /\ Len(Entries(t, o)) = n
  /\ \A k \in 0 .. n - 1 :
       /\ Way(t, o)[k] \in DOMAIN t.nodes
       /\ Entries(t, o)[k + 1] = t.nodes[Way(t, o)[k]].item
  /\ IF n <= Width(t) THEN Way(t, o)[n] = 0 ELSE ~Ends(t, o)

LEMMA EntriesAre ==
  ASSUME NEW t, IsTable(t), NEW o \in Places(t)
  PROVE  \E n \in Nat : HasEntries(t, o, n)
<1> DEFINE N == Width(t)
           w == Way(t, o)
           Z == {k \in 0 .. N : w[k] = 0}
           on == {k \in DOMAIN w : w[k] # 0}
<1>1. N \in Nat /\ w \in [0 .. N -> Places(t)]
  BY AfterIsPlace, WayIs
<1>2. PICK n \in 0 .. N + 1 :
        /\ \A k \in 0 .. N : w[k] # 0 <=> k < n
        /\ n <= N => w[n] = 0
  <2>1. CASE Z = {}
    BY <1>1, <2>1
  <2>2. CASE Z # {}
    <3>1. PICK m \in Z : \A k \in Z : m <= k
      <4>1. Z \in SUBSET Nat
        BY <1>1
      <4> HIDE DEF Z
      <4> QED BY <2>2, <4>1, LeastNumber
    <3>2. \A k \in 0 .. N : k >= m => w[k] = 0
      BY <1>1, <3>1, EndStays
    <3> QED BY <1>1, <3>1, <3>2
  <2> QED BY <2>1, <2>2
<1>3. on = 0 .. n - 1
  BY <1>1, <1>2
<1>4. Cardinality(on) = n
  <2>1. Cardinality(0 .. n - 1) = n
    <3>1. 0 \in Int /\ n - 1 \in Int
      BY <1>1
    <3>2. Cardinality(0 .. n - 1) = IF 0 > n - 1 THEN 0 ELSE (n - 1) - 0 + 1
      BY <3>1, FS_Interval
    <3> QED BY <1>1, <3>2
  <2> HIDE DEF on
  <2> QED BY <1>3, <2>1
<1>5. \A k \in 0 .. n - 1 : w[k] \in DOMAIN t.nodes
  BY <1>1, <1>2 DEF Places
<1>6. Entries(t, o) = [k \in 1 .. n |-> t.nodes[w[k - 1]].item]
  BY <1>4 DEF Entries
<1> HIDE DEF w
<1>7. Entries(t, o) \in [1 .. n -> Items]
  <2>1. \A k \in 1 .. n : t.nodes[w[k - 1]].item \in Items
    <3> SUFFICES ASSUME NEW k \in 1 .. n PROVE t.nodes[w[k - 1]].item \in Items
      OBVIOUS
    <3>1. k - 1 \in 0 .. n - 1
      BY <1>1
    <3> QED BY <1>5, <3>1 DEF IsTable
  <2> QED BY <1>6, <2>1
<1>8. n \in Nat /\ Entries(t, o) \in Seq(Items) /\ Len(Entries(t, o)) = n
  BY <1>1, <1>7
<1>9. \A k \in 0 .. n - 1 : Entries(t, o)[k + 1] = t.nodes[w[k]].item
  BY <1>1, <1>6
<1>10. n > N => ~Ends(t, o)
  BY <1>1, <1>2 DEF Ends, Width, w
<1> QED BY <1>1, <1>2, <1>5, <1>8, <1>9, <1>10 DEF HasEntries, w

(* A list without an end is caught in a set of entries.                    *)
Trapped(t, o) ==
  \E R \in SUBSET DOMAIN t.nodes : o \in R /\ \A x \in R : t.nodes[x].next \in R

LEMMA EndlessIsTrapped ==
  ASSUME NEW t, IsTable(t), NEW o \in Places(t), ~Ends(t, o)
  PROVE  Trapped(t, o)
<1> DEFINE N == Width(t)
           w == Way(t, o)
           R == {w[k] : k \in 0 .. N}
<1>1. N \in Nat /\ w \in [0 .. N -> Places(t)]
  BY AfterIsPlace, WayIs
<1>2. ASSUME NEW k \in 0 .. N PROVE w[k] \in DOMAIN t.nodes /\ w[k] # 0
  <2>1. w[N] # 0
    BY DEF Ends, Width
  <2>2. w[k] # 0
    BY <1>1, <2>1, EndStays
  <2> QED BY <1>1, <2>2 DEF Places
<1>3. w \in [0 .. N -> DOMAIN t.nodes]
  BY <1>1, <1>2
<1>4. PICK i \in 0 .. N, j \in 0 .. N : i < j /\ w[i] = w[j]
  <2>1. IsFiniteSet(0 .. N) /\ Cardinality(0 .. N) = N + 1
    BY <1>1, FS_Interval
  <2>2. IsFiniteSet(DOMAIN t.nodes) /\ Cardinality(DOMAIN t.nodes) < N + 1
    BY <1>1 DEF IsTable, Width
  <2> HIDE DEF w, N
  <2>3. \E x, y \in 0 .. N : x # y /\ w[x] = w[y]
    BY <1>3, <2>1, <2>2, FS_PigeonHole
  <2> QED BY <1>1, <2>3
<1>5. ASSUME NEW k \in 0 .. N - 1 PROVE w[k + 1] = t.nodes[w[k]].next
  BY <1>1, <1>2, <1>5, WayIs DEF After
<1>6. w[i + (N - j)] = w[N]
  <2> DEFINE T == {d \in Nat : j + d <= N => w[i + d] = w[j + d]}
  <2>1. 0 \in T
    BY <1>4
  <2>2. ASSUME NEW d \in Nat, d \in T PROVE d + 1 \in T
    <3> SUFFICES ASSUME j + (d + 1) <= N PROVE w[i + (d + 1)] = w[j + (d + 1)]
      OBVIOUS
    <3>1. /\ w[i + d] = w[j + d] /\ i + d \in 0 .. N - 1 /\ j + d \in 0 .. N - 1
          /\ i + (d + 1) = (i + d) + 1 /\ j + (d + 1) = (j + d) + 1
      BY <1>1, <1>4, <2>2
    <3> QED BY <1>5, <3>1
  <2> HIDE DEF T
  <2>3. Nat \subseteq T
    BY <2>1, <2>2, SetInduction
  <2>4. N - j \in T /\ j + (N - j) = N
    BY <1>1, <2>3
  <2> QED BY <1>1, <2>4 DEF T
<1>7. ASSUME NEW x \in R PROVE t.nodes[x].next \in R
  <2>1. PICK k \in 0 .. N : x = w[k]
    OBVIOUS
  <2>2. CASE k < N
    BY <1>1, <1>5, <2>1, <2>2
  <2>3. CASE k = N
    <3>1. i + (N - j) \in 0 .. N - 1
      BY <1>1, <1>4
    <3>2. t.nodes[x].next = w[(i + (N - j)) + 1]
      BY <1>5, <1>6, <2>1, <2>3, <3>1
    <3> QED BY <1>1, <3>1, <3>2
  <2> QED BY <1>1, <2>2, <2>3
<1>8. R \in SUBSET DOMAIN t.nodes
  BY <1>2
<1>9. o \in R
  <2>1. o = w[0] /\ 0 \in 0 .. N
    BY <1>1, WayIs
  <2> QED BY <2>1
<1> HIDE DEF R
<1> QED BY <1>7, <1>8, <1>9 DEF Trapped
-----------------------------------------------------------------------------
(* The entries of the first lists of a table.                              *)
LEMMA HeadsArePlaces ==
  ASSUME NEW t, IsTable(t), NEW s \in 1 .. Slots
  PROVE  t.heads[s] \in Places(t) /\ Entries(t, t.heads[s]) \in Seq(Items)
<1>1. t.heads[s] \in Places(t)
  BY DEF IsTable, Places
<1> QED BY <1>1, EntriesAre DEF HasEntries

LEMMA GatheredIs ==
  ASSUME NEW t, IsTable(t)
  PROVE  /\ Gathered(t) \in [0 .. Slots -> Seq(Items)]
         /\ Gathered(t)[0] = <<>>
         /\ \A s \in 1 .. Slots :
              Gathered(t)[s] = Gathered(t)[s - 1] \o Entries(t, t.heads[s])
<1> DEFINE Q == Seq(Items)
           List(k) == IF k + 1 \in 1 .. Slots THEN Entries(t, t.heads[k + 1]) ELSE <<>>
           F == [k \in Nat |-> [x \in Q |-> x \o List(k)]]
           Eq(w) == w = [s \in 0 .. Slots |->
                           IF s = 0 THEN <<>> ELSE w[s - 1] \o Entries(t, t.heads[s])]
<1>1. Slots \in Nat /\ <<>> \in Q
  BY SizeAssumption
<1>2. \A k \in Nat : List(k) \in Q
  BY HeadsArePlaces
<1>3. F \in [Nat -> [Q -> Q]]
  <2> HIDE DEF List
  <2>1. \A k \in Nat : \A x \in Q : x \o List(k) \in Q
    BY <1>2, ConcatProperties
  <2> QED BY <2>1
<1>4. PICK f \in [0 .. Slots -> Q] : Repeated(f, <<>>, F, Slots)
  <2> HIDE DEF F, Q
  <2> QED BY <1>1, <1>3, CanRepeat
<1>5. f[0] = <<>> /\ \A k \in 0 .. Slots - 1 : f[k + 1] = f[k] \o Entries(t, t.heads[k + 1])
  <2>1. f[0] = <<>> /\ \A k \in 0 .. Slots - 1 : f[k + 1] = F[k][f[k]]
    BY <1>4 DEF Repeated
  <2>2. ASSUME NEW k \in 0 .. Slots - 1 PROVE F[k][f[k]] = f[k] \o Entries(t, t.heads[k + 1])
    <3>1. k \in Nat /\ f[k] \in Q /\ k + 1 \in 1 .. Slots
      BY <1>1, <1>4
    <3> QED BY <3>1
  <2> HIDE DEF F
  <2> QED BY <2>1, <2>2
<1>6. ASSUME NEW s \in 1 .. Slots PROVE s - 1 \in 0 .. Slots - 1 /\ (s - 1) + 1 = s
  BY <1>1
<1>7. Eq(f)
  <2> DEFINE g == [s \in 0 .. Slots |->
                     IF s = 0 THEN <<>> ELSE f[s - 1] \o Entries(t, t.heads[s])]
  <2>1. ASSUME NEW s \in 0 .. Slots PROVE f[s] = g[s]
    BY <1>1, <1>5, <1>6
  <2> QED BY <1>4, <2>1
<1>8. Eq(Gathered(t))
  <2>1. Gathered(t) = CHOOSE w : Eq(w)
    BY DEF Gathered
  <2> HIDE DEF Eq
  <2> QED BY <1>7, <2>1
<1> DEFINE w == Gathered(t)
<1> HIDE DEF w
<1>9. Eq(w)
  BY <1>8 DEF w
<1>10. w[0] = <<>> /\ \A s \in 1 .. Slots : w[s] = w[s - 1] \o Entries(t, t.heads[s])
  <2>1. \A s \in 0 .. Slots :
          w[s] = IF s = 0 THEN <<>> ELSE w[s - 1] \o Entries(t, t.heads[s])
    BY <1>9
  <2>2. 0 \in 0 .. Slots /\ \A s \in 1 .. Slots : s \in 0 .. Slots /\ s # 0
    BY <1>1
  <2> QED BY <2>1, <2>2
<1>11. \A s \in 0 .. Slots : w[s] \in Q
  <2> DEFINE T == {s \in Nat : s <= Slots => w[s] \in Q}
  <2>1. 0 \in T
    BY <1>1, <1>10
  <2>2. ASSUME NEW s \in Nat, s \in T PROVE s + 1 \in T
    <3> SUFFICES ASSUME s + 1 <= Slots PROVE w[s + 1] \in Q
      OBVIOUS
    <3>1. s + 1 \in 1 .. Slots /\ (s + 1) - 1 = s /\ w[s] \in Q
      BY <1>1, <2>2
    <3>2. w[s + 1] = w[s] \o Entries(t, t.heads[s + 1])
      BY <1>10, <3>1
    <3> QED BY <3>1, <3>2, HeadsArePlaces, ConcatProperties
  <2> HIDE DEF T
  <2>3. Nat \subseteq T
    BY <2>1, <2>2, SetInduction
  <2> QED BY <1>1, <2>3 DEF T
<1>12. w \in [0 .. Slots -> Q]
  <2> HIDE DEF Q
  <2>1. w = [s \in 0 .. Slots |-> w[s]]
    BY <1>9
  <2> QED BY <1>11, <2>1
<1> QED BY <1>10, <1>12 DEF w

(* a is the beginning of b.                                                *)
Begins(a, b) == \E rest \in Seq(Items) : b = a \o rest

LEMMA BeginsFurther ==
  ASSUME NEW a \in Seq(Items), NEW b, NEW c, Begins(a, b), Begins(b, c) PROVE Begins(a, c)
<1>1. PICK r \in Seq(Items) : b = a \o r
  BY DEF Begins
<1>2. PICK q \in Seq(Items) : c = b \o q
  BY DEF Begins
<1>3. c = a \o (r \o q) /\ r \o q \in Seq(Items)
  BY <1>1, <1>2, ConcatAssociative, ConcatProperties
<1> QED BY <1>3 DEF Begins

LEMMA BeginsIsSubSeq ==
  ASSUME NEW a \in Seq(Items), NEW b, Begins(a, b)
  PROVE  Len(a) <= Len(b) /\ a = SubSeq(b, 1, Len(a))
<1>1. PICK r \in Seq(Items) : b = a \o r
  BY DEF Begins
<1>2. Len(a) \in Nat /\ Len(r) \in Nat /\ Len(b) = Len(a) + Len(r)
  BY <1>1, ConcatProperties, LenProperties
<1>3. a = SubSeq(b, 1, Len(a))
  <2>1. CASE a = <<>>
    BY <1>2, <2>1, SubSeqEmpty, EmptySeq
  <2>2. CASE a # <<>>
    <3>1. 1 \in 1 .. Len(a) /\ Len(a) \in 1 .. Len(a)
      BY <2>2, EmptySeq
    <3> QED BY <1>1, <3>1, SubSeqOfConcat1, SubSeqFull
  <2> QED BY <2>1, <2>2
<1> QED BY <1>2, <1>3

(* What was gathered of the first lists is the beginning of the whole.     *)
LEMMA GatheredBegins ==
  ASSUME NEW t, IsTable(t), NEW s \in 0 .. Slots
  PROVE  Begins(Gathered(t)[s], AllEntries(t))
<1> DEFINE g == Gathered(t)
           T == {d \in Nat : d <= Slots => Begins(g[Slots - d], g[Slots])}
<1>1. Slots \in Nat /\ g \in [0 .. Slots -> Seq(Items)]
  BY SizeAssumption, GatheredIs
<1>2. 0 \in T
  <2>1. g[Slots] \in Seq(Items) /\ Slots - 0 = Slots
    BY <1>1
  <2>2. <<>> \in Seq(Items) /\ g[Slots] = g[Slots] \o <<>>
    BY <2>1, ConcatEmptySeq
  <2> QED BY <2>1, <2>2 DEF Begins
<1>3. ASSUME NEW d \in Nat, d \in T PROVE d + 1 \in T
  <2> SUFFICES ASSUME d + 1 <= Slots PROVE Begins(g[Slots - (d + 1)], g[Slots])
    OBVIOUS
  <2> DEFINE k == Slots - d
  <2>1. k \in 1 .. Slots /\ Slots - (d + 1) = k - 1 /\ k - 1 \in 0 .. Slots
    BY <1>1
  <2>2. Begins(g[k], g[Slots])
    BY <1>1, <1>3
  <2> HIDE DEF k
  <2>3. Begins(g[k - 1], g[k])
    BY <2>1, GatheredIs, HeadsArePlaces DEF Begins
  <2>4. g[k - 1] \in Seq(Items)
    BY <1>1, <2>1
  <2> HIDE DEF g
  <2> QED BY <2>1, <2>2, <2>3, <2>4, BeginsFurther
<1> HIDE DEF T
<1>4. Nat \subseteq T
  BY <1>2, <1>3, SetInduction
<1>5. Slots - s \in T /\ Slots - (Slots - s) = s
  BY <1>1, <1>4
<1> QED BY <1>1, <1>5 DEF T, AllEntries
-----------------------------------------------------------------------------
(* Where the walk is: in a list that ends, behind j of its entries, or in  *)
(* one that does not, which it never leaves.                               *)
Head0 == table.heads[slot - 1]
Taken(j) ==
  /\ j \in 0 .. Len(Entries(table, Head0))
  /\ offset = Way(table, Head0)[j]
  /\ items = Gathered(table)[slot - 2] \o SubSeq(Entries(table, Head0), 1, j)
InList == IF Ends(table, Head0) THEN \E j \in Nat : Taken(j) ELSE Trapped(table, offset)
OrderInv ==
  /\ slot = 1 => offset = 0 /\ items = <<>>
  /\ slot > 1 => InList
  /\ \A s \in 1 .. slot - 2 : Ends(table, table.heads[s])
  /\ walk = "done" => offset = 0 /\ slot > Slots
OInv == WInv /\ OrderInv

LEMMA OrderInitially == WalkInit => OInv
  BY WalkInitWInv, SizeAssumption DEF WalkInit, OInv, OrderInv

LEMMA StartWalkOrder == ASSUME OInv, NEW t \in Tables, StartWalk(t) PROVE OInv'
  BY StartWalkWInv DEF StartWalk, OInv, OrderInv

(* What has been gathered when a walk is between two lists.                *)
LEMMA BetweenLists ==
  ASSUME OInv, offset = 0
  PROVE  /\ slot \in 1 .. Slots + 1 /\ IsTable(table)
         /\ slot > 1 => Ends(table, Head0)
         /\ items = Gathered(table)[slot - 1]
<1>1. slot \in 1 .. Slots + 1 /\ IsTable(table) /\ Slots \in Nat
  BY SizeAssumption DEF OInv, WInv, ArrayFits, OnList
<1>2. CASE slot = 1
  <2>1. slot - 1 = 0 /\ ~(slot > 1) /\ items = <<>>
    BY <1>2 DEF OInv, OrderInv
  <2> QED BY <1>1, <2>1, GatheredIs
<1>3. CASE slot > 1
  <2>1. slot - 1 \in 1 .. Slots /\ (slot - 1) - 1 = slot - 2
    BY <1>1, <1>3
  <2>2. ~Trapped(table, offset)
    BY <1>1 DEF Trapped, IsTable
  <2>3. Ends(table, Head0) /\ \E j \in Nat : Taken(j)
    BY <1>3, <2>2 DEF OInv, OrderInv, InList
  <2>4. PICK j \in Nat : Taken(j)
    BY <2>3
  <2>5. Head0 \in Places(table) /\ Entries(table, Head0) \in Seq(Items)
    BY <1>1, <2>1, HeadsArePlaces DEF Head0
  <2>6. PICK n \in Nat : HasEntries(table, Head0, n)
    BY <1>1, <2>5, EntriesAre
  <2>7. j = n
    <3>1. j \in 0 .. n /\ Way(table, Head0)[j] = 0
      BY <2>4, <2>6 DEF Taken, HasEntries
    <3>2. \A k \in 0 .. n - 1 : Way(table, Head0)[k] # 0
      BY <1>1, <2>6 DEF HasEntries, IsTable
    <3> QED BY <3>1, <3>2
  <2>8. SubSeq(Entries(table, Head0), 1, j) = Entries(table, Head0)
    BY <2>5, <2>6, <2>7, SubSeqFull DEF HasEntries
  <2>9. items = Gathered(table)[slot - 2] \o Entries(table, Head0)
    BY <2>4, <2>8 DEF Taken
  <2>10. Gathered(table)[slot - 1]
           = Gathered(table)[(slot - 1) - 1] \o Entries(table, table.heads[slot - 1])
    BY <1>1, <2>1, GatheredIs
  <2> QED BY <1>1, <2>1, <2>3, <2>9, <2>10 DEF Head0
<1> QED BY <1>1, <1>2, <1>3

LEMMA NextSlotOrder == ASSUME OInv, NextSlot PROVE OInv'
<1>1. /\ slot \in 1 .. Slots /\ slot + 1 > 1 /\ IsTable(table)
      /\ (slot > 1 => Ends(table, Head0)) /\ items = Gathered(table)[slot - 1]
  BY BetweenLists, SizeAssumption DEF NextSlot
<1>2. /\ slot' = slot + 1 /\ UNCHANGED <<table, items, walk>> /\ walk = "walking"
      /\ offset' = table.heads[slot]
  BY DEF NextSlot
<1>3. Head0' = table.heads[slot] /\ slot' - 2 = slot - 1 /\ slot' - 1 = slot
  BY <1>1, <1>2 DEF Head0
<1>4. table.heads[slot] \in Places(table)
  BY <1>1, HeadsArePlaces
<1>5. InList'
  <2>1. CASE Ends(table, table.heads[slot])
    <3>1. SubSeq(Entries(table, table.heads[slot]), 1, 0) = <<>>
      BY SubSeqEmpty
    <3>2. items = Gathered(table)[slot - 1] \o <<>>
      <4>1. Gathered(table)[slot - 1] \in Seq(Items)
        <5>1. slot - 1 \in 0 .. Slots
          BY <1>1, SizeAssumption
        <5> QED BY <1>1, <5>1, GatheredIs
      <4> QED BY <1>1, <4>1, ConcatEmptySeq
    <3>3. offset' = Way(table, table.heads[slot])[0]
      BY <1>1, <1>2, <1>4, WayIs
    <3>4. 0 \in 0 .. Len(Entries(table, table.heads[slot]))
      BY <1>1, HeadsArePlaces, LenProperties
    <3>5. Taken(0)'
      BY <1>2, <1>3, <3>1, <3>2, <3>3, <3>4 DEF Taken
    <3> QED BY <1>2, <1>3, <2>1, <3>5 DEF InList
  <2>2. CASE ~Ends(table, table.heads[slot])
    BY <1>1, <1>2, <1>3, <1>4, <2>2, EndlessIsTrapped DEF InList
  <2> QED BY <2>1, <2>2
<1>6. \A s \in 1 .. slot' - 2 : Ends(table', table'.heads[s])
  <2> SUFFICES ASSUME NEW s \in 1 .. slot - 1 PROVE Ends(table, table.heads[s])
    BY <1>2, <1>3
  <2>1. CASE s = slot - 1
    BY <1>1, <2>1 DEF Head0
  <2>2. CASE s \in 1 .. slot - 2
    BY <2>2 DEF OInv, OrderInv
  <2> QED BY <1>1, <2>1, <2>2
<1>7. slot' # 1 /\ walk' # "done"
  BY <1>1, <1>2
<1> QED BY <1>5, <1>6, <1>7, NextSlotWInv DEF OInv, OrderInv

LEMMA TakeOrder == ASSUME OInv, Take PROVE OInv'
<1>1. /\ slot \in 1 .. Slots + 1 /\ Slots \in Nat /\ IsTable(table) /\ slot # 1
      /\ offset \in DOMAIN table.nodes
  BY SizeAssumption DEF OInv, WInv, ArrayFits, OnList, OrderInv, Take
<1>2. /\ UNCHANGED <<table, slot, walk>> /\ offset' = table.nodes[offset].next
      /\ items' = Append(items, table.nodes[offset].item) /\ walk = "walking"
  BY DEF Take, Following, Entry
<1>3. Head0' = Head0 /\ Head0 \in Places(table) /\ slot - 2 \in 0 .. Slots
  BY <1>1, <1>2, HeadsArePlaces DEF Head0
<1>4. InList'
  <2>1. CASE Ends(table, Head0)
    <3>1. PICK j \in Nat : Taken(j)
      BY <1>1, <2>1 DEF OInv, OrderInv, InList
    <3>2. PICK n \in Nat : HasEntries(table, Head0, n)
      BY <1>1, <1>3, EntriesAre
    <3> DEFINE e == Entries(table, Head0)
               g == Gathered(table)[slot - 2]
    <3>3. e \in Seq(Items) /\ g \in Seq(Items) /\ n \in 0 .. Width(table) /\ Len(e) = n
      <4>1. n \in 0 .. Width(table) + 1 /\ Width(table) \in Nat /\ e \in Seq(Items) /\ Len(e) = n
        BY <1>1, <1>3, <3>2, AfterIsPlace DEF HasEntries
      <4>2. n <= Width(table)
        BY <1>3, <2>1, <3>2 DEF HasEntries
      <4>3. g \in Seq(Items)
        BY <1>1, <1>3, GatheredIs
      <4> HIDE DEF e, g
      <4> QED BY <4>1, <4>2, <4>3
    <3>4. j \in 0 .. n - 1 /\ j \in 0 .. Width(table) - 1
      <4>1. j \in 0 .. n /\ Way(table, Head0)[j] # 0
        BY <1>1, <3>1, <3>3 DEF Taken, IsTable
      <4>2. Width(table) \in Nat
        BY <1>1, <1>3, AfterIsPlace
      <4>3. n <= Width(table)
        BY <3>3, <4>2
      <4>4. Way(table, Head0)[n] = 0
        BY <3>2, <4>3 DEF HasEntries
      <4> QED BY <3>3, <4>1, <4>2, <4>4
    <3>5. offset' = Way(table, Head0)[j + 1]
      <4>1. Way(table, Head0)[j + 1] = After(table, Way(table, Head0)[j])
        BY <1>1, <1>3, <3>4, WayIs
      <4>2. Way(table, Head0)[j] = offset /\ offset # 0
        BY <1>1, <3>1 DEF Taken, IsTable
      <4> QED BY <1>2, <4>1, <4>2 DEF After
    <3>6. table.nodes[offset].item = e[j + 1] /\ e[j + 1] \in Items
      BY <3>1, <3>2, <3>3, <3>4, ElementOfSeq DEF Taken, HasEntries
    <3>7. Append(SubSeq(e, 1, j), e[j + 1]) = SubSeq(e, 1, j + 1) /\ SubSeq(e, 1, j) \in Seq(Items)
      <4> HIDE DEF e
      <4>1. j \in Nat /\ j + 1 \in 1 .. Len(e) /\ 1 \in 1 .. Len(e) /\ (j + 1) - 1 = j
        BY <3>3, <3>4
      <4>2. SubSeq(e, 1, j + 1) = SubSeq(e, 1, (j + 1) - 1) \o <<e[j + 1]>>
        BY <3>3, <4>1, SubSeqRecursiveSecond
      <4>3. SubSeq(e, 1, j) \in Seq(Items)
        <5>1. \A i \in 1 .. j : e[i] \in Items
          BY <3>3, <3>4, ElementOfSeq
        <5> QED BY <4>1, <5>1, SubSeqProperties
      <4> QED BY <3>6, <4>1, <4>2, <4>3, AppendIsConcat
    <3>8. items' = g \o SubSeq(e, 1, j + 1)
      <4>1. items = g \o SubSeq(e, 1, j) /\ items \in Seq(Items)
        BY <3>1, <3>3, <3>7, ConcatProperties DEF Taken
      <4>2. <<e[j + 1]>> \in Seq(Items)
        BY <3>6
      <4> HIDE DEF e, g
      <4>3. items' = (g \o SubSeq(e, 1, j)) \o <<e[j + 1]>>
        BY <1>2, <3>6, <4>1, AppendIsConcat
      <4>4. items' = g \o (SubSeq(e, 1, j) \o <<e[j + 1]>>)
        <5> DEFINE x == SubSeq(e, 1, j)
                   y == <<e[j + 1]>>
        <5>1. g \in Seq(Items) /\ x \in Seq(Items) /\ y \in Seq(Items) /\ items' = (g \o x) \o y
          BY <3>3, <3>7, <4>2, <4>3
        <5> HIDE DEF x, y
        <5>2. items' = g \o (x \o y)
          BY <5>1, ConcatAssociative
        <5> QED BY <5>2 DEF x, y
      <4> QED BY <3>6, <3>7, <4>4, AppendIsConcat
    <3>9. Taken(j + 1)'
      <4>1. j + 1 \in 0 .. Len(e)
        BY <3>3, <3>4
      <4> QED BY <1>2, <1>3, <3>5, <3>8, <4>1 DEF Taken
    <3> QED BY <1>2, <1>3, <2>1, <3>9 DEF InList
  <2>2. CASE ~Ends(table, Head0)
    <3>1. Trapped(table, offset)
      BY <1>1, <2>2 DEF OInv, OrderInv, InList
    <3>2. Trapped(table, offset')
      BY <1>2, <3>1 DEF Trapped
    <3> QED BY <1>2, <1>3, <2>2, <3>2 DEF InList
  <2> QED BY <2>1, <2>2
<1>5. /\ \A s \in 1 .. slot' - 2 : Ends(table', table'.heads[s])
      /\ slot' # 1 /\ walk' # "done"
  BY <1>1, <1>2 DEF OInv, OrderInv
<1> QED BY <1>4, <1>5, TakeWInv DEF OInv, OrderInv

LEMMA WalkKeptOrder ==
  ASSUME OInv, UNCHANGED <<table, slot, offset, items>>, walk' = "done" => offset = 0 /\ slot > Slots
  PROVE  OrderInv'
  BY DEF OInv, OrderInv, InList, Taken, Head0

LEMMA WalkNextOInv == ASSUME OInv, [WalkNext]_walkVars PROVE OInv'
<1>1. WInv'
  BY WalkNextWInv DEF OInv
<1>2. CASE UNCHANGED walkVars
  BY <1>1, <1>2, WalkKeptOrder DEF walkVars, OInv, OrderInv
<1>3. CASE WalkEnd
  BY <1>1, <1>3, WalkKeptOrder DEF WalkEnd, AfterLast, OInv
<1>4. CASE Abort
  BY <1>1, <1>4, WalkKeptOrder DEF Abort, OInv
<1> QED
  BY <1>2, <1>3, <1>4, StartWalkOrder, NextSlotOrder, TakeOrder DEF WalkNext, Walk

(* A walk that is done has been through all lists, and none is endless.    *)
LEMMA DoneHasAll ==
  ASSUME OInv, walk = "done"
  PROVE  items = AllEntries(table) /\ ~Cyclic(table)
<1>1. /\ slot - 1 = Slots /\ Slots \in Nat /\ offset = 0
      /\ \A s \in 1 .. Slots - 1 : Ends(table, table.heads[s])
  <2>1. slot \in 1 .. Slots + 1 /\ slot > Slots /\ Slots \in Nat /\ offset = 0
    BY SizeAssumption DEF OInv, OrderInv, WInv, ArrayFits
  <2>2. slot - 2 = Slots - 1 /\ slot - 1 = Slots
    BY <2>1
  <2> QED BY <2>1, <2>2 DEF OInv, OrderInv
<1>2. Slots # 0 => Ends(table, table.heads[Slots])
  BY <1>1, BetweenLists DEF Head0
<1>3. ASSUME NEW s \in 1 .. Slots PROVE Ends(table, table.heads[s])
  BY <1>1, <1>2
<1> QED BY <1>1, <1>3, BetweenLists DEF AllEntries, Cyclic

LEMMA OrderKept == OInv => InOrder
<1> SUFFICES ASSUME OInv, ~Cyclic(table) PROVE InOrder
  BY DEF InOrder
<1>1. slot \in 1 .. Slots + 1 /\ Slots \in Nat /\ IsTable(table)
  BY SizeAssumption DEF OInv, WInv, ArrayFits, OnList
<1>2. items \in Seq(Items)
  BY DEF OInv, WInv, ArrayFits
<1>3. Begins(items, AllEntries(table))
  <2>1. CASE slot = 1
    <3>1. items = Gathered(table)[0]
      BY <1>1, <2>1, GatheredIs DEF OInv, OrderInv
    <3> QED BY <1>1, <3>1, GatheredBegins
  <2>2. CASE slot # 1
    <3>1. slot - 1 \in 1 .. Slots /\ slot - 2 \in 0 .. Slots /\ (slot - 1) - 1 = slot - 2
      BY <1>1, <2>2
    <3>2. Ends(table, Head0)
      BY <3>1 DEF Cyclic, Head0
    <3>3. PICK j \in Nat : Taken(j)
      BY <1>1, <2>2, <3>2 DEF OInv, OrderInv, InList
    <3> DEFINE e == Entries(table, Head0)
               g == Gathered(table)
               a == SubSeq(e, 1, j)
               b == SubSeq(e, j + 1, Len(e))
    <3>4. e \in Seq(Items) /\ g[slot - 2] \in Seq(Items) /\ g[slot - 1] = g[slot - 2] \o e
      BY <1>1, <3>1, HeadsArePlaces, GatheredIs DEF Head0
    <3>5. items = g[slot - 2] \o a /\ j \in 0 .. Len(e) /\ Len(e) \in Nat
      BY <3>3, <3>4, LenProperties DEF Taken
    <3> HIDE DEF e, g
    <3>6. a \in Seq(Items) /\ b \in Seq(Items)
      <4>1. \A i \in 1 .. j : e[i] \in Items
        BY <3>4, <3>5, ElementOfSeq
      <4>2. \A i \in j + 1 .. Len(e) : e[i] \in Items
        BY <3>4, <3>5, ElementOfSeq
      <4>3. 1 \in Int /\ j \in Int /\ j + 1 \in Int /\ Len(e) \in Int
        BY <3>5
      <4> QED BY <4>1, <4>2, <4>3, SubSeqProperties
    <3>7. a \o b = e
      <4>1. 1 \in 1 .. Len(e) + 1 /\ j \in 1 - 1 .. Len(e) /\ Len(e) \in j .. Len(e)
        BY <3>5
      <4>2. a \o b = SubSeq(e, 1, Len(e))
        BY <3>4, <4>1, ConcatAdjacentSubSeq
      <4> QED BY <3>4, <4>2, SubSeqFull
    <3> HIDE DEF a, b
    <3>8. g[slot - 1] = items \o b
      <4> DEFINE h == g[slot - 2]
      <4>1. h \in Seq(Items) /\ items = h \o a /\ g[slot - 1] = h \o (a \o b)
        BY <3>4, <3>5, <3>7 DEF a
      <4> HIDE DEF h
      <4>2. (h \o a) \o b = h \o (a \o b)
        BY <3>6, <4>1, ConcatAssociative
      <4> QED BY <4>1, <4>2
    <3>9. Begins(items, g[slot - 1])
      BY <3>6, <3>8 DEF Begins
    <3>10. Begins(g[slot - 1], AllEntries(table))
      BY <1>1, <3>1, GatheredBegins DEF g
    <3> QED BY <1>2, <3>9, <3>10, BeginsFurther
  <2> QED BY <2>1, <2>2
<1> QED BY <1>2, <1>3, BeginsIsSubSeq, DoneHasAll DEF InOrder

(* The walk of a table puts into the array the entries of its lists, one   *)
(* list after the other and each entry once, for all tables whose lists    *)
(* end.                                                                    *)
THEOREM WalksInOrder == WalkSpec => []InOrder
<1> QED
  BY OrderInitially, WalkNextOInv, OrderKept, PTL DEF WalkSpec
-----------------------------------------------------------------------------
(* The handle.                                                             *)

Locals == [index : Int, iterate : BOOLEAN, previous : Int, file : Int, open : BOOLEAN]
Reading == {"read", "parse", "components", "groups"}
Opening == Reading \cup {"start", "hdr", "cab", "error", "end"}

(* What the walks need: the header they are started for was read from a    *)
(* file of the directory.                                                  *)
FileFound == pc \in Reading => loc.file \in DOMAIN Files
HInv == disk \in DOMAIN Disks /\ (pc \in Opening => loc \in Locals) /\ FileFound

LEMMA FoundTables ==
  ASSUME HInv, pc \in Reading
  PROVE  Found.components \in Tables /\ Found.groups \in Tables
<1>1. Files \in Seq(DirectoryEntry)
  BY DisksAssumption DEF HInv, Files, Directory
<1>2. Files[loc.file] \in DirectoryEntry
  BY <1>1 DEF HInv, FileFound
<1> QED
  BY <1>2 DEF Found, DirectoryEntry, HeaderFile

(* Most actions leave the directory and the file alone.                    *)
LEMMA SameFile ==
  ASSUME HInv, disk' = disk, pc' \in Opening => loc' \in Locals, loc'.file = loc.file,
         pc' \in Reading => pc \in Reading
  PROVE  HInv'
  BY DEF HInv, FileFound, Files

LEMMA OpenHInv ==
  ASSUME HInv, NEW suffix, NEW iterate \in BOOLEAN, pc \in Opening,
         Open(suffix, iterate)
  PROVE  HInv'
<1>1. PICK k \in Lookup(Disks[disk], H, suffix) :
        /\ loc' = [loc EXCEPT !.file = k, !.open = TRUE, !.iterate = iterate]
        /\ disk' = disk
  BY DEF Open
<1>2. k \in DOMAIN Files
  BY <1>1 DEF Lookup, Named, Files
<1>3. DOMAIN Files \subseteq Int
  BY DisksAssumption DEF HInv, Files, Directory
<1> QED
  BY <1>1, <1>2, <1>3 DEF HInv, FileFound, Locals, Files, Opening

(* The end of a pass.                                                      *)
LEMMA OnwardsHInv ==
  ASSUME HInv, disk' = disk, NEW l \in Locals, l.file = loc.file, Onwards(l) PROVE HInv'
<1>1. loc' \in Locals /\ loc'.file = loc.file
  BY DEF Onwards, Locals
<1>2. pc' \notin Reading
  BY DEF Onwards, Reading
<1> QED
  BY <1>1, <1>2, SameFile

LEMMA StoppedLocals ==
  ASSUME loc \in Locals PROVE Stopped(loc) \in Locals /\ Stopped(loc).file = loc.file
  BY DEF Locals, Stopped

LEMMA LinkHInv == ASSUME HInv, Link PROVE HInv'
<1> DEFINE l == [loc EXCEPT !.previous = PreviousAfter]
<1>1. PreviousAfter \in Int
  BY DEF HInv, Locals, PreviousAfter, H, Link, Opening, Reading
<1>2. l \in Locals /\ l.file = loc.file
  BY <1>1 DEF HInv, Locals, Link, Opening, Reading
<1>3. Onwards(l) /\ disk' = disk
  BY DEF Link
<1> HIDE DEF l
<1> QED
  BY <1>2, <1>3, OnwardsHInv

(* The actions that read the file, and those of the clients.               *)
LEMMA ReadHInv ==
  ASSUME HInv, TooSmall \/ NoDataMemory \/ ReadShort \/ ReadData PROVE HInv'
<1>1. disk' = disk /\ loc' = [loc EXCEPT !.open = FALSE] /\ pc \in Reading
  BY DEF TooSmall, NoDataMemory, ReadShort, ReadData, CloseFile, Error, Reading
<1>2. loc' \in Locals /\ loc'.file = loc.file
  BY <1>1 DEF HInv, Locals, Opening
<1> QED
  BY <1>1, <1>2, SameFile

LEMMA LocKeptHInv ==
  ASSUME HInv,
         \/ BadHeader \/ NoTableMemory \/ Parse \/ MakeObject \/ WalkOn \/ Crash
         \/ ComponentsDone \/ End \/ GetName \/ GetDescriptor \/ Close \/ NoHdr
         \/ UNCHANGED handleVars
  PROVE  HInv'
<1>1. disk' = disk /\ loc' = loc
  BY DEF BadHeader, NoTableMemory, Parse, MakeObject, WalkOn, Crash, ComponentsDone, End,
     GetName, GetDescriptor, Close, NoHdr, NoFile, Error, handleVars
<1>2. (pc' \in Reading => pc \in Reading) /\ (pc' \in Opening => pc \in Opening)
  BY DEF BadHeader, NoTableMemory, Parse, MakeObject, WalkOn, Crash, ComponentsDone, End,
     GetName, GetDescriptor, Close, NoHdr, NoFile, Error, handleVars, Reading, Opening
<1>3. pc' \in Opening => loc' \in Locals
  BY <1>1, <1>2 DEF HInv
<1> QED
  BY <1>1, <1>2, <1>3, SameFile

LEMMA StartHInv == ASSUME HInv, Start PROVE HInv'
<1>1. loc' \in Locals /\ disk' = disk /\ pc' \notin Reading
  BY DEF HInv, Start, Locals, Opening, Reading
<1> QED
  BY <1>1 DEF HInv, FileFound

LEMMA ClosingHInv == ASSUME HInv, BeginClose \/ CloseHeader PROVE HInv'
<1>1. pc' = "closing" /\ disk' = disk
  BY DEF BeginClose, CloseHeader
<1> QED
  BY <1>1 DEF HInv, FileFound, Opening, Reading

LEMMA PassEndsHInv == ASSUME HInv, NoCab \/ Dispose PROVE HInv'
<1>1. Onwards(Stopped(loc)) /\ disk' = disk /\ pc \in Opening
  BY DEF NoCab, NoFile, Dispose, Opening, Reading
<1> QED
  BY <1>1, OnwardsHInv, StoppedLocals DEF HInv

LEMMA NextHInv == ASSUME HInv, [Next]_headerVars PROVE HInv'
<1>1. CASE OpenHdr \/ OpenCab
  <2>1. \E iterate \in BOOLEAN : \E suffix : Open(suffix, iterate)
    BY <1>1 DEF OpenHdr, OpenCab, HInv, Locals, Opening
  <2>2. pc \in Opening
    BY <1>1 DEF OpenHdr, OpenCab, Opening
  <2> QED
    BY <2>1, <2>2, OpenHInv
<1> QED
  BY <1>1, StartHInv, PassEndsHInv, ReadHInv, LinkHInv, LocKeptHInv, ClosingHInv
  DEF Next, Work, headerVars
-----------------------------------------------------------------------------
(* Every step of the handle is one of the walk, the start of one, or       *)
(* leaves it alone.                                                        *)
LEMMA WalkStep == ASSUME HInv, [Next]_headerVars PROVE [WalkNext]_walkVars
<1>1. CASE Parse \/ ComponentsDone
  <2>1. \E t \in Tables : StartWalk(t)
    BY <1>1, FoundTables DEF Parse, ComponentsDone, Reading
  <2> QED
    BY <2>1 DEF WalkNext
<1>2. CASE MakeObject \/ WalkOn \/ Crash
  BY <1>2 DEF MakeObject, WalkOn, Crash, WalkNext, Walk
<1>3. CASE ~(Parse \/ ComponentsDone \/ MakeObject \/ WalkOn \/ Crash)
  BY <1>3 DEF Next, Work, headerVars, walkVars, Start, OpenHdr, OpenCab, Open, NoHdr, NoCab,
     NoFile, TooSmall, NoDataMemory, ReadShort, ReadData, BadHeader, NoTableMemory, Error,
     Link, Dispose, End, CloseHeader, Close, GetName, GetDescriptor, BeginClose
<1> QED
  BY <1>1, <1>2, <1>3

(* Opening a set never writes past the end of the array of components or   *)
(* of file groups, whatever the headers are.                               *)
THEOREM HandleArraysFit == Spec => []ArrayFits
<1>1. Init => HInv /\ WInv
  <2>1. Init => HInv
    BY DEF Init, HInv, FileFound, Locals, Reading, Opening
  <2>2. Init => WInv
    <3>1. ASSUME Init PROVE table \in Tables
      <4>1. \E t \in Tables : TRUE
        BY <3>1 DEF Init, WalkInit
      <4> QED
        BY <3>1, <4>1 DEF Init
    <3> QED
      BY <3>1, WalkInitWInv DEF Init
  <2> QED
    BY <2>1, <2>2
<1>2. HInv /\ WInv /\ [Next]_headerVars => HInv' /\ WInv'
  BY NextHInv, WalkStep, WalkNextWInv
<1>3. WInv => ArrayFits
  BY DEF WInv
<1> QED
  BY <1>1, <1>2, <1>3, PTL DEF Spec
-----------------------------------------------------------------------------
(* The list of headers.  Passing is the body of the loop; Linked is how    *)
(* many headers there were, which the first knows from the last.           *)
D == Disks[disk]
Passing == Reading \cup {"hdr", "cab", "error"}
Linked == IF list = 0 THEN 0 ELSE IF header[1].next = 0 THEN 1 ELSE header[1].next
Parsed(i) == \E k \in DOMAIN Files : Files[k].index = i /\ Usable(Files[k].header)

HeaderObject ==
  [next : Nat, major : Int, files : Nat, components : Seq(Items), groups : Seq(Items)]
Types ==
  /\ pc \in {"start", "hdr", "cab", "read", "parse", "components", "groups", "error",
             "end", "open", "failed", "closing", "closed", "aborted"}
  /\ loc \in Locals /\ list \in {0, 1} /\ fault \in BOOLEAN /\ forced \in Int
  /\ header \in [Numbers -> HeaderObject]
  /\ heap \in [Numbers -> [Kind -> Nat]]
  /\ loc.open <=> pc = "read"

(* No more headers than there are files.                                   *)
Bounded == loc.index \in Numbers \cup {0} /\ loc.previous \in {0, 1}

(* How the headers hang together, and that each was read.                  *)
Chained ==
  pc # "closed" =>
    /\ \A h \in Numbers : header[h].next # 0 => h = 1 /\ list = 1 /\ header[h].next > 1
    /\ pc \in Opening => loc.previous = list
    /\ pc \in Passing => H > 0 /\ Linked = H - 1
    /\ pc \in {"start", "failed"} => list = 0
    /\ pc \in {"open", "closing"} => list = 1
    /\ \A i \in 1 .. Linked : Parsed(i)

(* The file that is read.                                                  *)
FileRead ==
  /\ pc \in {"start", "hdr", "cab"} => loc.iterate
  /\ pc \in Reading => Files[loc.file].index = H
  /\ pc \in Reading \cup {"error"} /\ ~loc.iterate => HasHdr(D, H)
  /\ pc = "parse" => Found.size >= 4 /\ Found.whole
  /\ pc \in {"components", "groups"} => Usable(Found)

(* Without a failure, the headers are those of the directory.              *)
Faithful ==
  ~fault =>
    /\ pc \in Passing => \A i \in 1 .. H - 1 : Serves(D, i) /\ ~HasHdr(D, i)
    /\ pc = "cab" => ~HasHdr(D, H)
    /\ pc \in Reading \cup {"error"} /\ loc.iterate => ~HasHdr(D, H)
    /\ pc \in Reading => Source(D, H) = {Found}
    /\ pc = "error" => ~Serves(D, H)
    /\ pc \in {"end", "open", "failed"} => Amount(D, Linked)

(* The components and file groups of the first header.                     *)
FromLists(h, k) ==
  /\ header[h].components = AllEntries(Files[k].header.components)
  /\ header[h].groups = AllEntries(Files[k].header.groups)
Served ==
  /\ pc = "components" => table = Found.components
  /\ pc = "groups" =>
       table = Found.groups /\ header[H].components = AllEntries(Found.components)
  /\ list = 1 => \E k \in DOMAIN Files : Files[k].index = 1 /\ FromLists(1, k)

(* What is allocated for a header.                                         *)
Nothing(h) == \A k \in Kind : heap[h][k] = 0
Just(h, kinds) == \A k \in Kind : heap[h][k] = IF k \in kinds THEN 1 ELSE 0
NoDescriptors(h) == heap[h].descriptors = 0 /\ heap[h].descriptor = 0
Whole(h) ==
  /\ heap[h].component = Len(header[h].components)
  /\ heap[h].group = Len(header[h].groups)
  /\ NoDescriptors(h) \/ heap[h].descriptors = 1
BeingRead ==
  /\ pc = "read" => Just(H, {"header"})
  /\ pc = "parse" => Just(H, {"header", "data"})
  /\ pc = "error" => Just(H, {"header"}) \/ Just(H, {"header", "data"})
  /\ pc = "components" =>
       heap[H].component = Len(items) /\ heap[H].group = 0 /\ NoDescriptors(H)
  /\ pc = "groups" =>
       /\ heap[H].component = Len(header[H].components)
       /\ heap[H].group = Len(items) /\ NoDescriptors(H)
Allocations ==
  /\ BeingRead
  /\ pc \in Opening \cup {"open"} => \A h \in 1 .. Linked : Whole(h)
  /\ pc \in Opening \cup {"open", "failed"} =>
       \A h \in Numbers : h > Linked /\ (pc \in Reading \cup {"error"} => h # H) => Nothing(h)

(* The header after the first is the last, those between them are lost.    *)
Closing ==
  /\ pc = "closing" =>
       /\ H \in {0, 1, Linked} /\ (H # 0 => Whole(H)) /\ (H = 1 => Whole(Linked))
       /\ \A h \in Numbers : h \in 2 .. Linked - 1 \/ h = H \/ (H = 1 /\ h = Linked) \/ Nothing(h)
  /\ pc = "closed" /\ AtMostTwo(D) => \A h \in Numbers : Nothing(h)

KInv ==
  /\ OInv /\ HInv /\ Types /\ Bounded /\ Chained /\ FileRead /\ Faithful
  /\ Served /\ Allocations /\ Closing
-----------------------------------------------------------------------------
(* What the files of a directory are, and what is found of them.           *)
LEMMA FilesAre ==
  ASSUME HInv
  PROVE  /\ D \in Directory /\ NamesDiffer(D) /\ Files = D.entries
         /\ Files \in Seq(DirectoryEntry) /\ Len(Files) \in Nat /\ DOMAIN Files = 1 .. Len(Files)
         /\ \A k \in DOMAIN Files : Files[k] \in DirectoryEntry
<1>1. D \in Directory /\ NamesDiffer(D) /\ Files = D.entries
  BY DisksAssumption DEF HInv, D, Files
<1>2. Files \in Seq(DirectoryEntry)
  BY <1>1 DEF Directory
<1> QED BY <1>1, <1>2, LenProperties

LEMMA VisibleFiles ==
  ASSUME HInv, NEW i, NEW suffix
  PROVE  /\ Visible(D, i, suffix) \subseteq DOMAIN Files
         /\ Visible(D, i, suffix) \subseteq Nat
         /\ \A k \in Visible(D, i, suffix) : Files[k].index = i
         /\ Visible(D, i, suffix) # {} =>
              \E k \in Visible(D, i, suffix) : \A j \in Visible(D, i, suffix) : k <= j
<1>1. Visible(D, i, suffix) \subseteq DOMAIN Files /\ DOMAIN Files \subseteq Nat
  BY FilesAre DEF Visible
<1>2. \A k \in Visible(D, i, suffix) : Files[k].index = i
  BY FilesAre DEF Visible
<1> QED BY <1>1, <1>2, LeastNumber

(* The file that is opened is the first that is visible.                   *)
LEMMA LookupFindsFirst ==
  ASSUME HInv, NEW i, NEW suffix
  PROVE  /\ \A k \in Lookup(D, i, suffix) :
              /\ k \in Visible(D, i, suffix)
              /\ \A j \in Visible(D, i, suffix) : k <= j
         /\ Visible(D, i, suffix) # {} => Lookup(D, i, suffix) # {}
<1>1. CASE D.listable
  <2>1. Visible(D, i, suffix) = Named(D, i, suffix)
    BY <1>1 DEF Visible, Named
  <2>2. Lookup(D, i, suffix)
          = {k \in Visible(D, i, suffix) : \A j \in Visible(D, i, suffix) : k <= j}
    BY <1>1, <2>1 DEF Lookup
  <2> QED BY <2>2, VisibleFiles
<1>2. CASE ~D.listable
  <2>1. Lookup(D, i, suffix) = Visible(D, i, suffix)
    BY <1>2 DEF Visible, Named, Lookup
  <2>2. ASSUME NEW k \in Visible(D, i, suffix), NEW j \in Visible(D, i, suffix) PROVE k = j
    BY <1>2, FilesAre DEF Visible, NamesDiffer
  <2> QED BY <2>1, <2>2, VisibleFiles
<1> QED BY <1>1, <1>2

LEMMA SourceIsFound ==
  ASSUME HInv, NEW i, NEW suffix, NEW k \in Lookup(D, i, suffix),
         suffix = IF HasHdr(D, i) THEN "hdr" ELSE "cab"
  PROVE  Source(D, i) = {Files[k].header}
<1>1. {j \in Visible(D, i, suffix) : \A l \in Visible(D, i, suffix) : j <= l} = {k}
  BY LookupFindsFirst, VisibleFiles
<1> QED BY <1>1, FilesAre DEF Source

LEMMA NothingVisible ==
  ASSUME HInv, NEW i, ~HasHdr(D, i), Visible(D, i, "cab") = {}
  PROVE  ~Serves(D, i)
  BY DEF Serves, Source

LEMMA FoundIs ==
  ASSUME HInv, pc \in Reading
  PROVE  /\ Found \in HeaderFile /\ Found = Files[loc.file].header
         /\ Found.components \in Tables /\ Found.groups \in Tables
  BY FilesAre, FoundTables DEF HInv, FileFound, Found, DirectoryEntry

(* The tests of the code are those of Usable.                              *)
LEMMA UsableIs ==
  ASSUME NEW h \in HeaderFile
  PROVE  Usable(h) <=> h.size >= 4 /\ h.whole /\ ~Unusable(h)
  BY DEF HeaderFile, Usable, Unusable, TableOutside, TableStart, TableSize
-----------------------------------------------------------------------------
(* There are as many headers as files at most.                             *)
LEMMA LinkedIsNumber == ASSUME Types, Chained, HInv, pc # "closed" PROVE Linked \in Nat
<1>1. 1 \in Numbers
  BY FilesAre DEF Numbers
<1>2. header[1].next \in Nat
  BY <1>1 DEF Types, HeaderObject
<1> QED BY <1>1, <1>2 DEF Linked, Types

LEMMA ParsedBound ==
  ASSUME HInv, NEW n \in Nat, \A i \in 1 .. n : Parsed(i)
  PROVE  n <= Len(Files)
<1> DEFINE N == Len(Files)
           f == [i \in 1 .. n |-> CHOOSE k \in 1 .. N : Files[k].index = i]
<1>1. N \in Nat
  BY FilesAre
<1>2. ASSUME NEW i \in 1 .. n PROVE f[i] \in 1 .. N /\ Files[f[i]].index = i
  <2>1. \E k \in 1 .. N : Files[k].index = i
    BY FilesAre DEF Parsed
  <2> QED BY <2>1
<1>3. f \in Injection(1 .. n, 1 .. N)
  <2>1. f \in [1 .. n -> 1 .. N]
    BY <1>2
  <2>2. \A i, j \in 1 .. n : f[i] = f[j] => i = j
    BY <1>2
  <2> HIDE DEF f
  <2> QED BY <2>1, <2>2 DEF Injection, IsInjective
<1>4. /\ IsFiniteSet(1 .. N) /\ Cardinality(1 .. N) = IF 1 > N THEN 0 ELSE (N - 1) + 1
      /\ Cardinality(1 .. n) = IF 1 > n THEN 0 ELSE (n - 1) + 1
  BY <1>1, FS_Interval
<1> HIDE DEF f, N
<1>5. Cardinality(1 .. n) <= Cardinality(1 .. N)
  BY <1>3, <1>4, FS_Injection
<1>6. n <= N
  BY <1>1, <1>4, <1>5
<1> QED BY <1>6 DEF N

LEMMA LinkedBound ==
  ASSUME Types, Chained, HInv, pc # "closed"
  PROVE  Linked \in 0 .. Len(Files)
<1>1. Linked \in Nat /\ \A i \in 1 .. Linked : Parsed(i)
  BY LinkedIsNumber DEF Chained
<1> QED BY <1>1, ParsedBound, FilesAre

LEMMA InNumbers ==
  ASSUME Types, Bounded, Chained, HInv
  PROVE  /\ pc \in Passing => H \in Numbers
         /\ 1 \in Numbers /\ Numbers \subseteq Nat \ {0}
         /\ pc # "closed" => 1 .. Linked \subseteq Numbers
<1>1. Numbers = 1 .. Len(Files) + 1 /\ Len(Files) \in Nat
  BY FilesAre DEF Numbers
<1>2. pc \in Passing => H \in Numbers
  BY <1>1 DEF Bounded, Chained, H, Passing, Reading
<1> QED BY <1>1, <1>2, LinkedBound
-----------------------------------------------------------------------------
(* What every step leaves alone.                                           *)
LEMMA DirectoryKept ==
  ASSUME [Next]_headerVars
  PROVE  /\ disk' = disk /\ forced' = forced /\ D' = D /\ Files' = Files /\ Numbers' = Numbers
<1>1. disk' = disk /\ forced' = forced
  BY DEF Next, Work, headerVars, handleVars, Start, OpenHdr, OpenCab, Open, NoHdr, NoCab,
     NoFile, TooSmall, NoDataMemory, ReadShort, ReadData, BadHeader, NoTableMemory, Error,
     Parse, MakeObject, WalkOn, Crash, ComponentsDone, Link, Dispose, End, CloseHeader, Close,
     GetName, GetDescriptor, BeginClose
<1> QED BY <1>1 DEF D, Files, Numbers

LEMMA PcAndListTypes ==
  ASSUME KInv, [Next]_headerVars
  PROVE  /\ pc' \in {"start", "hdr", "cab", "read", "parse", "components", "groups", "error",
                     "end", "open", "failed", "closing", "closed", "aborted"}
         /\ list' \in {0, 1} /\ fault' \in BOOLEAN /\ forced' \in Int
<1>1. Types /\ (pc \in Passing => H > 0 /\ Linked = H - 1) /\ (pc \in Opening => loc.previous = list)
  BY DEF KInv, Chained, Passing, Reading, Opening
<1>2. CASE Link
  <2>1. list = 0 => H = 1
    BY <1>1, <1>2 DEF Link, Linked, Passing, Reading, H, Types, Locals
  <2> QED BY <1>1, <1>2, <2>1 DEF Link, Onwards, Types, Opening, Reading
<1>3. CASE ~Link
  BY <1>1, <1>3 DEF Types, Next, Work, headerVars, handleVars, Start, OpenHdr, OpenCab, Open,
     NoHdr, NoCab, NoFile, TooSmall, NoDataMemory, ReadShort, ReadData, BadHeader,
     NoTableMemory, Error, Parse, MakeObject, WalkOn, Crash, ComponentsDone, Dispose, End,
     CloseHeader, Close, GetName, GetDescriptor, BeginClose, Onwards
<1> QED BY <1>2, <1>3

LEMMA ClosingNumbers ==
  ASSUME KInv, pc = "closing", H # 0
  PROVE  H \in Numbers /\ header[H].next \in Nat /\ header[H].next \in {0, Linked}
<1>1. Types /\ Chained /\ HInv /\ H \in {1, Linked} /\ list = 1
  BY DEF KInv, Closing, Chained
<1>2. 1 \in Numbers /\ 1 .. Linked \subseteq Numbers /\ Linked \in Nat
  BY <1>1, InNumbers, LinkedIsNumber DEF KInv
<1>3. H \in Numbers
  BY <1>1, <1>2
<1>4. header[H].next \in Nat
  BY <1>1, <1>3 DEF Types, HeaderObject
<1>5. header[H].next \in {0, Linked}
  BY <1>1, <1>3 DEF Chained, Linked
<1> QED BY <1>3, <1>4, <1>5

LEMMA LocalsKept ==
  ASSUME KInv, [Next]_headerVars
  PROVE  loc' \in Locals /\ (loc'.open <=> pc' = "read")
<1>1. Types /\ HInv /\ loc \in Locals /\ (loc.open <=> pc = "read")
  BY DEF KInv, Types
<1>2. CASE OpenHdr \/ OpenCab
  <2>1. PICK k \in DOMAIN Files, iterate \in BOOLEAN :
          /\ loc' = [loc EXCEPT !.file = k, !.open = TRUE, !.iterate = iterate]
          /\ pc' = "read"
    BY <1>1, <1>2, VisibleFiles, LookupFindsFirst DEF OpenHdr, OpenCab, Open, D, Locals
  <2>2. k \in Int
    BY <1>1, <2>1, FilesAre
  <2> QED BY <1>1, <2>1, <2>2 DEF Locals
<1>3. CASE Start
  BY <1>1, <1>3 DEF Start, Locals
<1>4. CASE NoCab \/ Dispose
  BY <1>1, <1>4 DEF NoCab, Dispose, Onwards, Stopped, Locals
<1>5. CASE TooSmall \/ NoDataMemory \/ ReadShort \/ ReadData
  BY <1>1, <1>5 DEF TooSmall, NoDataMemory, ReadShort, ReadData, CloseFile, Error, Locals
<1>6. CASE Link
  <2>1. PreviousAfter \in Int
    BY <1>1 DEF PreviousAfter, H, Locals
  <2> DEFINE l == [loc EXCEPT !.previous = PreviousAfter]
  <2>2. l \in Locals /\ l.open = loc.open
    BY <1>1, <2>1 DEF Locals
  <2>3. Onwards(l) /\ pc # "read"
    BY <1>6 DEF Link
  <2> HIDE DEF l
  <2> QED BY <1>1, <2>2, <2>3 DEF Onwards, Locals
<1>7. CASE BeginClose
  BY <1>1, <1>7 DEF BeginClose, Locals, KInv, Types
<1>8. CASE CloseHeader
  <2>1. header[H].next \in Int
    BY <1>8, ClosingNumbers DEF CloseHeader
  <2> QED BY <1>1, <1>8, <2>1 DEF CloseHeader, Locals
<1>9. CASE \/ NoHdr \/ BadHeader \/ NoTableMemory \/ Parse \/ MakeObject \/ WalkOn \/ Crash
           \/ ComponentsDone \/ End \/ Close \/ GetName \/ GetDescriptor \/ UNCHANGED headerVars
  <2>1. loc' = loc /\ (pc' = "read" <=> pc = "read")
    BY <1>9 DEF NoHdr, NoFile, BadHeader, NoTableMemory, Error, Parse, MakeObject, WalkOn, Crash,
       ComponentsDone, End, Close, GetName, GetDescriptor, headerVars, handleVars
  <2> QED BY <1>1, <2>1
<1> QED BY <1>2, <1>3, <1>4, <1>5, <1>6, <1>7, <1>8, <1>9 DEF Next, Work

(* The objects made of the header of a file.                               *)
LEMMA ParsedObject ==
  ASSUME KInv, pc = "parse", NEW o,
         o = [NewHeader EXCEPT !.major = MajorVersion(Found.version), !.files = Found.files]
  PROVE  o \in HeaderObject /\ o.next = 0
<1>1. Found \in HeaderFile /\ forced \in Int
  BY FoundIs DEF KInv, Types, Reading
<1>2. MajorVersion(Found.version) \in Int
  BY <1>1 DEF MajorVersion, HeaderFile
<1>3. NewHeader \in HeaderObject /\ NewHeader.next = 0 /\ Found.files \in Nat
  <2>1. <<>> \in Seq(Items)
    BY EmptySeq
  <2> QED BY <1>1, <2>1 DEF NewHeader, HeaderObject, HeaderFile
<1> HIDE DEF NewHeader
<1> QED BY <1>2, <1>3 DEF HeaderObject

LEMMA HeaderTypes ==
  ASSUME KInv, [Next]_headerVars
  PROVE  header' \in [Numbers' -> HeaderObject]
<1>1. Types /\ Numbers' = Numbers /\ header \in [Numbers -> HeaderObject] /\ items \in Seq(Items)
  BY DirectoryKept DEF KInv, Types, OInv, WInv, ArrayFits
<1>2. pc \in Passing => H \in Numbers
  BY InNumbers DEF KInv
<1>3. CASE Parse
  <2>1. header' = [header EXCEPT ![H] = [NewHeader EXCEPT !.major = MajorVersion(Found.version),
                                                         !.files = Found.files]]
        /\ pc = "parse"
    BY <1>3 DEF Parse
  <2> QED BY <1>1, <2>1, ParsedObject
<1>4. CASE ComponentsDone
  <2>1. header' = [header EXCEPT ![H].components = items] /\ H \in Numbers
    BY <1>2, <1>4 DEF ComponentsDone, Passing, Reading
  <2> QED BY <1>1, <2>1 DEF HeaderObject
<1>5. CASE Link
  <2> DEFINE done == [header EXCEPT ![H].groups = items]
  <2>1. H \in Numbers /\ H \in Nat
    BY <1>2, <1>5, InNumbers DEF Link, Passing, Reading, KInv
  <2>2. done \in [Numbers -> HeaderObject]
    BY <1>1, <2>1 DEF HeaderObject
  <2> HIDE DEF done
  <2>3. header' = done \/ (loc.previous \in Numbers /\ header' = [done EXCEPT ![loc.previous].next = H])
    <3>1. loc.previous = 0 \/ loc.previous \in Numbers
      BY InNumbers DEF KInv, Bounded
    <3> QED BY <1>5, <3>1 DEF Link, done
  <2> QED BY <1>1, <2>1, <2>2, <2>3 DEF HeaderObject
<1>6. CASE ~(Parse \/ ComponentsDone \/ Link)
  <2>1. header' = header
    BY <1>6 DEF Next, Work, headerVars, handleVars, Start, OpenHdr, OpenCab, Open, NoHdr, NoCab,
     NoFile, TooSmall, NoDataMemory, ReadShort, ReadData, BadHeader, NoTableMemory, Error,
     MakeObject, WalkOn, Crash, Dispose, End, CloseHeader, Close, GetName, GetDescriptor, BeginClose
  <2> QED BY <1>1, <2>1
<1> QED BY <1>3, <1>4, <1>5, <1>6
-----------------------------------------------------------------------------
(* The heap.                                                               *)
LEMMA HeapRow ==
  ASSUME KInv, NEW h \in Numbers
  PROVE  heap[h] \in [Kind -> Nat] /\ \A k \in Kind : heap[h][k] \in Nat
  BY DEF KInv, Types

LEMMA AllocatedHeap ==
  ASSUME KInv, NEW kind \in Kind, H \in Numbers, heap' = Allocated(kind, 1)
  PROVE  /\ heap' \in [Numbers -> [Kind -> Nat]]
         /\ \A h \in Numbers : h # H => heap'[h] = heap[h]
         /\ \A k \in Kind : heap'[H][k] = IF k = kind THEN heap[H][k] + 1 ELSE heap[H][k]
<1>1. heap \in [Numbers -> [Kind -> Nat]]
  BY DEF KInv, Types
<1> QED BY <1>1 DEF Allocated

(* An object of an entry, and the strings of its names.                    *)
LEMMA MakeObjectHeap ==
  ASSUME KInv, MakeObject
  PROVE  /\ H \in Numbers /\ heap' \in [Numbers -> [Kind -> Nat]]
         /\ \A h \in Numbers : h # H => heap'[h] = heap[h]
         /\ heap'[H][Object] = heap[H][Object] + 1
         /\ \A k \in Kind \ {Object, "string"} : heap'[H][k] = heap[H][k]
<1>1. heap \in [Numbers -> [Kind -> Nat]] /\ H \in Numbers
  BY InNumbers DEF KInv, Types, MakeObject, Passing, Reading
<1>2. Object \in Kind \ {"string"} /\ "string" \in Kind
  BY DEF Object, Kind
<1>3. Strings(H, 1 + Entry.item.groups) \in Nat
  <2>1. offset \in DOMAIN table.nodes
    BY DEF KInv, OInv, WInv, OnList, MakeObject, Take
  <2>2. Entry.item \in Items
    BY <2>1 DEF KInv, OInv, WInv, OnList, IsTable, Entry
  <2> QED BY <2>2, ItemsAssumption DEF Strings
<1>4. heap' = [heap EXCEPT ![H][Object] = @ + 1,
                           ![H].string = @ + Strings(H, 1 + Entry.item.groups)]
  BY DEF MakeObject
<1> DEFINE n == Strings(H, 1 + Entry.item.groups)
           o == Object
<1> HIDE DEF n, o
<1>5. heap' = [heap EXCEPT ![H][o] = @ + 1, ![H].string = @ + n] /\ n \in Nat
      /\ o \in Kind \ {"string"}
  BY <1>2, <1>3, <1>4 DEF n, o
<1>6. heap' \in [Numbers -> [Kind -> Nat]]
  <2> DEFINE g == [heap EXCEPT ![H][o] = @ + 1]
  <2>1. g \in [Numbers -> [Kind -> Nat]]
    BY <1>1, <1>5
  <2>2. heap' = [g EXCEPT ![H].string = @ + n]
    BY <1>5
  <2> HIDE DEF g
  <2> DEFINE row == [g[H] EXCEPT !["string"] = @ + n]
  <2>3. g[H] \in [Kind -> Nat]
    BY <1>1, <2>1
  <2>4. row \in [Kind -> Nat]
    BY <1>2, <1>5, <2>3
  <2>5. heap' = [g EXCEPT ![H] = row]
    BY <2>2
  <2> HIDE DEF row
  <2> QED BY <1>1, <2>1, <2>4, <2>5
<1>7. /\ \A h \in Numbers : h # H => heap'[h] = heap[h]
      /\ heap'[H][o] = heap[H][o] + 1
      /\ \A k \in Kind \ {o, "string"} : heap'[H][k] = heap[H][k]
  BY <1>1, <1>2, <1>5
<1> QED BY <1>1, <1>6, <1>7 DEF o

(* A header that is whole is freed whole.                                  *)
LEMMA CloseHeaderHeap ==
  ASSUME KInv, CloseHeader
  PROVE  /\ H \in Numbers /\ heap' \in [Numbers -> [Kind -> Nat]]
         /\ \A h \in Numbers : h # H => heap'[h] = heap[h]
         /\ \A k \in Kind : heap'[H][k] = 0
<1>1. heap \in [Numbers -> [Kind -> Nat]] /\ H \in Numbers /\ Whole(H) /\ pc = "closing" /\ H # 0
  BY ClosingNumbers DEF KInv, Types, CloseHeader, Closing
<1>2. heap' = [heap EXCEPT ![H] = [k \in Kind |-> @[k] - Destroyed(H)[k]]]
  BY DEF CloseHeader
<1>3. ASSUME NEW k \in Kind PROVE heap[H][k] - Destroyed(H)[k] = 0
  <2>1. heap[H][k] \in Nat
    BY <1>1
  <2>2. CASE k = "component"
    BY <1>1, <2>1, <2>2 DEF Destroyed, Whole
  <2>3. CASE k = "group"
    BY <1>1, <2>1, <2>3 DEF Destroyed, Whole
  <2>4. CASE k = "descriptor"
    BY <1>1, <2>1, <2>4 DEF Destroyed, Whole, NoDescriptors
  <2>5. CASE k \notin {"component", "group", "descriptor"}
    BY <1>1, <2>1, <2>5 DEF Destroyed
  <2> QED BY <2>2, <2>3, <2>4, <2>5
<1>4. heap' = [heap EXCEPT ![H] = [k \in Kind |-> 0]]
  BY <1>1, <1>2, <1>3
<1> QED BY <1>1, <1>4

LEMMA HeapTypes ==
  ASSUME KInv, [Next]_headerVars
  PROVE  heap' \in [Numbers' -> [Kind -> Nat]]
<1>1. Numbers' = Numbers /\ heap \in [Numbers -> [Kind -> Nat]]
  BY DirectoryKept DEF KInv, Types
<1>2. pc \in Passing => H \in Numbers
  BY InNumbers DEF KInv
<1>3. CASE OpenHdr \/ OpenCab \/ ReadShort \/ ReadData \/ ComponentsDone
  <2>1. H \in Numbers /\ \E kind \in Kind : heap' = Allocated(kind, 1)
    BY <1>2, <1>3 DEF OpenHdr, OpenCab, Open, ReadShort, ReadData, ComponentsDone, Kind, Passing,
       Reading
  <2> QED BY <1>1, <2>1, AllocatedHeap
<1>4. CASE Parse
  <2>1. H \in Numbers /\ heap' = [heap EXCEPT ![H].table = @ + 1, ![H].components = @ + 1]
    BY <1>2, <1>4 DEF Parse, Passing, Reading
  <2>2. "table" \in Kind /\ "components" \in Kind
    BY DEF Kind
  <2> QED BY <1>1, <2>1, <2>2
<1>5. CASE Dispose
  <2>1. H \in Numbers
        /\ heap' = [heap EXCEPT ![H] = [k \in Kind |-> IF k \in Disposed THEN 0 ELSE @[k]]]
    BY <1>2, <1>5 DEF Dispose, Passing, Reading
  <2> QED BY <1>1, <2>1
<1>6. CASE GetName
  <2>1. heap' = [heap EXCEPT ![list].string = @ + Strings(list, 1)] /\ list = 1 /\ 1 \in Numbers
    BY <1>6, InNumbers DEF GetName, KInv, Chained
  <2>2. "string" \in Kind /\ Strings(list, 1) \in Nat
    BY DEF Kind, Strings
  <2> QED BY <1>1, <2>1, <2>2
<1>7. CASE GetDescriptor
  <2>1. heap' = [heap EXCEPT ![list].descriptors = 1, ![list].descriptor = @ + 1]
        /\ list = 1 /\ 1 \in Numbers
    BY <1>7, InNumbers DEF GetDescriptor, KInv, Chained
  <2>2. "descriptor" \in Kind /\ "descriptors" \in Kind
    BY DEF Kind
  <2> QED BY <1>1, <2>1, <2>2
<1>8. CASE \/ NoHdr \/ BadHeader \/ NoTableMemory \/ WalkOn \/ Crash \/ End \/ Close \/ Start
           \/ NoCab \/ TooSmall \/ NoDataMemory \/ Link \/ BeginClose \/ UNCHANGED headerVars
  <2>1. heap' = heap
    BY <1>8 DEF NoHdr, NoFile, BadHeader, NoTableMemory, Error, WalkOn, Crash, End, Close, Start,
       NoCab, TooSmall, NoDataMemory, Link, BeginClose, headerVars, handleVars
  <2> QED BY <1>1, <2>1
<1> QED BY <1>1, <1>3, <1>4, <1>5, <1>6, <1>7, <1>8, MakeObjectHeap, CloseHeaderHeap DEF Next, Work

LEMMA TypesKept == ASSUME KInv, [Next]_headerVars PROVE Types'
  BY PcAndListTypes, LocalsKept, HeaderTypes, HeapTypes DEF Types
-----------------------------------------------------------------------------
(* The chain of headers.                                                   *)
LEMMA NextsKept ==
  ASSUME KInv, [Next]_headerVars, ~Link, ~Close
  PROVE  /\ list' = list /\ Linked' = Linked
         /\ \A h \in Numbers : header'[h].next = header[h].next
<1>1. list' = list
  BY DEF Next, Work, headerVars, handleVars, Start, OpenHdr, OpenCab, Open, NoHdr, NoCab,
     NoFile, TooSmall, NoDataMemory, ReadShort, ReadData, BadHeader, NoTableMemory, Error,
     Parse, MakeObject, WalkOn, Crash, ComponentsDone, Dispose, End, CloseHeader,
     GetName, GetDescriptor, BeginClose
<1>2. header \in [Numbers -> HeaderObject] /\ 1 \in Numbers /\ (pc \in Passing => H \in Numbers)
  BY InNumbers DEF KInv, Types
<1>3. CASE Parse
  <2> DEFINE o == [NewHeader EXCEPT !.major = MajorVersion(Found.version), !.files = Found.files]
  <2>1. header' = [header EXCEPT ![H] = o] /\ H \in Numbers /\ pc = "parse"
    BY <1>2, <1>3 DEF Parse, Passing, Reading
  <2>2. o.next = 0
    BY <2>1, ParsedObject
  <2>3. header[H].next = 0
    <3>1. CASE H = 1
      <4>1. Linked = 0 /\ header[1].next \in Nat
        BY <1>2, <2>1, <3>1 DEF KInv, Chained, Passing, Reading, HeaderObject
      <4>2. list = 0
        BY <4>1 DEF Linked
      <4> QED BY <2>1, <3>1, <4>2 DEF KInv, Chained
    <3>2. CASE H # 1
      BY <2>1, <3>2 DEF KInv, Chained
    <3> QED BY <3>1, <3>2
  <2> HIDE DEF o
  <2>4. \A h \in Numbers : header'[h].next = header[h].next
    BY <1>2, <2>1, <2>2, <2>3
  <2> QED BY <1>1, <1>2, <2>4 DEF Linked
<1>4. CASE ComponentsDone
  <2>1. header' = [header EXCEPT ![H].components = items] /\ H \in Numbers
    BY <1>2, <1>4 DEF ComponentsDone, Passing, Reading
  <2>2. \A h \in Numbers : header'[h].next = header[h].next
    BY <1>2, <2>1 DEF HeaderObject
  <2> QED BY <1>1, <1>2, <2>2 DEF Linked
<1>5. CASE ~(Parse \/ ComponentsDone)
  <2>1. header' = header
    BY <1>5 DEF Next, Work, headerVars, handleVars, Start, OpenHdr, OpenCab, Open, NoHdr, NoCab,
     NoFile, TooSmall, NoDataMemory, ReadShort, ReadData, BadHeader, NoTableMemory, Error,
     MakeObject, WalkOn, Crash, Dispose, End, CloseHeader, GetName, GetDescriptor, BeginClose
  <2> QED BY <1>1, <2>1 DEF Linked
<1> QED BY <1>3, <1>4, <1>5

(* The header that is linked is the next one.                              *)
LEMMA LinkChain ==
  ASSUME KInv, Link
  PROVE  /\ list' = 1 /\ Linked' = H /\ H \in Numbers /\ H = Linked + 1
         /\ \A h \in Numbers : header'[h].next = IF h = 1 /\ H > 1 THEN H ELSE 0
         /\ \A h \in Numbers \ {H} : /\ header'[h].components = header[h].components
                                     /\ header'[h].groups = header[h].groups
         /\ header'[H].components = header[H].components /\ header'[H].groups = items
<1>1. /\ header \in [Numbers -> HeaderObject] /\ 1 \in Numbers /\ H \in Numbers
      /\ Linked = H - 1 /\ loc.previous = list /\ H \in Nat \ {0} /\ list \in {0, 1}
  BY InNumbers DEF KInv, Types, Chained, Link, Passing, Reading, Opening
<1> DEFINE done == [header EXCEPT ![H].groups = items]
<1>2. /\ done \in [Numbers -> [next : Nat, major : Int, files : Nat, components : Seq(Items),
                               groups : Seq(Items)]]
      /\ \A h \in Numbers : done[h].next = header[h].next /\ done[h].components = header[h].components
      /\ \A h \in Numbers \ {H} : done[h].groups = header[h].groups
      /\ done[H].groups = items
  <2>1. items \in Seq(Items)
    BY DEF KInv, OInv, WInv, ArrayFits
  <2> QED BY <1>1, <2>1 DEF HeaderObject
<1>3. CASE list = 0
  <2>1. list' = H /\ header' = done
    BY <1>1, <1>3 DEF Link
  <2> HIDE DEF done
  <2>2. H = 1
    BY <1>1, <1>3 DEF Linked
  <2>3. \A h \in Numbers : header[h].next = 0
    BY <1>3 DEF KInv, Chained, Link
  <2>4. Linked' = 1
    BY <1>1, <1>2, <2>1, <2>2, <2>3 DEF Linked
  <2> QED BY <1>1, <1>2, <2>1, <2>2, <2>3, <2>4
<1>4. CASE list = 1
  <2>1. list' = 1 /\ header' = [done EXCEPT ![1].next = H]
    BY <1>1, <1>4 DEF Link
  <2> HIDE DEF done
  <2>2. H > 1
    <3>1. Linked # 0
      <4>1. header[1].next \in Nat
        BY <1>1 DEF HeaderObject
      <4> QED BY <1>4, <4>1 DEF Linked
    <3> QED BY <1>1, <3>1
  <2>3. \A h \in Numbers : h # 1 => header[h].next = 0
    BY <1>4 DEF KInv, Chained, Link
  <2>4. /\ \A h \in Numbers : header'[h].next = IF h = 1 THEN H ELSE header[h].next
        /\ \A h \in Numbers : header'[h].components = header[h].components
        /\ \A h \in Numbers \ {H} : header'[h].groups = header[h].groups
        /\ header'[H].groups = items
    BY <1>1, <1>2, <2>1
  <2>5. Linked' = H
    BY <1>1, <2>1, <2>2, <2>4 DEF Linked
  <2> QED BY <1>1, <2>1, <2>2, <2>3, <2>4, <2>5
<1> QED BY <1>1, <1>3, <1>4

(* Where the other steps lead.                                             *)
LEMMA PcMoves ==
  ASSUME KInv, [Next]_headerVars, ~Link
  PROVE  /\ pc' \in Opening => pc \in Opening /\ loc'.previous = loc.previous
         /\ pc' \in Passing =>
              \/ pc \in Passing /\ loc'.index = loc.index
              \/ pc = "start" /\ loc'.index = 1
         /\ pc' = "start" => pc = "start"
         /\ pc' = "failed" => pc = "failed" \/ (pc = "end" /\ list = 0)
         /\ pc' = "open" => pc = "open" \/ (pc = "end" /\ list # 0)
         /\ pc' = "closing" => pc \in {"open", "closing"}
         /\ pc' # "closed" => pc # "closed"
<1> USE DEF Opening, Passing, Reading
<1>1. loc \in Locals
  BY DEF KInv, Types
<1>2. CASE Start
  BY <1>1, <1>2 DEF Start, Locals
<1>3. CASE OpenHdr \/ OpenCab
  BY <1>1, <1>3 DEF OpenHdr, OpenCab, Open, Locals
<1>4. CASE NoCab \/ Dispose
  <2>1. pc' = "end" /\ loc' = [loc EXCEPT !.iterate = FALSE] /\ pc \in {"cab", "error"}
    BY <1>1, <1>4 DEF NoCab, Dispose, Onwards, Stopped, Locals
  <2> QED BY <1>1, <2>1 DEF Locals
<1>5. CASE TooSmall \/ NoDataMemory \/ ReadShort \/ ReadData
  BY <1>1, <1>5 DEF TooSmall, NoDataMemory, ReadShort, ReadData, CloseFile, Error, Locals
<1>6. CASE BeginClose \/ CloseHeader
  BY <1>6 DEF BeginClose, CloseHeader
<1>7. CASE \/ NoHdr \/ BadHeader \/ NoTableMemory \/ Parse \/ MakeObject \/ WalkOn \/ Crash
           \/ ComponentsDone \/ End \/ Close \/ GetName \/ GetDescriptor \/ UNCHANGED headerVars
  BY <1>7 DEF NoHdr, NoFile, BadHeader, NoTableMemory, Error, Parse, MakeObject, WalkOn, Crash,
     ComponentsDone, End, Close, GetName, GetDescriptor, headerVars, handleVars
<1> QED BY <1>2, <1>3, <1>4, <1>5, <1>6, <1>7 DEF Next, Work

LEMMA LinkMoves ==
  ASSUME KInv, Link
  PROVE  /\ pc' \in {"hdr", "end"} /\ (pc' = "hdr" <=> loc.iterate)
         /\ loc'.previous = 1 /\ loc'.iterate = loc.iterate
         /\ loc'.index = IF loc.iterate THEN H + 1 ELSE H
<1>1. loc \in Locals /\ loc.previous = list /\ list \in {0, 1} /\ (list = 0 => H = 1)
  BY LinkChain DEF KInv, Types, Chained, Link, Opening, Reading, Linked
<1>2. PreviousAfter = 1
  BY <1>1 DEF PreviousAfter
<1> DEFINE l == [loc EXCEPT !.previous = PreviousAfter]
<1>3. /\ l \in Locals /\ l.previous = 1 /\ l.index = loc.index /\ l.iterate = loc.iterate
  BY <1>1, <1>2 DEF Locals
<1>4. Onwards(l)
  BY DEF Link
<1> HIDE DEF l
<1> QED BY <1>1, <1>3, <1>4 DEF Onwards, Locals, H

LEMMA ChainedKept == ASSUME KInv, [Next]_headerVars PROVE Chained'
<1>1. Numbers' = Numbers /\ Files' = Files /\ Types /\ Chained /\ (\A i : Parsed(i)' = Parsed(i))
  BY DirectoryKept DEF KInv, Parsed
<1>2. CASE Link
  <2>1. pc # "closed" /\ pc = "groups" /\ H \in Nat \ {0}
    BY <1>2, InNumbers, LinkChain DEF Link, KInv
  <2>2. \A i \in 1 .. H : Parsed(i)
    <3>1. Parsed(H)
      <4>1. loc.file \in DOMAIN Files /\ Files[loc.file].index = H /\ Usable(Found)
        BY <2>1 DEF KInv, HInv, FileFound, FileRead, Reading
      <4> QED BY <4>1 DEF Parsed, Found
    <3>2. \A i \in 1 .. H - 1 : Parsed(i)
      BY <2>1 DEF KInv, Chained, Passing, Reading
    <3> QED BY <2>1, <3>1, <3>2
  <2>3. /\ \A h \in Numbers : header'[h].next # 0 => h = 1 /\ list' = 1 /\ header'[h].next > 1
        /\ pc' \in Opening => loc'.previous = list'
        /\ pc' \in Passing => H' > 0 /\ Linked' = H' - 1
        /\ pc' \notin {"start", "failed", "open", "closing"}
    <3>1. pc' \in {"hdr", "end"} /\ (pc' = "hdr" => H' = H + 1)
      BY <1>2, LinkMoves DEF H
    <3> QED BY <1>2, <2>1, <3>1, LinkChain, LinkMoves DEF Passing, Reading
  <2>4. \A i \in 1 .. Linked' : Parsed(i)'
    BY <1>1, <1>2, <2>2, LinkChain
  <2> QED BY <1>1, <2>3, <2>4 DEF Chained
<1>3. CASE Close
  BY <1>3 DEF Close, Chained
<1>4. CASE ~Link /\ ~Close
  <2> SUFFICES ASSUME pc' # "closed" PROVE Chained'
    BY DEF Chained
  <2>1. /\ list' = list /\ Linked' = Linked
        /\ \A h \in Numbers : header'[h].next = header[h].next
    BY <1>4, NextsKept
  <2>2. pc # "closed"
    BY <1>4, PcMoves
  <2>3. pc' \in Opening => loc'.previous = list'
    BY <1>1, <1>4, <2>1, <2>2, PcMoves DEF Chained
  <2>4. pc' \in Passing => H' > 0 /\ Linked' = H' - 1
    <3>1. CASE pc \in Passing /\ loc'.index = loc.index
      BY <1>1, <2>1, <2>2, <3>1 DEF Chained, H
    <3>2. CASE pc = "start" /\ loc'.index = 1
      BY <1>1, <2>1, <2>2, <3>2 DEF Chained, H, Linked
    <3> QED BY <1>4, <3>1, <3>2, PcMoves
  <2>5. /\ pc' \in {"start", "failed"} => list' = 0
        /\ pc' \in {"open", "closing"} => list' = 1
    BY <1>1, <1>4, <2>1, <2>2, PcMoves DEF Chained, Types
  <2>6. \A i \in 1 .. Linked' : Parsed(i)'
    BY <1>1, <2>1, <2>2 DEF Chained
  <2>7. \A h \in Numbers : header'[h].next # 0 => h = 1 /\ list' = 1 /\ header'[h].next > 1
    BY <1>1, <2>1, <2>2 DEF Chained
  <2> QED BY <1>1, <2>3, <2>4, <2>5, <2>6, <2>7 DEF Chained
<1> QED BY <1>2, <1>3, <1>4
-----------------------------------------------------------------------------
(* The header that is linked is one of the files.                          *)
LEMMA LinkBound == ASSUME KInv, Link PROVE H \in 1 .. Len(Files)
<1>1. H \in Nat \ {0} /\ Linked = H - 1 /\ \A i \in 1 .. Linked : Parsed(i)
  BY InNumbers, LinkChain DEF KInv, Chained, Link, Passing, Reading
<1>2. Parsed(H)
  <2>1. loc.file \in DOMAIN Files /\ Files[loc.file].index = H /\ Usable(Found)
    BY DEF KInv, HInv, FileFound, FileRead, Reading, Link
  <2> QED BY <2>1 DEF Parsed, Found
<1>3. \A i \in 1 .. H : Parsed(i)
  BY <1>1, <1>2
<1>4. H <= Len(Files)
  BY <1>1, <1>3, ParsedBound DEF KInv
<1> QED BY <1>1, <1>4, FilesAre DEF KInv

LEMMA BoundedKept == ASSUME KInv, [Next]_headerVars PROVE Bounded'
<1>1. /\ Numbers' = Numbers /\ Numbers = 1 .. Len(Files) + 1 /\ Len(Files) \in Nat
      /\ loc \in Locals /\ loc.index \in Numbers \cup {0} /\ loc.previous \in {0, 1}
      /\ list \in {0, 1}
  BY DirectoryKept, FilesAre DEF KInv, Numbers, Types, Bounded
<1>2. CASE Link
  BY <1>1, <1>2, LinkMoves, LinkBound DEF Bounded
<1>3. CASE Start
  BY <1>1, <1>3 DEF Start, Locals, Bounded
<1>4. CASE OpenHdr \/ OpenCab
  BY <1>1, <1>4 DEF OpenHdr, OpenCab, Open, Locals, Bounded
<1>5. CASE NoCab \/ Dispose
  <2>1. loc' = [loc EXCEPT !.iterate = FALSE]
    BY <1>1, <1>5 DEF NoCab, Dispose, Onwards, Stopped, Locals
  <2> QED BY <1>1, <2>1 DEF Locals, Bounded
<1>6. CASE TooSmall \/ NoDataMemory \/ ReadShort \/ ReadData
  BY <1>1, <1>6 DEF TooSmall, NoDataMemory, ReadShort, ReadData, CloseFile, Error, Locals, Bounded
<1>7. CASE BeginClose
  BY <1>1, <1>7 DEF BeginClose, Locals, Bounded
<1>8. CASE CloseHeader
  <2>1. header[H].next \in Numbers \cup {0}
    <3>1. header[H].next \in {0, Linked} /\ Linked \in 0 .. Len(Files)
      BY <1>8, ClosingNumbers, LinkedBound DEF KInv, CloseHeader
    <3> QED BY <1>1, <3>1
  <2> QED BY <1>1, <1>8, <2>1 DEF CloseHeader, Locals, Bounded
<1>9. CASE \/ NoHdr \/ BadHeader \/ NoTableMemory \/ Parse \/ MakeObject \/ WalkOn \/ Crash
           \/ ComponentsDone \/ End \/ Close \/ GetName \/ GetDescriptor \/ UNCHANGED headerVars
  <2>1. loc' = loc
    BY <1>9 DEF NoHdr, NoFile, BadHeader, NoTableMemory, Error, Parse, MakeObject, WalkOn, Crash,
       ComponentsDone, End, Close, GetName, GetDescriptor, headerVars, handleVars
  <2> QED BY <1>1, <2>1 DEF Bounded
<1> QED BY <1>2, <1>3, <1>4, <1>5, <1>6, <1>7, <1>8, <1>9 DEF Next, Work
-----------------------------------------------------------------------------
(* A file is opened.                                                       *)
LEMMA OpenMoves ==
  ASSUME KInv, OpenHdr \/ OpenCab
  PROVE  \E suffix \in {"hdr", "cab"} : \E k \in Lookup(D, H, suffix) :
           /\ suffix = (IF pc = "hdr" THEN "hdr" ELSE "cab") /\ pc \in {"hdr", "cab"}
           /\ pc' = "read" /\ k \in DOMAIN Files /\ Files[k].index = H
           /\ loc'.file = k /\ loc'.index = loc.index /\ loc'.iterate = (suffix = "cab")
           /\ fault' = fault
<1>1. loc \in Locals /\ HInv
  BY DEF KInv, Types
<1>2. CASE OpenHdr
  <2>1. PICK k \in Lookup(D, H, "hdr") :
          loc' = [loc EXCEPT !.file = k, !.open = TRUE, !.iterate = FALSE]
    BY <1>2 DEF OpenHdr, Open, D
  <2>2. k \in DOMAIN Files /\ Files[k].index = H
    BY <1>1, LookupFindsFirst, VisibleFiles
  <2>3. /\ loc'.file = k /\ loc'.index = loc.index /\ loc'.iterate = ("hdr" = "cab")
    BY <1>1, <2>1 DEF Locals
  <2> QED BY <1>2, <2>2, <2>3 DEF OpenHdr, Open
<1>3. CASE OpenCab
  <2>1. PICK k \in Lookup(D, H, "cab") :
          loc' = [loc EXCEPT !.file = k, !.open = TRUE, !.iterate = loc.iterate]
    BY <1>3 DEF OpenCab, Open, D
  <2>2. k \in DOMAIN Files /\ Files[k].index = H
    BY <1>1, LookupFindsFirst, VisibleFiles
  <2>3. loc.iterate = TRUE
    BY <1>1, <1>3 DEF KInv, FileRead, OpenCab, Locals
  <2>4. /\ loc'.file = k /\ loc'.index = loc.index /\ loc'.iterate = ("cab" = "cab")
    BY <1>1, <2>1, <2>3 DEF Locals
  <2> QED BY <1>3, <2>2, <2>4 DEF OpenCab, Open
<1> QED BY <1>2, <1>3

(* The other steps stay with the file they have.                           *)
LEMMA FileStays ==
  ASSUME KInv, [Next]_headerVars, ~Link, ~(OpenHdr \/ OpenCab)
  PROVE  pc' \in Reading \cup {"error"} =>
           /\ pc \in Reading \cup {"error"} /\ (pc' \in Reading => pc \in Reading)
           /\ loc'.file = loc.file /\ loc'.index = loc.index /\ loc'.iterate = loc.iterate
           /\ pc' = "error" => pc = "error" \/ ~Usable(Found) \/ fault'
           /\ fault => fault'
<1> USE DEF Reading
<1>1. loc \in Locals
  BY DEF KInv, Types
<1>2. CASE TooSmall \/ NoDataMemory \/ ReadShort \/ ReadData
  <2>1. loc' = [loc EXCEPT !.open = FALSE] /\ (fault => fault')
    BY <1>2 DEF TooSmall, NoDataMemory, ReadShort, ReadData, CloseFile, Error
  <2>2. pc = "read" /\ (pc' = "error" => fault' \/ Found.size < 4 \/ ~Found.whole)
    BY <1>2 DEF TooSmall, NoDataMemory, ReadShort, ReadData, CloseFile, Error
  <2>3. Found.size < 4 \/ ~Found.whole => ~Usable(Found)
    BY <2>2, UsableIs, FoundIs DEF KInv, HeaderFile
  <2> QED BY <1>1, <2>1, <2>2, <2>3 DEF Locals
<1>3. CASE BadHeader \/ NoTableMemory
  <2>1. pc = "parse" /\ loc' = loc /\ (Unusable(Found) \/ fault') /\ (fault => fault')
    BY <1>3 DEF BadHeader, NoTableMemory, Error
  <2>2. Unusable(Found) => ~Usable(Found)
    BY <2>1, UsableIs, FoundIs DEF KInv
  <2> QED BY <2>1, <2>2
<1>4. CASE Parse \/ MakeObject \/ WalkOn \/ Crash \/ ComponentsDone \/ UNCHANGED headerVars
  BY <1>4 DEF Parse, MakeObject, WalkOn, Crash, ComponentsDone, headerVars, handleVars
<1>5. CASE \/ Start \/ NoHdr \/ NoCab \/ Dispose \/ End \/ Close \/ GetName \/ GetDescriptor
           \/ BeginClose \/ CloseHeader
  BY <1>5 DEF Start, NoHdr, NoFile, NoCab, Dispose, Onwards, End, Close, GetName, GetDescriptor,
     BeginClose, CloseHeader
<1> QED BY <1>2, <1>3, <1>4, <1>5 DEF Next, Work

LEMMA FileReadKept == ASSUME KInv, [Next]_headerVars PROVE FileRead'
<1>1. D' = D /\ Files' = Files /\ FileRead /\ loc \in Locals
  BY DirectoryKept DEF KInv, Types
<1>2. CASE Link
  BY <1>2, LinkMoves DEF FileRead, Reading
<1>3. CASE OpenHdr \/ OpenCab
  <2>1. PICK suffix \in {"hdr", "cab"} : \E k \in Lookup(D, H, suffix) :
           /\ pc' = "read" /\ k \in DOMAIN Files /\ Files[k].index = H
           /\ loc'.file = k /\ loc'.index = loc.index /\ loc'.iterate = (suffix = "cab")
    BY <1>3, OpenMoves
  <2>2. ~loc'.iterate => HasHdr(D, H)
    BY <2>1, LookupFindsFirst DEF KInv, HasHdr
  <2> QED BY <1>1, <2>1, <2>2 DEF FileRead, H
<1>4. CASE ~Link /\ ~(OpenHdr \/ OpenCab)
  <2>1. /\ pc' \in {"start", "hdr", "cab"} => loc'.iterate
        /\ pc' = "parse" => (pc = "parse" \/ (pc = "read" /\ Found.size >= 4 /\ Found.whole))
        /\ pc' \in {"components", "groups"} =>
             pc \in {"components", "groups"} \/ (pc = "parse" /\ ~Unusable(Found))
    <3>1. CASE Start
      BY <1>1, <3>1 DEF Start, FileRead, Locals
    <3>2. CASE NoCab \/ Dispose
      BY <1>1, <3>2 DEF NoCab, Dispose, Onwards, Stopped, Locals
    <3>3. CASE ~(Start \/ NoCab \/ Dispose)
      BY <1>1, <1>4, <3>3 DEF Next, Work, headerVars, handleVars, NoHdr,
       NoFile, TooSmall, NoDataMemory, ReadShort, ReadData, BadHeader, NoTableMemory, Error,
       Parse, MakeObject, WalkOn, Crash, ComponentsDone, End, CloseHeader, Close,
       GetName, GetDescriptor, BeginClose, FileRead
    <3> QED BY <3>1, <3>2, <3>3
  <2>2. pc' \in Reading \cup {"error"} =>
          /\ pc \in Reading \cup {"error"} /\ (pc' \in Reading => pc \in Reading)
          /\ loc'.file = loc.file /\ loc'.index = loc.index /\ loc'.iterate = loc.iterate
    BY <1>4, FileStays
  <2>3. pc' \in Reading => Found' = Found
    BY <1>1, <2>2 DEF Found
  <2>4. pc' \in Reading => Files[loc.file].index = H
    BY <1>1, <2>2 DEF FileRead
  <2>5. pc' \in Reading \cup {"error"} /\ ~loc'.iterate => HasHdr(D, H)
    BY <1>1, <2>2 DEF FileRead
  <2>6. pc' = "parse" => Found.size >= 4 /\ Found.whole
    BY <1>1, <2>1 DEF FileRead
  <2>7. pc' \in {"components", "groups"} => Usable(Found)
    <3>1. CASE pc = "parse" /\ ~Unusable(Found)
      BY <1>1, <3>1, UsableIs, FoundIs DEF FileRead, KInv, Reading
    <3> QED BY <1>1, <2>1, <3>1 DEF FileRead
  <2> QED BY <1>1, <2>1, <2>2, <2>3, <2>4, <2>5, <2>6, <2>7 DEF FileRead, H, Reading
<1> QED BY <1>2, <1>3, <1>4
-----------------------------------------------------------------------------
(* What the directory has.                                                 *)
LEMMA FaultStays == ASSUME KInv, [Next]_headerVars PROVE fault => fault'
  BY DEF Next, Work, headerVars, handleVars, Start, OpenHdr, OpenCab, Open, NoHdr, NoCab,
     NoFile, TooSmall, NoDataMemory, ReadShort, ReadData, BadHeader, NoTableMemory, Error,
     Parse, MakeObject, WalkOn, Crash, ComponentsDone, Dispose, End, CloseHeader, Close,
     GetName, GetDescriptor, BeginClose, Link

(* When the loop ends, the headers were counted.                           *)
LEMMA EndsBefore ==
  ASSUME KInv, ~fault, pc \in Passing, ~Serves(D, H) PROVE Amount(D, Linked)
<1>1. H \in Nat \ {0} /\ Linked = H - 1 /\ (\A i \in 1 .. H - 1 : Serves(D, i) /\ ~HasHdr(D, i))
  BY InNumbers DEF KInv, Chained, Faithful, Passing, Reading
<1>2. Linked + 1 = H
  BY <1>1
<1> QED BY <1>1, <1>2 DEF Amount

LEMMA FaithfulKept == ASSUME KInv, [Next]_headerVars PROVE Faithful'
<1> SUFFICES ASSUME ~fault' PROVE Faithful'
  BY DEF Faithful
<1>1. ~fault /\ D' = D /\ Files' = Files /\ loc \in Locals /\ HInv
  BY DirectoryKept, FaultStays DEF KInv, Types
<1>2. /\ pc \in Passing => \A i \in 1 .. H - 1 : Serves(D, i) /\ ~HasHdr(D, i)
      /\ pc = "cab" => ~HasHdr(D, H)
      /\ pc \in Reading \cup {"error"} /\ loc.iterate => ~HasHdr(D, H)
      /\ pc \in Reading => Source(D, H) = {Found}
      /\ pc = "error" => ~Serves(D, H)
      /\ pc \in {"end", "open", "failed"} => Amount(D, Linked)
  BY <1>1 DEF KInv, Faithful
<1>3. pc \in Passing => H \in Nat \ {0}
  BY InNumbers DEF KInv
<1>4. CASE Link
  <2>1. Serves(D, H) /\ pc \in Passing
    BY <1>2, <1>4 DEF KInv, FileRead, Link, Reading, Passing, Serves
  <2>2. \A i \in 1 .. H : Serves(D, i)
    BY <1>2, <1>3, <2>1
  <2>3. CASE loc.iterate
    <3>1. pc' = "hdr" /\ loc'.index = H + 1
      BY <1>4, <2>3, LinkMoves
    <3>2. ~HasHdr(D, H)
      BY <1>2, <1>4, <2>3 DEF Link, Reading
    <3>3. \A i \in 1 .. H : Serves(D, i) /\ ~HasHdr(D, i)
      BY <1>2, <1>3, <2>1, <2>2, <3>2
    <3>4. H' - 1 = H
      BY <1>3, <2>1, <3>1 DEF H
    <3> QED BY <1>1, <3>1, <3>3, <3>4 DEF Faithful, Reading, Passing
  <2>4. CASE ~loc.iterate
    <3>1. pc' = "end" /\ Linked' = H
      BY <1>4, <2>4, LinkMoves, LinkChain
    <3>2. HasHdr(D, H)
      BY <1>4, <2>4 DEF KInv, FileRead, Link, Reading
    <3>3. Amount(D, H)
      BY <1>2, <1>3, <2>1, <2>2, <3>2 DEF Amount
    <3> QED BY <1>1, <3>1, <3>3 DEF Faithful, Reading, Passing
  <2> QED BY <2>3, <2>4
<1>5. CASE OpenHdr \/ OpenCab
  <2>1. PICK suffix \in {"hdr", "cab"} : \E k \in Lookup(D, H, suffix) :
           /\ suffix = (IF pc = "hdr" THEN "hdr" ELSE "cab") /\ pc \in {"hdr", "cab"}
           /\ pc' = "read" /\ loc'.file = k /\ loc'.index = loc.index
           /\ loc'.iterate = (suffix = "cab")
    BY <1>5, OpenMoves
  <2>2. PICK k \in Lookup(D, H, suffix) : loc'.file = k
    BY <2>1
  <2>3. suffix = (IF HasHdr(D, H) THEN "hdr" ELSE "cab")
    BY <1>1, <1>2, <2>1, <2>2, LookupFindsFirst DEF HasHdr
  <2>4. Source(D, H) = {Files[k].header}
    BY <1>1, <2>3, SourceIsFound
  <2>5. Found' = Files[k].header /\ H' = H
    BY <1>1, <2>1, <2>2 DEF Found, H
  <2>6. loc'.iterate => ~HasHdr(D, H)
    BY <2>1, <2>3
  <2>7. pc \in Passing /\ pc' = "read"
    BY <2>1 DEF Passing
  <2> QED BY <1>1, <1>2, <2>4, <2>5, <2>6, <2>7 DEF Faithful
<1>6. CASE Start
  <2>1. pc' = "hdr" /\ H' = 1
    BY <1>1, <1>6 DEF Start, H, Locals
  <2> QED BY <2>1 DEF Faithful, Reading
<1>7. CASE NoHdr
  <2>1. pc' = "cab" /\ loc' = loc /\ pc = "hdr" /\ Lookup(D, H, "hdr") = {}
    BY <1>7 DEF NoHdr, NoFile, D
  <2>2. ~HasHdr(D, H)
    BY <1>1, <2>1, LookupFindsFirst DEF HasHdr
  <2> QED BY <1>1, <1>2, <2>1, <2>2 DEF Faithful, H, Reading, Passing
<1>8. CASE NoCab
  <2>1. pc' = "end" /\ pc = "cab" /\ Lookup(D, H, "cab") = {}
    BY <1>1, <1>8 DEF NoCab, NoFile, Onwards, Stopped, Locals, D
  <2>2. ~Serves(D, H)
    BY <1>1, <1>2, <2>1, LookupFindsFirst, NothingVisible
  <2>3. Amount(D, Linked)
    BY <1>1, <2>1, <2>2, EndsBefore DEF Passing
  <2>4. Linked' = Linked
    BY <1>8, <2>1, NextsKept DEF Link, Close, NoCab
  <2> QED BY <1>1, <2>1, <2>3, <2>4 DEF Faithful, Reading, Passing
<1>9. CASE Dispose
  <2>1. pc' = "end" /\ pc = "error"
    BY <1>1, <1>9 DEF Dispose, Onwards, Stopped, Locals
  <2>2. Amount(D, Linked)
    BY <1>1, <1>2, <2>1, EndsBefore DEF Passing
  <2>3. Linked' = Linked
    BY <2>1, NextsKept DEF Link, Close
  <2> QED BY <1>1, <2>1, <2>2, <2>3 DEF Faithful, Reading, Passing
<1>10. CASE pc' \in Reading \cup {"error"} /\ ~(OpenHdr \/ OpenCab) /\ ~Link
  <2>1. /\ pc \in Reading \cup {"error"} /\ (pc' \in Reading => pc \in Reading)
        /\ loc'.file = loc.file /\ loc'.index = loc.index /\ loc'.iterate = loc.iterate
        /\ pc' = "error" => pc = "error" \/ ~Usable(Found)
    BY <1>10, FileStays
  <2>2. H' = H /\ Found' = Found
    BY <1>1, <2>1 DEF H, Found
  <2>3. pc' = "error" => ~Serves(D, H)
    BY <1>2, <2>1 DEF Serves, Reading
  <2>4. pc \in Passing /\ pc' \in Passing /\ pc' \notin {"cab", "end", "open", "failed"}
    BY <1>10, <2>1 DEF Passing, Reading
  <2> QED BY <1>1, <1>2, <2>1, <2>2, <2>3, <2>4 DEF Faithful
<1>11. CASE /\ pc' \notin Reading \cup {"error"}
            /\ ~(Link \/ OpenHdr \/ OpenCab \/ Start \/ NoHdr \/ NoCab \/ Dispose)
  <2>1. CASE UNCHANGED headerVars
    BY <1>1, <1>2, <2>1, NextsKept DEF headerVars, handleVars, Faithful, H, Found, Linked
  <2>2. CASE End \/ GetName \/ GetDescriptor
    <3>1. pc' \in {"open", "failed"} /\ pc \in {"end", "open"} /\ Linked' = Linked
      BY <2>2, NextsKept DEF End, GetName, GetDescriptor, Link, Close
    <3> QED BY <1>1, <1>2, <3>1 DEF Faithful, Reading, Passing
  <2>3. CASE BeginClose \/ CloseHeader \/ Close \/ Crash
    <3>1. pc' \in {"closing", "closed", "aborted"}
      BY <2>3 DEF BeginClose, CloseHeader, Close, Crash
    <3> QED BY <3>1 DEF Faithful, Reading, Passing
  <2>4. CASE TooSmall \/ NoDataMemory \/ ReadShort \/ ReadData \/ BadHeader \/ NoTableMemory
             \/ Parse \/ MakeObject \/ WalkOn \/ ComponentsDone
    BY <1>11, <2>4 DEF TooSmall, NoDataMemory, ReadShort, ReadData, BadHeader, NoTableMemory, Error,
       Parse, MakeObject, WalkOn, ComponentsDone, handleVars, Reading
  <2> QED BY <1>11, <2>1, <2>2, <2>3, <2>4 DEF Next, Work
<1> QED BY <1>4, <1>5, <1>6, <1>7, <1>8, <1>9, <1>10, <1>11
-----------------------------------------------------------------------------
(* The components and file groups.                                         *)
LEMMA FirstKept ==
  ASSUME KInv, [Next]_headerVars, list = 1, ~Close
  PROVE  /\ header'[1].components = header[1].components
         /\ header'[1].groups = header[1].groups
<1>1. header \in [Numbers -> HeaderObject] /\ 1 \in Numbers
      /\ (pc \in Passing => H \in Numbers /\ H # 1)
  <2>1. pc \in Passing => Linked = H - 1 /\ H \in Nat /\ Linked # 0
    BY InNumbers DEF KInv, Chained, Types, HeaderObject, Linked, Passing, Reading
  <2> QED BY <2>1, InNumbers DEF KInv, Types
<1>2. CASE Link
  <2>1. H # 1
    BY <1>1, <1>2 DEF Link, Passing, Reading
  <2> QED BY <1>1, <1>2, <2>1, LinkChain
<1>3. CASE Parse \/ ComponentsDone
  <2>1. H \in Numbers /\ H # 1 /\ \E o : header' = [header EXCEPT ![H] = o]
    BY <1>1, <1>3 DEF Parse, ComponentsDone, Passing, Reading
  <2> QED BY <1>1, <2>1
<1>4. CASE ~Link /\ ~(Parse \/ ComponentsDone)
  <2>1. header' = header
    BY <1>4 DEF Next, Work, headerVars, handleVars, Start, OpenHdr, OpenCab, Open, NoHdr, NoCab,
     NoFile, TooSmall, NoDataMemory, ReadShort, ReadData, BadHeader, NoTableMemory, Error,
     MakeObject, WalkOn, Crash, Dispose, End, CloseHeader, Close, GetName, GetDescriptor, BeginClose
  <2> QED BY <2>1
<1> QED BY <1>2, <1>3, <1>4

LEMMA ServedKept == ASSUME KInv, [Next]_headerVars PROVE Served'
<1>1. Files' = Files /\ Served /\ OInv /\ list \in {0, 1}
  BY DirectoryKept DEF KInv, Types
<1>2. pc' = "components" => table' = Found'.components
  <2>1. CASE Parse
    BY <1>1, <2>1 DEF Parse, StartWalk, Found
  <2>2. CASE MakeObject \/ WalkOn \/ UNCHANGED headerVars
    BY <1>1, <2>2 DEF MakeObject, Take, WalkOn, NextSlot, WalkEnd, headerVars, handleVars, Served,
       Found
  <2>3. CASE ~(Parse \/ MakeObject \/ WalkOn \/ UNCHANGED headerVars)
    BY <2>3 DEF Next, Work, Start, OpenHdr, OpenCab, Open, NoHdr, NoCab,
     NoFile, TooSmall, NoDataMemory, ReadShort, ReadData, BadHeader, NoTableMemory, Error,
     Crash, ComponentsDone, Dispose, End, CloseHeader, Close, GetName, GetDescriptor, BeginClose,
     Link, Onwards
  <2> QED BY <2>1, <2>2, <2>3
<1>3. pc' = "groups" =>
        table' = Found'.groups /\ header'[H'].components = AllEntries(Found'.components)
  <2>1. CASE ComponentsDone
    <3>1. table' = Found'.groups /\ Found' = Found /\ H' = H /\ pc = "components"
      BY <1>1, <2>1 DEF ComponentsDone, StartWalk, Found, H
    <3>2. items = AllEntries(table) /\ table = Found.components
      BY <1>1, <2>1, DoneHasAll DEF ComponentsDone, Served
    <3>3. header'[H].components = items
      <4>1. H \in Numbers /\ header \in [Numbers -> HeaderObject]
        BY <3>1, InNumbers DEF KInv, Types, Passing, Reading
      <4>2. header' = [header EXCEPT ![H].components = items]
        BY <2>1 DEF ComponentsDone
      <4> QED BY <4>1, <4>2 DEF HeaderObject
    <3> QED BY <3>1, <3>2, <3>3
  <2>2. CASE MakeObject \/ WalkOn \/ UNCHANGED headerVars
    BY <1>1, <2>2 DEF MakeObject, Take, WalkOn, NextSlot, WalkEnd, headerVars, handleVars, Served,
       Found, H
  <2>3. CASE ~(ComponentsDone \/ MakeObject \/ WalkOn \/ UNCHANGED headerVars)
    BY <2>3 DEF Next, Work, Start, OpenHdr, OpenCab, Open, NoHdr, NoCab,
     NoFile, TooSmall, NoDataMemory, ReadShort, ReadData, BadHeader, NoTableMemory, Error,
     Crash, Parse, Dispose, End, CloseHeader, Close, GetName, GetDescriptor, BeginClose,
     Link, Onwards
  <2> QED BY <2>1, <2>2, <2>3
<1>4. list' = 1 => \E k \in DOMAIN Files : Files[k].index = 1 /\ FromLists(1, k)'
  <2>1. CASE list = 1 /\ list' = 1
    <3>1. ~Close
      BY <2>1 DEF Close
    <3> QED BY <1>1, <2>1, <3>1, FirstKept DEF Served, FromLists
  <2>2. CASE list # 1 /\ list' = 1
    <3>1. Link
      BY <2>2, NextsKept DEF Close
    <3>2. list = 0 /\ H = 1
      BY <1>1, <2>2, <3>1, LinkChain DEF Linked
    <3>3. /\ header'[1].components = AllEntries(Found.components)
          /\ header'[1].groups = AllEntries(Found.groups)
      BY <1>1, <3>1, <3>2, LinkChain, DoneHasAll DEF Served, Link
    <3>4. loc.file \in DOMAIN Files /\ Files[loc.file].index = 1
      BY <3>1, <3>2 DEF KInv, HInv, FileFound, FileRead, Reading, Link
    <3> QED BY <1>1, <3>3, <3>4 DEF FromLists, Found
  <2> QED BY <2>1, <2>2
<1> QED BY <1>1, <1>2, <1>3, <1>4 DEF Served
-----------------------------------------------------------------------------
(* What is allocated.  Opening changes the row of the header it reads.     *)
LEMMA OtherRows ==
  ASSUME KInv, [Next]_headerVars, pc \in Opening,
         NEW h \in Numbers, pc \in Passing => h # H
  PROVE  /\ heap'[h] = heap[h]
         /\ header'[h].components = header[h].components /\ header'[h].groups = header[h].groups
<1> USE DEF Opening, Passing, Reading
<1>1. heap \in [Numbers -> [Kind -> Nat]] /\ header \in [Numbers -> HeaderObject]
  BY DEF KInv, Types
<1>2. CASE OpenHdr \/ OpenCab \/ ReadShort \/ ReadData
  <2>1. h # H /\ header' = header /\ \E kind : heap' = Allocated(kind, 1)
    BY <1>2 DEF OpenHdr, OpenCab, Open, ReadShort, ReadData, Error
  <2> QED BY <1>1, <2>1 DEF Allocated
<1>3. CASE Parse \/ ComponentsDone
  <2>1. /\ h # H /\ \E row : heap' = [heap EXCEPT ![H] = row]
        /\ \E o : header' = [header EXCEPT ![H] = o]
    BY <1>3 DEF Parse, ComponentsDone, Allocated
  <2> QED BY <1>1, <2>1
<1>4. CASE MakeObject
  <2>1. h # H /\ header' = header
    BY <1>4 DEF MakeObject
  <2> QED BY <1>4, <2>1, MakeObjectHeap
<1>5. CASE Link
  BY <1>5, LinkChain DEF Link
<1>6. CASE Dispose
  <2>1. h # H /\ header' = header /\ \E row : heap' = [heap EXCEPT ![H] = row]
    BY <1>6 DEF Dispose
  <2> QED BY <1>1, <2>1
<1>7. CASE \/ Start \/ NoHdr \/ NoCab \/ TooSmall \/ NoDataMemory \/ BadHeader \/ NoTableMemory
           \/ WalkOn \/ Crash \/ End \/ UNCHANGED headerVars
  <2>1. heap' = heap /\ header' = header
    BY <1>7 DEF Start, NoHdr, NoFile, NoCab, TooSmall, NoDataMemory, BadHeader, NoTableMemory,
       Error, WalkOn, Crash, End, headerVars, handleVars
  <2> QED BY <2>1
<1>8. CASE CloseHeader \/ Close \/ GetName \/ GetDescriptor \/ BeginClose
  BY <1>8 DEF CloseHeader, Close, GetName, GetDescriptor, BeginClose
<1> QED BY <1>2, <1>3, <1>4, <1>5, <1>6, <1>7, <1>8 DEF Next, Work

(* The first row is all that clients change.                               *)
LEMMA ClientRows ==
  ASSUME KInv, GetName \/ GetDescriptor
  PROVE  /\ list = 1 /\ 1 \in Numbers /\ header' = header
         /\ \A h \in Numbers \ {1} : heap'[h] = heap[h]
         /\ \A k \in Kind \ {"string", "descriptors", "descriptor"} : heap'[1][k] = heap[1][k]
         /\ heap'[1].descriptors = 1 \/ (NoDescriptors(1) <=> NoDescriptors(1)')
         /\ heap'[1].descriptors \in {1, heap[1].descriptors}
<1>1. /\ heap \in [Numbers -> [Kind -> Nat]] /\ list = 1 /\ 1 \in Numbers /\ header' = header
      /\ {"string", "descriptors", "descriptor"} \subseteq Kind
  BY InNumbers DEF KInv, Types, Chained, GetName, GetDescriptor, Kind
<1>2. CASE GetName
  <2>1. heap' = [heap EXCEPT ![1].string = @ + Strings(1, 1)]
    BY <1>1, <1>2 DEF GetName
  <2> QED BY <1>1, <2>1 DEF NoDescriptors
<1>3. CASE GetDescriptor
  <2>1. heap' = [heap EXCEPT ![1].descriptors = 1, ![1].descriptor = @ + 1]
    BY <1>1, <1>3 DEF GetDescriptor
  <2> QED BY <1>1, <2>1 DEF NoDescriptors
<1> QED BY <1>2, <1>3

LEMMA BeingReadKept == ASSUME KInv, [Next]_headerVars PROVE BeingRead'
<1>1. /\ heap \in [Numbers -> [Kind -> Nat]] /\ header \in [Numbers -> HeaderObject]
      /\ items \in Seq(Items) /\ BeingRead /\ loc \in Locals
      /\ {"header", "data", "table", "component", "group", "groups", "components",
          "descriptor", "descriptors"} \subseteq Kind
  BY DEF KInv, Types, OInv, WInv, ArrayFits, Allocations, Kind
<1>2. pc \in Passing => H \in Numbers
  BY InNumbers DEF KInv
<1>3. CASE OpenHdr \/ OpenCab
  <2>1. /\ pc' = "read" /\ H' = H /\ H \in Numbers /\ heap' = Allocated("header", 1)
        /\ pc \in {"hdr", "cab"}
    BY <1>1, <1>2, <1>3 DEF OpenHdr, OpenCab, Open, H, Locals, Passing
  <2>2. Nothing(H)
    <3>1. H > Linked
      BY <2>1, InNumbers DEF KInv, Chained, Passing
    <3> QED BY <2>1, <3>1 DEF KInv, Allocations, Opening, Reading
  <2>3. \A k \in Kind : heap'[H][k] = IF k = "header" THEN 1 ELSE 0
    BY <1>1, <2>1, <2>2, AllocatedHeap DEF Nothing
  <2> QED BY <2>1, <2>3 DEF BeingRead, Just
<1>4. CASE TooSmall \/ NoDataMemory
  <2>1. pc' = "error" /\ H' = H /\ heap' = heap /\ pc = "read"
    BY <1>1, <1>4 DEF TooSmall, NoDataMemory, Error, CloseFile, H, Locals
  <2>2. Just(H, {"header"})'
    BY <1>1, <2>1 DEF BeingRead, Just
  <2> QED BY <2>1, <2>2 DEF BeingRead
<1>5. CASE ReadShort \/ ReadData
  <2>1. /\ pc' \in {"error", "parse"} /\ H' = H /\ H \in Numbers /\ pc = "read"
        /\ heap' = Allocated("data", 1)
    BY <1>1, <1>2, <1>5 DEF ReadShort, ReadData, Error, CloseFile, H, Locals, Passing, Reading
  <2>2. \A k \in Kind : heap'[H][k] = IF k \in {"header", "data"} THEN 1 ELSE 0
    <3>1. "data" \in Kind /\ \A k \in Kind : heap[H][k] = IF k \in {"header"} THEN 1 ELSE 0
      BY <1>1, <2>1 DEF BeingRead, Just
    <3>2. \A k \in Kind : heap'[H][k] = IF k = "data" THEN heap[H][k] + 1 ELSE heap[H][k]
      BY <2>1, <3>1, AllocatedHeap
    <3> QED BY <3>1, <3>2
  <2>3. Just(H, {"header", "data"})'
    BY <2>1, <2>2 DEF Just
  <2> QED BY <2>1, <2>3 DEF BeingRead
<1>6. CASE BadHeader \/ NoTableMemory
  <2>1. pc' = "error" /\ H' = H /\ heap' = heap /\ pc = "parse"
    BY <1>6 DEF BadHeader, NoTableMemory, Error, H
  <2>2. Just(H, {"header", "data"})'
    BY <1>1, <2>1 DEF BeingRead, Just
  <2> QED BY <2>1, <2>2 DEF BeingRead
<1>7. CASE Parse
  <2>1. /\ pc' = "components" /\ H' = H /\ H \in Numbers /\ pc = "parse" /\ items' = <<>>
        /\ heap' = [heap EXCEPT ![H].table = @ + 1, ![H].components = @ + 1]
    BY <1>2, <1>7 DEF Parse, StartWalk, H, Passing, Reading
  <2>2. /\ heap'[H].component = heap[H].component /\ heap'[H].group = heap[H].group
        /\ heap'[H].descriptors = heap[H].descriptors /\ heap'[H].descriptor = heap[H].descriptor
    BY <1>1, <2>1
  <2>3. Len(items') = 0
    BY <2>1
  <2> QED BY <1>1, <2>1, <2>2, <2>3 DEF BeingRead, Just, NoDescriptors
<1>8. CASE MakeObject
  <2>1. /\ pc' = pc /\ H' = H /\ pc \in {"components", "groups"} /\ header' = header
        /\ items' = Append(items, Entry.item)
    BY <1>8 DEF MakeObject, Take, H
  <2>2. Len(items') = Len(items) + 1
    BY <1>1, <2>1
  <2>3. CASE pc = "components"
    <3>1. Object = "component"
      BY <2>3 DEF Object
    <3> QED BY <1>1, <1>8, <2>1, <2>2, <2>3, <3>1, MakeObjectHeap DEF BeingRead, NoDescriptors
  <2>4. CASE pc = "groups"
    <3>1. Object = "group"
      BY <2>4 DEF Object
    <3> QED BY <1>1, <1>8, <2>1, <2>2, <2>4, <3>1, MakeObjectHeap DEF BeingRead, NoDescriptors
  <2> QED BY <2>1, <2>3, <2>4
<1>9. CASE ComponentsDone
  <2>1. /\ pc' = "groups" /\ H' = H /\ H \in Numbers /\ pc = "components" /\ items' = <<>>
        /\ heap' = Allocated("groups", 1) /\ header' = [header EXCEPT ![H].components = items]
    BY <1>2, <1>9 DEF ComponentsDone, StartWalk, H, Passing, Reading
  <2>2. /\ heap'[H].component = heap[H].component /\ heap'[H].group = heap[H].group
        /\ heap'[H].descriptors = heap[H].descriptors /\ heap'[H].descriptor = heap[H].descriptor
    BY <1>1, <2>1, AllocatedHeap
  <2>3. Len(items') = 0 /\ header'[H].components = items
    BY <1>1, <2>1 DEF HeaderObject
  <2> QED BY <1>1, <2>1, <2>2, <2>3 DEF BeingRead, NoDescriptors
<1>10. CASE WalkOn \/ UNCHANGED headerVars
  <2>1. pc' = pc /\ H' = H /\ heap' = heap /\ header' = header /\ items' = items
    BY <1>10 DEF WalkOn, NextSlot, WalkEnd, headerVars, handleVars, H
  <2>2. \A kinds : Just(H, kinds)' <=> Just(H, kinds)
    BY <2>1 DEF Just
  <2> QED BY <1>1, <2>1, <2>2 DEF BeingRead, NoDescriptors
<1>11. CASE \/ Start \/ NoHdr \/ NoCab \/ Crash \/ Link \/ Dispose \/ End \/ CloseHeader \/ Close
            \/ GetName \/ GetDescriptor \/ BeginClose
  <2>1. pc' \notin Reading \cup {"error"}
    BY <1>11 DEF Start, NoHdr, NoCab, Crash, Link, Dispose, Onwards, End, CloseHeader, Close,
       GetName, GetDescriptor, BeginClose, Reading
  <2> QED BY <2>1 DEF BeingRead, Reading
<1> QED BY <1>3, <1>4, <1>5, <1>6, <1>7, <1>8, <1>9, <1>10, <1>11 DEF Next, Work

(* The headers in the list are whole.                                      *)
LEMMA WholeKept ==
  ASSUME KInv, [Next]_headerVars
  PROVE  pc' \in Opening \cup {"open"} => \A h \in 1 .. Linked' : Whole(h)'
<1>1. /\ pc \in Opening \cup {"open"} => \A h \in 1 .. Linked : Whole(h)
      /\ 1 \in Numbers /\ (pc # "closed" => 1 .. Linked \subseteq Numbers)
  BY InNumbers DEF KInv, Allocations
<1>2. CASE Link
  <2>1. /\ Linked' = H /\ pc = "groups" /\ pc \in Opening /\ heap' = heap /\ H \in Nat \ {0}
        /\ 1 .. Linked \subseteq Numbers /\ H = Linked + 1 /\ H \in Numbers
        /\ Linked \in Nat
    BY <1>1, <1>2, LinkChain, InNumbers, LinkedIsNumber DEF Link, Opening, Reading, KInv
  <2>2. ASSUME NEW h \in 1 .. H, h # H PROVE Whole(h)'
    <3>1. Whole(h) /\ h \in Numbers
      BY <1>1, <2>1, <2>2
    <3> QED BY <2>1, <2>2, <3>1, OtherRows DEF Whole, NoDescriptors
  <2>3. ASSUME NEW h, h = H PROVE Whole(h)'
    <3>1. /\ heap[H].component = Len(header[H].components) /\ heap[H].group = Len(items)
          /\ NoDescriptors(H)
      BY <2>1 DEF KInv, Allocations, BeingRead
    <3> QED BY <1>2, <2>1, <2>3, <3>1, LinkChain DEF Whole, NoDescriptors
  <2> QED BY <2>1, <2>2, <2>3
<1>3. CASE ~Link /\ pc' \in Opening
  <2>1. pc \in Opening /\ Linked' = Linked
    BY <1>3, PcMoves, NextsKept DEF Close, Opening, Reading
  <2>2. ASSUME NEW h \in 1 .. Linked PROVE Whole(h)'
    <3>1. Whole(h) /\ h \in Numbers
      BY <1>1, <2>1 DEF Opening, Reading
    <3>2. pc \in Passing => h # H
      BY <2>1, LinkedIsNumber, InNumbers DEF KInv, Chained, Passing, Reading
    <3> QED BY <2>1, <3>1, <3>2, OtherRows DEF Whole, NoDescriptors
  <2> QED BY <2>1, <2>2
<1>4. CASE ~Link /\ pc' = "open" /\ pc = "end"
  <2>1. heap' = heap /\ header' = header /\ Linked' = Linked /\ pc \in Opening
    BY <1>4, NextsKept DEF Next, Work, headerVars, handleVars, Start, OpenHdr, OpenCab, Open, NoHdr,
     NoCab, NoFile, TooSmall, NoDataMemory, ReadShort, ReadData, BadHeader, NoTableMemory, Error,
     Parse, MakeObject, WalkOn, Crash, ComponentsDone, Dispose, End, CloseHeader, Close,
     GetName, GetDescriptor, BeginClose, Opening
  <2> QED BY <1>1, <2>1 DEF Whole, NoDescriptors
<1>5. CASE ~Link /\ pc' = "open" /\ pc = "open"
  <2>1. Linked' = Linked
    BY <1>5, NextsKept DEF Close
  <2>2. CASE UNCHANGED headerVars
    BY <1>1, <1>5, <2>1, <2>2 DEF headerVars, handleVars, Whole, NoDescriptors
  <2>3. CASE GetName \/ GetDescriptor
    <3>1. ASSUME NEW h \in 1 .. Linked, h # 1 PROVE Whole(h)'
      <4>1. Whole(h) /\ h \in Numbers
        BY <1>1, <1>5
      <4> QED BY <2>3, <3>1, <4>1, ClientRows DEF Whole, NoDescriptors
    <3>2. ASSUME 1 \in 1 .. Linked PROVE Whole(1)'
      <4>1. Whole(1) /\ {"component", "group"} \subseteq Kind
        BY <1>1, <1>5, <3>2 DEF Kind
      <4> QED BY <2>3, <4>1, ClientRows DEF Whole, NoDescriptors, Kind
    <3> QED BY <2>1, <3>1, <3>2
  <2>4. CASE ~(UNCHANGED headerVars \/ GetName \/ GetDescriptor)
    BY <1>5, <2>4 DEF Next, Work, Start, OpenHdr, OpenCab, Open, NoHdr,
     NoCab, NoFile, TooSmall, NoDataMemory, ReadShort, ReadData, BadHeader, NoTableMemory, Error,
     Parse, MakeObject, WalkOn, Crash, ComponentsDone, Dispose, End, CloseHeader, Close, BeginClose
  <2> QED BY <2>2, <2>3, <2>4
<1> QED BY <1>2, <1>3, <1>4, <1>5, PcMoves

(* There is nothing yet for the others, except for the one being read.     *)
LEMMA NothingElse ==
  ASSUME KInv, [Next]_headerVars, pc' \in Opening \cup {"open", "failed"},
         NEW h \in Numbers, h > Linked', pc' \in Reading \cup {"error"} => h # H'
  PROVE  Nothing(h)'
<1>1. /\ pc \in Opening \cup {"open", "failed"} =>
           (h > Linked /\ (pc \in Reading \cup {"error"} => h # H) => Nothing(h))
      /\ H \in Int /\ loc \in Locals
  BY DEF KInv, Allocations, Types, Locals, H
<1>2. CASE Link
  <2>1. h # H /\ h > Linked /\ pc \in Opening
    <3>1. H \in Nat /\ H = Linked + 1 /\ Linked' = H /\ h \in Nat
      BY <1>2, LinkChain, InNumbers DEF KInv
    <3>2. Linked \in Nat
      BY <1>2, LinkedIsNumber DEF KInv, Link
    <3> QED BY <1>2, <3>1, <3>2 DEF Link, Opening, Reading
  <2> QED BY <1>1, <2>1, OtherRows DEF Nothing
<1>3. CASE Dispose
  <2>1. /\ Linked' = Linked /\ pc = "error" /\ pc \in Opening /\ pc \in Passing
        /\ heap' = [heap EXCEPT ![H] = [k \in Kind |-> IF k \in Disposed THEN 0 ELSE @[k]]]
    BY <1>3, NextsKept DEF Dispose, Link, Close, Opening, Passing
  <2>2. CASE h = H
    <3>1. \A k \in Kind : heap'[h][k] = IF k \in Disposed THEN 0 ELSE heap[h][k]
      BY <2>1, <2>2 DEF KInv, Types
    <3>2. \A k \in Kind \ Disposed : heap[h][k] = 0
      BY <2>1, <2>2 DEF KInv, Allocations, BeingRead, Just, Disposed
    <3> QED BY <3>1, <3>2 DEF Nothing
  <2>3. CASE h # H
    BY <1>1, <2>1, <2>3, OtherRows DEF Nothing
  <2> QED BY <2>2, <2>3
<1>4. CASE ~Link /\ ~Dispose /\ pc \in Opening
  <2>1. Linked' = Linked
    BY <1>4, NextsKept DEF Close, Opening, Reading
  <2>2. CASE pc \in Reading \cup {"error"}
    <3>1. pc' \in Reading \cup {"error"} /\ H' = H
      <4>1. pc' \in Reading \cup {"error"}
        BY <1>4, <2>2 DEF Next, Work, headerVars, handleVars, Start, OpenHdr, OpenCab, Open, NoHdr,
         NoCab, NoFile, TooSmall, NoDataMemory, ReadShort, ReadData, BadHeader, NoTableMemory, Error,
         Parse, MakeObject, WalkOn, Crash, ComponentsDone, End, CloseHeader, Close, GetName,
         GetDescriptor, BeginClose, Reading, Opening
      <4>2. ~(OpenHdr \/ OpenCab)
        BY <2>2 DEF OpenHdr, OpenCab, Reading
      <4> QED BY <1>4, <4>1, <4>2, FileStays DEF H
    <3>2. h # H
      BY <3>1
    <3> QED BY <1>1, <1>4, <2>1, <2>2, <3>2, OtherRows DEF Nothing
  <2>3. CASE pc \notin Reading \cup {"error"}
    <3>1. Nothing(h)
      BY <1>1, <1>4, <2>1, <2>3
    <3>2. CASE pc \in Passing /\ h = H
      <4>1. ~(OpenHdr \/ OpenCab)
        <5>1. SUFFICES ASSUME OpenHdr \/ OpenCab PROVE FALSE
          OBVIOUS
        <5>2. pc' = "read" /\ H' = H
          BY <5>1, OpenMoves DEF H
        <5> QED BY <3>2, <5>2 DEF Reading
      <4>2. heap' = heap
        BY <1>4, <2>3, <3>2, <4>1 DEF Next, Work, headerVars, handleVars, Start, NoHdr,
         NoCab, NoFile, TooSmall, NoDataMemory, ReadShort, ReadData, BadHeader, NoTableMemory, Error,
         Parse, MakeObject, WalkOn, Crash, ComponentsDone, End, CloseHeader, Close, GetName,
         GetDescriptor, BeginClose, Reading, Passing
      <4> QED BY <3>1, <4>2 DEF Nothing
    <3>3. CASE ~(pc \in Passing /\ h = H)
      BY <1>4, <3>1, <3>3, OtherRows DEF Nothing
    <3> QED BY <3>2, <3>3
  <2> QED BY <2>2, <2>3
<1>5. CASE pc \notin Opening
  <2>1. ~Link /\ pc' \in {"open", "failed"} /\ pc' = pc
    BY <1>5, PcMoves DEF Link, Opening, Reading
  <2>2. Linked' = Linked
    BY <2>1, NextsKept DEF Close
  <2>3. Nothing(h)
    BY <1>1, <2>1, <2>2 DEF Reading
  <2>4. CASE GetName \/ GetDescriptor
    <3>1. h # 1
      <4>1. list = 1 /\ Linked \in Nat /\ header[1].next \in Nat
        BY <2>1, <2>4, LinkedIsNumber, ClientRows DEF KInv, Types, HeaderObject
      <4> QED BY <2>2, <4>1 DEF Linked
    <3> QED BY <2>3, <2>4, <3>1, ClientRows DEF Nothing
  <2>5. CASE ~(GetName \/ GetDescriptor)
    <3>1. heap' = heap
      BY <2>1, <2>5 DEF Next, Work, headerVars, handleVars, Start, OpenHdr, OpenCab, Open, NoHdr,
       NoCab, NoFile, TooSmall, NoDataMemory, ReadShort, ReadData, BadHeader, NoTableMemory, Error,
       Parse, MakeObject, WalkOn, Crash, ComponentsDone, End, CloseHeader, Close, Link, Dispose,
       BeginClose
    <3> QED BY <2>3, <3>1 DEF Nothing
  <2> QED BY <2>4, <2>5
<1> QED BY <1>2, <1>3, <1>4, <1>5

LEMMA AllocationsKept == ASSUME KInv, [Next]_headerVars PROVE Allocations'
<1>1. Numbers' = Numbers
  BY DirectoryKept
<1>2. BeingRead' /\ (pc' \in Opening \cup {"open"} => \A h \in 1 .. Linked' : Whole(h)')
  BY BeingReadKept, WholeKept
<1>3. pc' \in Opening \cup {"open", "failed"} =>
        \A h \in Numbers : h > Linked' /\ (pc' \in Reading \cup {"error"} => h # H') => Nothing(h)'
  BY NothingElse
<1> QED BY <1>1, <1>2, <1>3 DEF Allocations
-----------------------------------------------------------------------------
(* The header after the first is the last one.                             *)
LEMMA BeginCloseClosing == ASSUME KInv, BeginClose PROVE Closing'
<1>1. /\ pc = "open" /\ pc' = "closing" /\ H' = 1 /\ heap' = heap /\ header' = header
      /\ list' = list /\ list = 1 /\ Numbers' = Numbers
  BY DEF BeginClose, H, KInv, Types, Locals, Chained, Numbers, Files
<1>2. /\ \A h \in 1 .. Linked : Whole(h)
      /\ \A h \in Numbers : h > Linked => Nothing(h)
  BY <1>1 DEF KInv, Allocations, Reading
<1>3. Linked' = Linked /\ Linked \in Nat \ {0} /\ Numbers \subseteq Nat \ {0}
  <2>1. header[1].next \in Nat /\ Numbers \subseteq Nat \ {0}
    BY InNumbers DEF KInv, Types, HeaderObject
  <2> QED BY <1>1, <2>1 DEF Linked
<1>4. Whole(1) /\ Whole(Linked)
  BY <1>2, <1>3
<1>5. ASSUME NEW h \in Numbers, h \notin 2 .. Linked - 1, h # 1, h # Linked PROVE Nothing(h)
  <2>1. h > Linked
    BY <1>3, <1>5
  <2> QED BY <1>2, <2>1
<1>6. (\A h : Whole(h)' <=> Whole(h)) /\ (\A h : Nothing(h)' <=> Nothing(h))
  BY <1>1 DEF Whole, NoDescriptors, Nothing
<1>7. Whole(H)' /\ Whole(Linked)'
  <2>1. \A h : h = H' => Whole(h)'
    BY <1>1, <1>4, <1>6
  <2>2. \A h : h = Linked' => Whole(h)'
    BY <1>3, <1>4, <1>6
  <2> QED BY <2>1, <2>2
<1> QED BY <1>1, <1>3, <1>5, <1>6, <1>7 DEF Closing

LEMMA CloseHeaderClosing == ASSUME KInv, CloseHeader PROVE Closing'
<1>1. /\ pc = "closing" /\ pc' = "closing" /\ H' = header[H].next /\ header' = header /\ H # 0
      /\ list' = list /\ list = 1 /\ Numbers' = Numbers
  BY DEF CloseHeader, H, KInv, Types, Locals, Chained, Numbers, Files
<1>2. /\ H \in {1, Linked} /\ (H = 1 => Whole(Linked))
      /\ \A h \in Numbers : h \in 2 .. Linked - 1 \/ h = H \/ (H = 1 /\ h = Linked) \/ Nothing(h)
  BY <1>1 DEF KInv, Closing
<1>3. Linked' = Linked /\ Linked \in Nat \ {0} /\ Linked \in Numbers
  <2>1. header[1].next \in Nat /\ 1 .. Linked \subseteq Numbers
    BY <1>1, InNumbers DEF KInv, Types, HeaderObject
  <2> QED BY <1>1, <2>1 DEF Linked
<1>4. H' # 0 => H = 1 /\ H' = Linked /\ Linked > 1
  <2>1. H' # 0 => H = 1 /\ H' > 1
    BY <1>1, ClosingNumbers DEF KInv, Chained
  <2> QED BY <1>1, <2>1 DEF Linked
<1>5. /\ \A h \in Numbers \ {H} : (Whole(h)' <=> Whole(h)) /\ (Nothing(h)' <=> Nothing(h))
      /\ \A h : h = H => Nothing(h)'
  BY <1>1, CloseHeaderHeap DEF Whole, NoDescriptors, Nothing
<1>6. H' # 0 => Whole(H)'
  <2>1. \A h : h = H' /\ h # 0 => Whole(h)'
    BY <1>2, <1>3, <1>4, <1>5
  <2> QED BY <2>1
<1>7. H' = 0 /\ H = 1 => Linked = 1
  BY <1>1 DEF Linked
<1>8. \A h \in Numbers : h \in 2 .. Linked - 1 \/ h = H' \/ Nothing(h)'
  BY <1>2, <1>4, <1>5, <1>7
<1> QED BY <1>1, <1>3, <1>4, <1>6, <1>8 DEF Closing

LEMMA TwoAtMost == ASSUME KInv, pc # "closed", AtMostTwo(D) PROVE Linked <= 2
<1>1. Linked \in Nat /\ \A i \in 1 .. Linked : Parsed(i)
  BY LinkedIsNumber DEF KInv, Chained
<1>2. SUFFICES ASSUME Linked > 2 PROVE FALSE
  BY <1>1
<1>3. PICK k \in DOMAIN Files : Files[k].index = Linked /\ Usable(Files[k].header)
  BY <1>1, <1>2 DEF Parsed
<1> QED BY <1>2, <1>3, FilesAre DEF AtMostTwo, KInv

LEMMA CloseClosing == ASSUME KInv, Close PROVE Closing'
<1>1. /\ pc = "closing" /\ pc' = "closed" /\ H = 0 /\ heap' = heap /\ Numbers' = Numbers
      /\ D' = D
  BY DEF Close, Numbers, Files, D
<1>2. \A h \in Numbers : h \in 2 .. Linked - 1 \/ Nothing(h)
  BY <1>1, InNumbers DEF KInv, Closing
<1>3. ASSUME AtMostTwo(D) PROVE 2 .. Linked - 1 = {}
  <2>1. Linked \in Nat /\ Linked <= 2
    BY <1>1, <1>3, LinkedIsNumber, TwoAtMost DEF KInv
  <2> QED BY <2>1
<1>4. \A h : Nothing(h)' <=> Nothing(h)
  BY <1>1 DEF Nothing
<1>5. AtMostTwo(D)' <=> AtMostTwo(D)
  BY <1>1 DEF AtMostTwo
<1> QED BY <1>1, <1>2, <1>3, <1>4, <1>5 DEF Closing

LEMMA ClosingKept == ASSUME KInv, [Next]_headerVars PROVE Closing'
<1>1. CASE UNCHANGED headerVars
  BY <1>1, DirectoryKept DEF KInv, Closing, headerVars, handleVars, Linked, H, Whole, NoDescriptors,
     Nothing, AtMostTwo
<1>2. CASE ~(UNCHANGED headerVars \/ BeginClose \/ CloseHeader \/ Close)
  <2>1. pc' \notin {"closing", "closed"}
    BY <1>2 DEF Next, Work, Start, OpenHdr, OpenCab, Open, NoHdr,
       NoCab, NoFile, TooSmall, NoDataMemory, ReadShort, ReadData, BadHeader, NoTableMemory, Error,
       Parse, MakeObject, WalkOn, handleVars, Crash, ComponentsDone, End, Link, Dispose, Onwards,
       GetName, GetDescriptor
  <2> QED BY <2>1 DEF Closing
<1> QED BY <1>1, <1>2, BeginCloseClosing, CloseHeaderClosing, CloseClosing
-----------------------------------------------------------------------------
(* The invariant of the handle.                                            *)
LEMMA InitKInv == Init => KInv
<1> SUFFICES ASSUME Init PROVE KInv
  OBVIOUS
<1>1. OInv
  <2>1. table \in Tables
    <3>1. \E t \in Tables : TRUE
      BY DEF Init, WalkInit
    <3> QED BY <3>1 DEF Init
  <2> QED BY <2>1, OrderInitially DEF Init
<1>2. HInv
  BY DEF Init, HInv, FileFound, Locals, Reading, Opening
<1>3. Types
  <2>1. NewHeader \in HeaderObject
    <3>1. <<>> \in Seq(Items)
      BY EmptySeq
    <3> QED BY <3>1 DEF NewHeader, HeaderObject
  <2>2. header \in [Numbers -> HeaderObject] /\ heap \in [Numbers -> [Kind -> Nat]]
    BY <2>1 DEF Init
  <2>3. loc \in Locals /\ loc.open = FALSE
    BY DEF Init, Locals
  <2> QED BY <2>2, <2>3, VersionsAssumption DEF Init, Types
<1>4. Bounded
  BY DEF Init, Bounded
<1>5. Linked = 0
  BY DEF Init, Linked
<1>6. Chained
  BY <1>5 DEF Init, Chained, Opening, Passing, Reading, NewHeader
<1>7. FileRead /\ Faithful /\ Served /\ Closing
  BY DEF Init, FileRead, Faithful, Served, Closing, Reading, Passing
<1>8. Allocations
  BY <1>5 DEF Init, Allocations, BeingRead, Nothing, Reading
<1> QED BY <1>1, <1>2, <1>3, <1>4, <1>6, <1>7, <1>8 DEF KInv

LEMMA NextKInv == KInv /\ [Next]_headerVars => KInv'
<1> SUFFICES ASSUME KInv, [Next]_headerVars PROVE KInv'
  OBVIOUS
<1>1. OInv' /\ HInv'
  BY NextHInv, WalkStep, WalkNextOInv DEF KInv
<1> QED
  BY <1>1, TypesKept, BoundedKept, ChainedKept, FileReadKept, FaithfulKept, ServedKept,
     AllocationsKept, ClosingKept DEF KInv
-----------------------------------------------------------------------------
(* What a client sees.  The amount of headers of a directory is one number.*)
LEMMA AmountIsOne ==
  ASSUME NEW d, NEW n \in Nat, NEW m \in Nat, Amount(d, n), Amount(d, m) PROVE n = m
<1>1. ASSUME NEW i \in Nat, NEW j \in Nat, i < j, Amount(d, i), Amount(d, j) PROVE FALSE
  <2>1. Serves(d, i + 1)
    BY <1>1 DEF Amount
  <2>2. i > 0 => ~HasHdr(d, i)
    BY <1>1 DEF Amount
  <2> QED BY <1>1, <2>1, <2>2 DEF Amount
<1> QED BY <1>1

LEMMA LinkedIsPresent ==
  ASSUME KInv, ~fault, pc \in {"open", "failed"} PROVE Linked = Present(D)
<1>1. Linked \in 0 .. Len(Files) /\ Amount(D, Linked) /\ Files = D.entries /\ Len(Files) \in Nat
  BY LinkedBound, FilesAre DEF KInv, Faithful
<1>2. Present(D) \in 0 .. Len(Files) /\ Amount(D, Present(D))
  BY <1>1 DEF Present
<1> QED BY <1>1, <1>2, AmountIsOne

(* Following the links from the first header.                              *)
LEMMA ListingIs ==
  ASSUME KInv, pc = "open"
  PROVE  LET f == [k \in Numbers |-> IF k = 1 THEN 1 ELSE IF k = 2 THEN header[1].next ELSE 0]
         IN  Listing = SubSeq(f, 1, Cardinality({k \in DOMAIN f : f[k] # 0}))
<1> DEFINE f == [k \in Numbers |-> IF k = 1 THEN 1 ELSE IF k = 2 THEN header[1].next ELSE 0]
           Follow(g, k) == IF k = 1 THEN list
                           ELSE IF g[k - 1] = 0 THEN 0 ELSE header[g[k - 1]].next
           Eq(g) == g = [k \in Numbers |-> Follow(g, k)]
           from == CHOOSE g : Eq(g)
<1>1. /\ list = 1 /\ 1 \in Numbers /\ Numbers = 1 .. Len(Files) + 1 /\ Len(Files) \in Nat
      /\ header[1].next \in Numbers \cup {0} /\ header[1].next # 1
      /\ \A h \in Numbers : h # 1 => header[h].next = 0
  <2>1. Linked \in 0 .. Len(Files) /\ list = 1
    BY LinkedBound DEF KInv, Chained
  <2>2. Numbers = 1 .. Len(Files) + 1 /\ Len(Files) \in Nat
    BY FilesAre DEF KInv, Numbers
  <2>3. \A h \in Numbers : header[h].next # 0 => h = 1 /\ header[h].next > 1
    BY DEF KInv, Chained
  <2> QED BY <2>1, <2>2, <2>3 DEF Linked
<1>2. \A k \in Numbers : f[k] = Follow(f, k)
  <2>1. ASSUME NEW k \in Numbers, k # 1 PROVE f[k] = Follow(f, k)
    <3>1. k - 1 \in Numbers /\ k \in Nat
      BY <1>1, <2>1
    <3>2. CASE k = 2
      BY <1>1, <3>1, <3>2
    <3>3. CASE k # 2
      <4>1. f[k] = 0 /\ f[k - 1] = IF k = 3 THEN header[1].next ELSE 0
        BY <1>1, <2>1, <3>1, <3>3
      <4>2. f[k - 1] = 0 \/ header[f[k - 1]].next = 0
        BY <1>1, <4>1
      <4> QED BY <2>1, <4>1, <4>2
    <3> QED BY <3>2, <3>3
  <2>2. f[1] = Follow(f, 1)
    BY <1>1
  <2> QED BY <2>1, <2>2
<1>3. Eq(f)
  <2> HIDE DEF Follow
  <2> QED BY <1>2
<1>4. Eq(from)
  <2> HIDE DEF Eq
  <2> QED BY <1>3
<1>5. \A k \in Numbers : from[k] = f[k]
  <2>1. DOMAIN from = Numbers /\ \A k \in Numbers : from[k] = Follow(from, k)
    <3> HIDE DEF from, Follow
    <3> QED BY <1>4
  <2> HIDE DEF from, f
  <2> DEFINE T == {k \in Nat : k + 1 \in Numbers => from[k + 1] = f[k + 1]}
  <2>2. 0 \in T
    BY <1>1, <1>2, <2>1
  <2>3. ASSUME NEW k \in Nat, k \in T PROVE k + 1 \in T
    <3> SUFFICES ASSUME k + 2 \in Numbers PROVE from[k + 2] = f[k + 2]
      OBVIOUS
    <3>1. k + 1 \in Numbers /\ (k + 2) - 1 = k + 1 /\ k + 2 # 1
      BY <1>1
    <3>2. from[k + 1] = f[k + 1]
      BY <2>3, <3>1
    <3> QED BY <1>2, <2>1, <3>1, <3>2
  <2> HIDE DEF T
  <2>4. Nat \subseteq T
    BY <2>2, <2>3, SetInduction
  <2>5. ASSUME NEW k \in Numbers PROVE from[k] = f[k]
    <3>1. k - 1 \in T /\ (k - 1) + 1 = k
      BY <1>1, <2>4
    <3> QED BY <3>1 DEF T
  <2> QED BY <2>5
<1>6. from = f
  <2> HIDE DEF from, Follow
  <2> QED BY <1>4, <1>5
<1>7. Listing = SubSeq(from, 1, Cardinality({k \in DOMAIN from : from[k] # 0}))
  BY DEF Listing
<1> HIDE DEF from, f
<1>8. Listing = SubSeq(f, 1, Cardinality({k \in DOMAIN f : f[k] # 0}))
  BY <1>6, <1>7
<1> QED BY <1>8 DEF f

LEMMA ListedKInv == KInv => HeadersListed
<1> SUFFICES ASSUME KInv, pc = "open", AtMostTwo(D)
             PROVE  /\ Listing = UpTo(Len(Listing))
                    /\ fault \/ Len(Listing) = Present(D)
  BY DEF HeadersListed, D
<1> DEFINE f == [k \in Numbers |-> IF k = 1 THEN 1 ELSE IF k = 2 THEN header[1].next ELSE 0]
           n == Linked
<1>1. /\ list = 1 /\ Numbers = 1 .. Len(Files) + 1 /\ Len(Files) \in Nat
      /\ n \in {1, 2} /\ n \in 0 .. Len(Files)
      /\ header[1].next = IF n = 1 THEN 0 ELSE 2
  <2>1. Linked \in 0 .. Len(Files) /\ list = 1 /\ Linked <= 2
    BY LinkedBound, TwoAtMost DEF KInv, Chained
  <2>2. Numbers = 1 .. Len(Files) + 1 /\ Len(Files) \in Nat /\ 1 \in Numbers
    BY FilesAre DEF KInv, Numbers
  <2>3. header[1].next # 1
    BY <2>2 DEF KInv, Chained
  <2> QED BY <2>1, <2>2, <2>3 DEF Linked
<1> HIDE DEF n
<1>2. {k \in DOMAIN f : f[k] # 0} = 1 .. n
  BY <1>1
<1>3. Cardinality(1 .. n) = n
  BY <1>1, FS_Interval
<1>4. Listing = SubSeq(f, 1, n)
  <2>1. Listing = SubSeq(f, 1, Cardinality({k \in DOMAIN f : f[k] # 0}))
    BY ListingIs
  <2> QED BY <1>2, <1>3, <2>1
<1>5. \A i \in 1 .. n : f[i] = i
  BY <1>1
<1> HIDE DEF f
<1>6. /\ Listing \in Seq(Nat) /\ Len(Listing) = n
      /\ \A i \in 1 .. n : Listing[i] = i
  <2>1. \A i \in 1 .. n : f[i] \in Nat
    BY <1>1, <1>5
  <2>2. /\ SubSeq(f, 1, n) \in Seq(Nat) /\ Len(SubSeq(f, 1, n)) = IF 1 <= n THEN n - 1 + 1 ELSE 0
        /\ \A i \in 1 .. n - 1 + 1 : SubSeq(f, 1, n)[i] = f[1 + i - 1]
    BY <1>1, <2>1, SubSeqProperties
  <2>3. \A i \in 1 .. n : 1 + i - 1 = i /\ n - 1 + 1 = n
    BY <1>1
  <2> QED BY <1>1, <1>4, <1>5, <2>2, <2>3
<1>7. Listing = UpTo(Len(Listing))
  <2>1. Listing = [i \in 1 .. n |-> Listing[i]]
    BY <1>6, LenProperties
  <2> QED BY <1>6, <2>1 DEF UpTo
<1>8. fault \/ n = Present(D)
  BY LinkedIsPresent DEF n
<1> QED BY <1>6, <1>7, <1>8

LEMMA TypesKInv == KInv => TypeOK
<1> SUFFICES ASSUME KInv PROVE TypeOK
  OBVIOUS
<1>1. Types /\ Bounded /\ 1 \in Numbers
  BY InNumbers DEF KInv
<1>2. \A h \in Numbers : \A k \in Kind : heap[h][k] \in Nat
  BY HeapRow
<1> QED BY <1>1, <1>2 DEF Types, Bounded, TypeOK

LEMMA ServesKInv == KInv => FirstHeaderServes
<1> SUFFICES ASSUME KInv PROVE FirstHeaderServes
  OBVIOUS
<1>1. pc = "failed" => fault \/ Present(D) = 0
  <2>1. pc = "failed" => Linked = 0
    BY DEF KInv, Chained, Linked
  <2> QED BY <2>1, LinkedIsPresent
<1>2. pc = "open" => list = 1
  BY DEF KInv, Chained
<1>3. list = 1 => \E k \in DOMAIN Files : Files[k].index = 1 /\ FromLists(list, k)
  BY DEF KInv, Served
<1> QED BY <1>1, <1>2, <1>3 DEF FirstHeaderServes, FromLists, D

LEMMA FreedKInv == KInv => NothingLeaks
<1> SUFFICES ASSUME KInv, pc \in {"failed", "closed"}, AtMostTwo(D), NEW h \in Numbers
             PROVE  Nothing(h)
  BY DEF NothingLeaks, Nothing, D
<1>1. CASE pc = "failed"
  <2>1. Linked = 0 /\ h > 0
    BY <1>1, InNumbers DEF KInv, Chained, Linked
  <2> QED BY <1>1, <2>1 DEF KInv, Allocations, Reading
<1>2. CASE pc = "closed"
  BY <1>2 DEF KInv, Closing
<1> QED BY <1>1, <1>2

(* Together: what the handle is at any time, whatever the directory.       *)
THEOREM HandleInvariant == Spec => []KInv
  BY InitKInv, NextKInv, PTL DEF Spec

(* The variables have their types, and a file is open only while it is     *)
(* read: every way out of read_headers closes it.                          *)
THEOREM HandleTypes == Spec => []TypeOK
  BY HandleInvariant, TypesKInv, PTL

(* Whatever the files of the directory are, the components and the file    *)
(* groups of an open handle are all of those in the lists of data1, each   *)
(* once and in their order; and opening fails only if there is no usable   *)
(* first header, memory was short or a file could not be opened.           *)
THEOREM FirstServes == Spec => []FirstHeaderServes
  BY HandleInvariant, ServesKInv, PTL

(* If the directory has at most two headers, the list of headers has the   *)
(* usable ones in their order: both links that unshield_read_headers makes *)
(* are right, and nothing is counted that is not there.                    *)
THEOREM HeadersAreListed == Spec => []HeadersListed
  BY HandleInvariant, ListedKInv, PTL

(* If the directory has at most two headers, an opening that fails and     *)
(* unshield_close free every object that was made, on every way through    *)
(* the reading of the headers and whatever was asked of the handle.        *)
THEOREM NothingIsLost == Spec => []NothingLeaks
  BY HandleInvariant, FreedKInv, PTL
=============================================================================
