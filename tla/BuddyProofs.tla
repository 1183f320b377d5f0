----------------------------- MODULE BuddyProofs -----------------------------
(***************************************************************************)
(* Proofs about the memory allocator, for every number of page frames,     *)
(* highest order, page size, set of pools and regions in use at boot.      *)
(***************************************************************************)
EXTENDS BuddyProps, NatFacts, FiniteSetTheorems

(***************************************************************************)
(* Sizes and rounding.                                                     *)
(***************************************************************************)
\* Every block has a page.
LEMMA SizePositive == \A o \in Orders : Size[o] \in Nat /\ Size[o] >= 1
<1> DEFINE S == {o \in Orders : Size[o] = 0}
<1>1. ASSUME S # {} PROVE FALSE
  <2>1. S \in SUBSET Nat
    BY DEF Orders
  <2>2. PICK x \in S : \A y \in S : x <= y
    BY <1>1, <2>1, LeastNatural
  <2>3. x \in Nat /\ x # 0 /\ x <= MaxOrder /\ MaxOrder \in Nat
    BY <2>1, BuddyAssumption DEF Orders
  <2>4. x - 1 \in 0 .. MaxOrder - 1 /\ x - 1 \in Orders /\ (x - 1) + 1 = x
    BY <2>3 DEF Orders
  <2>5. Size[x] = 2 * Size[x - 1] /\ Size[x - 1] \in Nat
    BY <2>4, BuddyAssumption
  <2>6. x - 1 \in S
    BY <2>4, <2>5
  <2> QED BY <2>2, <2>3, <2>6
<1> QED BY <1>1, BuddyAssumption

\* The two halves of a block.
LEMMA Halves ==
  ASSUME NEW o \in Orders, o > 0
  PROVE  o - 1 \in Orders /\ Size[o] = Size[o - 1] + Size[o - 1]
<1>1. o - 1 \in 0 .. MaxOrder - 1 /\ o - 1 \in Orders /\ (o - 1) + 1 = o
  BY BuddyAssumption DEF Orders
<1>2. Size[o] = 2 * Size[o - 1] /\ Size[o - 1] \in Nat
  BY <1>1, BuddyAssumption
<1> QED BY <1>1, <1>2

Region == [from : Int, size : Nat \ {0}]

\* early_reserve_add makes of a region at least one page.
LEMMA RegionPages ==
  ASSUME NEW r \in Region
  PROVE  /\ FirstPage(r) \in Int /\ EndPage(r) \in Int /\ FirstPage(r) < EndPage(r)
         /\ PageSize * FirstPage(r) <= r.from /\ r.from + r.size <= PageSize * EndPage(r)
<1> DEFINE a == FirstPage(r)
           b == EndPage(r)
<1>1. PageSize \in Nat /\ PageSize > 0 /\ r.from \in Int /\ r.size \in Nat /\ r.size > 0
  BY BuddyAssumption DEF Region
<1>2. a \in Int /\ PageSize * a <= r.from
  BY <1>1, DivFacts DEF FirstPage
<1>3. r.from + r.size + PageSize - 1 \in Int
  BY <1>1
<1>4. /\ b \in Int
      /\ r.from + r.size + PageSize - 1 < PageSize * b + PageSize
  BY <1>1, <1>3, DivFacts DEF EndPage
<1> HIDE DEF a, b
<1>5. PageSize * a \in Int /\ PageSize * b \in Int
  BY <1>1, <1>2, <1>4
<1>6. r.from + r.size <= PageSize * b
  BY <1>1, <1>4, <1>5
<1>7. PageSize * a < PageSize * b
  BY <1>1, <1>2, <1>5, <1>6
<1>8. a < b
  BY <1>1, <1>2, <1>4, <1>7
<1> QED BY <1>2, <1>4, <1>6, <1>8 DEF a, b

\* A region that is a number of whole pages is left as it is.
LEMMA WholePages ==
  ASSUME NEW i \in Nat, NEW n \in Nat
  PROVE  LET r == [from |-> i * PageSize, size |-> n * PageSize]
         IN  FirstPage(r) = i /\ EndPage(r) = i + n
<1> DEFINE r == [from |-> i * PageSize, size |-> n * PageSize]
<1>1. PageSize \in Nat /\ PageSize > 0
  BY BuddyAssumption
<1>2. i * PageSize \in Nat /\ n * PageSize \in Nat /\ PageSize * i = i * PageSize
      /\ PageSize * (i + n) = i * PageSize + n * PageSize
  BY <1>1
<1>3. (i * PageSize) \div PageSize = i
  BY <1>1, <1>2, DivUnique
<1>4. (i * PageSize + n * PageSize + PageSize - 1) \div PageSize = i + n
  BY <1>1, <1>2, DivUnique
<1> QED BY <1>3, <1>4 DEF FirstPage, EndPage

(***************************************************************************)
(* The free lists.                                                         *)
(***************************************************************************)
Area == [Orders -> Seq(Frames)]

On(q, x) == \E n \in 1 .. Len(q) : q[n] = x
Distinct(q) == \A m, n \in 1 .. Len(q) : q[m] = q[n] => m = n

\* list_add puts one more entry on a list.
LEMMA AddHead ==
  ASSUME NEW S, NEW q \in Seq(S), NEW i \in S
  PROVE  LET u == <<i>> \o q
         IN  /\ u \in Seq(S) /\ u # <<>>
             /\ \A x : On(u, x) <=> x = i \/ On(q, x)
             /\ Distinct(q) /\ ~On(q, i) => Distinct(u)
<1> DEFINE u == <<i>> \o q
<1>1. u \in Seq(S) /\ Len(u) = Len(q) + 1 /\ u[1] = i /\ Len(q) \in Nat
  OBVIOUS
<1>2. \A n \in 2 .. Len(q) + 1 : u[n] = q[n - 1]
  OBVIOUS
<1> HIDE DEF u
<1>3. u # <<>>
  BY <1>1
<1>4. \A n \in 1 .. Len(q) : n + 1 \in 2 .. Len(q) + 1 /\ u[n + 1] = q[n]
  BY <1>1, <1>2
<1>5. \A n \in 1 .. Len(u) : n = 1 \/ (n \in 2 .. Len(q) + 1 /\ n - 1 \in 1 .. Len(q))
  BY <1>1
<1>6. ASSUME NEW x PROVE On(u, x) <=> x = i \/ On(q, x)
  <2>1. ASSUME On(u, x), x # i PROVE On(q, x)
    BY <1>1, <1>2, <1>5, <2>1 DEF On
  <2>2. x = i => On(u, x)
    BY <1>1 DEF On
  <2>3. ASSUME On(q, x) PROVE On(u, x)
    <3>1. PICK n \in 1 .. Len(q) : q[n] = x
      BY <2>3 DEF On
    <3> QED BY <1>1, <1>4, <3>1 DEF On
  <2> QED BY <2>1, <2>2, <2>3
<1>7. ASSUME Distinct(q), ~On(q, i) PROVE Distinct(u)
  <2> SUFFICES ASSUME NEW m \in 1 .. Len(u), NEW n \in 1 .. Len(u), u[m] = u[n]
               PROVE  m = n
    BY DEF Distinct
  <2>1. \A k \in 2 .. Len(q) + 1 : u[k] # i
    BY <1>2, <1>5, <1>7 DEF On
  <2>2. CASE m = 1
    BY <1>1, <1>5, <2>1, <2>2
  <2>3. CASE n = 1
    BY <1>1, <1>5, <2>1, <2>3
  <2>4. CASE m # 1 /\ n # 1
    <3>1. m - 1 \in 1 .. Len(q) /\ n - 1 \in 1 .. Len(q) /\ q[m - 1] = q[n - 1]
      BY <1>2, <1>5, <2>4
    <3>2. m - 1 = n - 1
      BY <1>7, <3>1 DEF Distinct
    <3> QED BY <3>1, <3>2
  <2> QED BY <2>2, <2>3, <2>4
<1> QED BY <1>1, <1>3, <1>6, <1>7 DEF u

\* list_del takes one entry off a list.
LEMMA Removed ==
  ASSUME NEW S, NEW q \in Seq(S), Distinct(q), NEW k \in 1 .. Len(q)
  PROVE  LET u == [n \in 1 .. Len(q) - 1 |-> IF n < k THEN q[n] ELSE q[n + 1]]
         IN  /\ u \in Seq(S) /\ Distinct(u)
             /\ \A x : On(u, x) <=> x # q[k] /\ On(q, x)
<1> DEFINE u == [n \in 1 .. Len(q) - 1 |-> IF n < k THEN q[n] ELSE q[n + 1]]
<1>1. Len(q) \in Nat /\ Len(q) - 1 \in Nat /\ k \in Nat
  OBVIOUS
<1>2. \A n \in 1 .. Len(q) - 1 : n \in 1 .. Len(q) /\ n + 1 \in 1 .. Len(q) /\ q[n] \in S /\ q[n + 1] \in S
  BY <1>1
<1>3. u \in Seq(S) /\ Len(u) = Len(q) - 1
  BY <1>1, <1>2
<1>4. \A n \in 1 .. Len(q) - 1 : u[n] = IF n < k THEN q[n] ELSE q[n + 1]
  OBVIOUS
<1> HIDE DEF u
<1>5. Distinct(u)
  <2> SUFFICES ASSUME NEW m \in 1 .. Len(u), NEW n \in 1 .. Len(u), u[m] = u[n]
               PROVE  m = n
    BY DEF Distinct
  <2>1. m \in Nat /\ n \in Nat /\ m \in 1 .. Len(q) - 1 /\ n \in 1 .. Len(q) - 1
    BY <1>1, <1>3
  <2>2. CASE m < k /\ n < k
    BY <1>2, <1>4, <2>1, <2>2 DEF Distinct
  <2>3. CASE ~(m < k) /\ ~(n < k)
    <3>1. m + 1 = n + 1
      BY <1>2, <1>4, <2>1, <2>3 DEF Distinct
    <3> QED BY <2>1, <3>1
  <2>4. CASE m < k /\ ~(n < k)
    <3>1. m = n + 1
      BY <1>2, <1>4, <2>1, <2>4 DEF Distinct
    <3> QED BY <1>1, <2>1, <2>4, <3>1
  <2>5. CASE ~(m < k) /\ n < k
    <3>1. m + 1 = n
      BY <1>2, <1>4, <2>1, <2>5 DEF Distinct
    <3> QED BY <1>1, <2>1, <2>5, <3>1
  <2> QED BY <2>2, <2>3, <2>4, <2>5
<1>6. ASSUME NEW x PROVE On(u, x) <=> x # q[k] /\ On(q, x)
  <2>1. ASSUME On(u, x) PROVE x # q[k] /\ On(q, x)
    <3>1. PICK n \in 1 .. Len(q) - 1 : u[n] = x
      BY <1>3, <2>1 DEF On
    <3>2. n \in Nat /\ n \in 1 .. Len(q) /\ n + 1 \in 1 .. Len(q)
      BY <1>1, <1>2, <3>1
    <3>3. CASE n < k
      BY <1>1, <1>4, <3>1, <3>2, <3>3 DEF On, Distinct
    <3>4. CASE ~(n < k)
      <4>1. x = q[n + 1] /\ n + 1 # k
        BY <1>1, <1>4, <3>1, <3>2, <3>4
      <4> QED BY <3>2, <4>1 DEF On, Distinct
    <3> QED BY <3>3, <3>4
  <2>2. ASSUME x # q[k], On(q, x) PROVE On(u, x)
    <3>1. PICK n \in 1 .. Len(q) : q[n] = x
      BY <2>2 DEF On
    <3>2. n \in Nat /\ n # k
      BY <1>1, <2>2, <3>1
    <3>3. CASE n < k
      <4>1. n \in 1 .. Len(q) - 1
        BY <1>1, <3>2, <3>3
      <4> QED BY <1>3, <1>4, <3>1, <3>3, <4>1 DEF On
    <3>4. CASE k < n
      <4>1. n - 1 \in 1 .. Len(q) - 1 /\ ~(n - 1 < k) /\ (n - 1) + 1 = n
        BY <1>1, <3>2, <3>4
      <4>2. u[n - 1] = x
        BY <1>4, <3>1, <4>1
      <4> QED BY <1>3, <4>1, <4>2 DEF On
    <3> QED BY <1>1, <3>2, <3>3, <3>4
  <2> QED BY <2>1, <2>2
<1> QED BY <1>3, <1>5, <1>6 DEF u

\* What one list after another lists.
Lists(area, k, f) == On(area[k], f)
AllDistinct(area) == \A k \in Orders : Distinct(area[k])

\* list_add puts one block on one list.
LEMMA ListAddFacts ==
  ASSUME NEW area \in Area, NEW i \in Frames, NEW o \in Orders
  PROVE  /\ ListAdd(area, i, o) \in Area
         /\ \A k \in Orders, f \in Frames :
              Lists(ListAdd(area, i, o), k, f) <=> Lists(area, k, f) \/ (k = o /\ f = i)
         /\ AllDistinct(area) /\ ~Lists(area, o, i) => AllDistinct(ListAdd(area, i, o))
<1> DEFINE u == <<i>> \o area[o]
<1>1. area[o] \in Seq(Frames)
  BY DEF Area
<1>2. /\ u \in Seq(Frames)
      /\ \A x : On(u, x) <=> x = i \/ On(area[o], x)
      /\ Distinct(area[o]) /\ ~On(area[o], i) => Distinct(u)
  BY <1>1, AddHead
<1> HIDE DEF u
<1>3. ListAdd(area, i, o) = [area EXCEPT ![o] = u]
  BY DEF ListAdd, u
<1> QED BY <1>2, <1>3 DEF Area, Lists, AllDistinct

\* list_del takes one block off its list.
LEMMA ListDelFacts ==
  ASSUME NEW area \in Area, NEW i \in Frames, NEW o \in Orders,
         AllDistinct(area), Lists(area, o, i)
  PROVE  /\ ListDel(area, i, o) \in Area
         /\ \A k \in Orders, f \in Frames :
              Lists(ListDel(area, i, o), k, f) <=> Lists(area, k, f) /\ ~(k = o /\ f = i)
         /\ AllDistinct(ListDel(area, i, o))
<1> DEFINE q == area[o]
           k == CHOOSE n \in 1 .. Len(q) : q[n] = i
           u == [n \in 1 .. Len(q) - 1 |-> IF n < k THEN q[n] ELSE q[n + 1]]
<1>1. q \in Seq(Frames) /\ Distinct(q)
  BY DEF Area, AllDistinct
<1>2. k \in 1 .. Len(q) /\ q[k] = i
  BY DEF Lists, On
<1>3. ListDel(area, i, o) = [area EXCEPT ![o] = u]
  BY DEF ListDel
<1> HIDE DEF k
<1>4. u \in Seq(Frames) /\ Distinct(u) /\ \A x : On(u, x) <=> x # q[k] /\ On(q, x)
  BY <1>1, <1>2, Removed
<1> HIDE DEF u
<1> QED BY <1>2, <1>3, <1>4 DEF Area, Lists, AllDistinct

(***************************************************************************)
(* The blocks that page frames are divided into.                           *)
(***************************************************************************)
\* Page f is the first of a block: one on a list, one in use, or one of w, those
\* that a loop has in hand.
Live(fr, w, f) ==
  f \in Frames /\ fr[f].order # -1 /\ (fr[f].listed \/ fr[f].used \/ f \in w)

End(fr, f) == f + Size[fr[f].order]

\* The blocks lie below page n, apart from each other, and leave out no page.
Tiles(fr, w, n) ==
  /\ \A f : Live(fr, w, f) => End(fr, f) <= n
  /\ \A f, g : Live(fr, w, f) /\ Live(fr, w, g) /\ f < g => End(fr, f) <= g
  /\ \A p \in Frames : p < n => \E f : Live(fr, w, f) /\ f <= p /\ p < End(fr, f)

FrameArray == [Frames -> Frame]

\* A block is a page and has an order.
LEMMA LiveTypes ==
  ASSUME NEW fr \in FrameArray, NEW w, NEW f, Live(fr, w, f)
  PROVE  /\ f \in Frames /\ f \in Nat /\ fr[f].order \in Orders
         /\ Size[fr[f].order] \in Nat /\ Size[fr[f].order] >= 1
         /\ End(fr, f) \in Nat /\ f < End(fr, f)
<1>1. f \in Frames /\ f \in Nat /\ fr[f] \in Frame /\ fr[f].order # -1
  BY BuddyAssumption DEF Live, FrameArray, Frames
<1>2. fr[f].order \in Orders
  BY <1>1 DEF Frame
<1>3. Size[fr[f].order] \in Nat /\ Size[fr[f].order] >= 1
  BY <1>2, SizePositive
<1> QED BY <1>1, <1>2, <1>3 DEF End

\* A step that moves blocks between lists, callers and loops divides nothing.
LEMMA SameTiles ==
  ASSUME NEW fr \in FrameArray, NEW w, NEW fr2 \in FrameArray, NEW w2, NEW n, Tiles(fr, w, n),
         \A f : Live(fr2, w2, f) <=> Live(fr, w, f),
         \A f : Live(fr, w, f) => fr2[f].order = fr[f].order
  PROVE  Tiles(fr2, w2, n)
<1>1. \A f : Live(fr, w, f) => End(fr2, f) = End(fr, f)
  BY DEF End
<1>2. \A f : Live(fr2, w2, f) => End(fr2, f) <= n
  BY <1>1 DEF Tiles
<1>3. \A f, g : Live(fr2, w2, f) /\ Live(fr2, w2, g) /\ f < g => End(fr2, f) <= g
  BY <1>1 DEF Tiles
<1>4. ASSUME NEW p \in Frames, p < n
      PROVE  \E f : Live(fr2, w2, f) /\ f <= p /\ p < End(fr2, f)
  <2>1. PICK f : Live(fr, w, f) /\ f <= p /\ p < End(fr, f)
    BY <1>4 DEF Tiles
  <2> QED BY <1>1, <2>1
<1> QED BY <1>2, <1>3, <1>4 DEF Tiles

\* No block starts inside another.
LEMMA InsideFree ==
  ASSUME NEW fr \in FrameArray, NEW w, NEW n, Tiles(fr, w, n),
         NEW i, Live(fr, w, i), NEW j \in Nat, i < j, j < End(fr, i)
  PROVE  ~Live(fr, w, j)
<1>1. End(fr, i) \in Nat
  BY LiveTypes
<1> QED BY <1>1 DEF Tiles

\* The two halves of a block that is split.
Split2(fr, w, fr2, w2, i, j) ==
  /\ fr[i].order > 0 /\ j = i + Size[fr[i].order - 1]
  /\ Live(fr2, w2, i) /\ Live(fr2, w2, j)
  /\ fr2[i].order = fr[i].order - 1 /\ fr2[j].order = fr[i].order - 1
  /\ \A f : f # i /\ f # j => (Live(fr2, w2, f) <=> Live(fr, w, f))
  /\ \A f \in Frames : f # i /\ f # j => fr2[f].order = fr[f].order

\* The second half of a block starts at a page where no block starts.
LEMMA SplitPlaces ==
  ASSUME NEW fr \in FrameArray, NEW w, NEW i, Live(fr, w, i), fr[i].order > 0,
         NEW n \in Nat, n <= FrameCount, Tiles(fr, w, n)
  PROVE  LET j == i + Size[fr[i].order - 1]
         IN  /\ j \in Frames /\ i < j /\ j < End(fr, i)
             /\ j + Size[fr[i].order - 1] = End(fr, i)
             /\ ~Live(fr, w, j)
<1> DEFINE s == Size[fr[i].order - 1]
           j == i + s
<1>1. i \in Nat /\ fr[i].order \in Orders /\ End(fr, i) \in Nat
  BY LiveTypes
<1>2. Size[fr[i].order] = s + s /\ s \in Nat /\ s >= 1
  BY <1>1, Halves, SizePositive
<1> HIDE DEF s
<1>3. End(fr, i) = j + s /\ i < j /\ j < End(fr, i) /\ j \in Nat
  BY <1>1, <1>2 DEF End
<1>4. End(fr, i) <= n /\ FrameCount \in Nat
  BY BuddyAssumption DEF Tiles
<1>5. j \in Frames
  BY <1>1, <1>3, <1>4 DEF Frames
<1>6. ~Live(fr, w, j)
  BY <1>3, InsideFree
<1> QED BY <1>3, <1>5, <1>6 DEF s

\* Replacing a block by its halves, the blocks still fill memory.
LEMMA SplitTiles ==
  ASSUME NEW fr \in FrameArray, NEW w, NEW fr2 \in FrameArray, NEW w2,
         NEW n \in Nat, n <= FrameCount, Tiles(fr, w, n), NEW i, NEW j, Live(fr, w, i),
         Split2(fr, w, fr2, w2, i, j)
  PROVE  Tiles(fr2, w2, n)
<1> DEFINE s == Size[fr[i].order - 1]
<1>0. fr[i].order > 0 /\ j = i + s
  BY DEF Split2
<1>1. /\ j \in Frames /\ i < j /\ j < End(fr, i) /\ j + s = End(fr, i) /\ ~Live(fr, w, j)
      /\ i \in Nat /\ j \in Nat /\ End(fr, i) \in Nat
  BY <1>0, SplitPlaces, LiveTypes DEF Frames
<1>2. End(fr2, i) = j /\ End(fr2, j) = End(fr, i)
  BY <1>0, <1>1 DEF Split2, End
<1>3. ASSUME NEW f, Live(fr2, w2, f), f # i, f # j
      PROVE  Live(fr, w, f) /\ End(fr2, f) = End(fr, f) /\ f \in Nat /\ End(fr, f) \in Nat
  <2>1. Live(fr, w, f)
    BY <1>3 DEF Split2
  <2> QED BY <1>3, <2>1, LiveTypes DEF Split2, End
<1>4. \A f : Live(fr2, w2, f) => End(fr2, f) <= n
  <2> SUFFICES ASSUME NEW f, Live(fr2, w2, f) PROVE End(fr2, f) <= n
    OBVIOUS
  <2>1. End(fr, i) <= n
    BY DEF Tiles
  <2>2. CASE f = i \/ f = j
    BY <1>1, <1>2, <2>1, <2>2
  <2>3. CASE f # i /\ f # j
    BY <1>3, <2>3 DEF Tiles
  <2> QED BY <2>2, <2>3
<1>5. ASSUME NEW f, NEW g, Live(fr2, w2, f), Live(fr2, w2, g), f < g
      PROVE  End(fr2, f) <= g
  <2>1. CASE f # i /\ f # j /\ g # i /\ g # j
    <3>1. Live(fr, w, f) /\ Live(fr, w, g) /\ End(fr2, f) = End(fr, f)
      BY <1>3, <1>5, <2>1
    <3> QED BY <1>5, <3>1 DEF Tiles
  <2>2. CASE f \in {i, j} /\ g \notin {i, j}
    <3>1. Live(fr, w, g) /\ g \in Nat
      BY <1>3, <1>5, <2>2
    <3>2. i < g
      BY <1>1, <1>5, <2>2, <3>1
    <3>3. End(fr, i) <= g
      BY <3>1, <3>2 DEF Tiles
    <3> QED BY <1>1, <1>2, <2>2, <3>1, <3>3
  <2>3. CASE f \notin {i, j} /\ g \in {i, j}
    <3>1. Live(fr, w, f) /\ f \in Nat /\ End(fr2, f) = End(fr, f) /\ End(fr, f) \in Nat
      BY <1>3, <1>5, <2>3
    <3>2. CASE f < i
      <4>1. End(fr, f) <= i
        BY <3>1, <3>2 DEF Tiles
      <4> QED BY <1>1, <2>3, <3>1, <4>1
    <3>3. CASE i < f
      <4>1. End(fr, i) <= f
        BY <3>1, <3>3 DEF Tiles
      <4> QED BY <1>1, <1>5, <2>3, <3>1, <4>1
    <3> QED BY <1>1, <2>3, <3>1, <3>2, <3>3
  <2>4. CASE f \in {i, j} /\ g \in {i, j}
    BY <1>1, <1>2, <1>5, <2>4
  <2> QED BY <2>1, <2>2, <2>3, <2>4
<1>6. ASSUME NEW p \in Frames, p < n
      PROVE  \E f : Live(fr2, w2, f) /\ f <= p /\ p < End(fr2, f)
  <2>1. PICK f : Live(fr, w, f) /\ f <= p /\ p < End(fr, f)
    BY <1>6 DEF Tiles
  <2>2. p \in Nat
    BY DEF Frames
  <2>3. CASE f # i
    <3>1. f # j
      BY <1>1, <2>1
    <3>2. f \in Frames
      BY <2>1 DEF Live
    <3> QED BY <2>1, <2>3, <3>1, <3>2 DEF Split2, End
  <2>4. CASE f = i /\ p < j
    BY <1>2, <2>1, <2>4 DEF Split2
  <2>5. CASE f = i /\ j <= p
    BY <1>2, <2>1, <2>5 DEF Split2
  <2> QED BY <1>1, <2>2, <2>3, <2>4, <2>5
<1> QED BY <1>4, <1>5, <1>6 DEF Tiles

\* Two neighbours become one block.
Merge2(fr, w, fr2, w2, i, j) ==
  /\ fr[i].order \in Orders /\ fr[i].order + 1 \in Orders /\ fr[j].order = fr[i].order
  /\ j = i + Size[fr[i].order]
  /\ Live(fr2, w2, i) /\ ~Live(fr2, w2, j)
  /\ fr2[i].order = fr[i].order + 1
  /\ \A f : f # i /\ f # j => (Live(fr2, w2, f) <=> Live(fr, w, f))
  /\ \A f \in Frames : f # i /\ f # j => fr2[f].order = fr[f].order

\* Replacing two halves by their union, the blocks still fill memory.
LEMMA MergeTiles ==
  ASSUME NEW fr \in FrameArray, NEW w, NEW fr2 \in FrameArray, NEW w2, NEW n \in Nat,
         Tiles(fr, w, n), NEW i, NEW j, Live(fr, w, i), Live(fr, w, j),
         Merge2(fr, w, fr2, w2, i, j)
  PROVE  Tiles(fr2, w2, n)
<1> DEFINE o == fr[i].order
<1>1. /\ i \in Nat /\ j \in Nat /\ End(fr, i) \in Nat /\ End(fr, j) \in Nat
      /\ j = End(fr, i) /\ i < j /\ j < End(fr, j)
  BY LiveTypes DEF Merge2, End
<1>2. Size[o + 1] = Size[o] + Size[o] /\ Size[o] \in Nat
  <2>1. o \in Nat /\ o + 1 > 0 /\ (o + 1) - 1 = o /\ o + 1 \in Orders
    BY DEF Merge2, Orders
  <2> QED BY <2>1, Halves, SizePositive DEF Merge2
<1>3. End(fr2, i) = End(fr, j)
  BY <1>1, <1>2 DEF Merge2, End
<1>4. ASSUME NEW f, Live(fr2, w2, f), f # i
      PROVE  /\ f # j /\ Live(fr, w, f) /\ End(fr2, f) = End(fr, f)
             /\ f \in Nat /\ End(fr, f) \in Nat
  <2>1. f # j
    BY <1>4 DEF Merge2
  <2>2. Live(fr, w, f)
    BY <1>4, <2>1 DEF Merge2
  <2> QED BY <1>4, <2>1, <2>2, LiveTypes DEF Merge2, End
<1>5. \A f : Live(fr2, w2, f) => End(fr2, f) <= n
  BY <1>3, <1>4 DEF Tiles
<1>6. ASSUME NEW f, NEW g, Live(fr2, w2, f), Live(fr2, w2, g), f < g
      PROVE  End(fr2, f) <= g
  <2>1. CASE f # i /\ g # i
    BY <1>4, <1>6, <2>1 DEF Tiles
  <2>2. CASE f = i
    <3>1. Live(fr, w, g) /\ g # j /\ g \in Nat
      BY <1>1, <1>4, <1>6, <2>2
    <3>2. End(fr, i) <= g
      BY <1>6, <2>2, <3>1 DEF Tiles
    <3>3. j < g
      BY <1>1, <3>1, <3>2
    <3> QED BY <1>3, <2>2, <3>1, <3>3 DEF Tiles
  <2>3. CASE g = i /\ f # i
    BY <1>4, <1>6, <2>3 DEF Tiles
  <2> QED BY <2>1, <2>2, <2>3
<1>7. ASSUME NEW p \in Frames, p < n
      PROVE  \E f : Live(fr2, w2, f) /\ f <= p /\ p < End(fr2, f)
  <2>1. PICK f : Live(fr, w, f) /\ f <= p /\ p < End(fr, f)
    BY <1>7 DEF Tiles
  <2>2. p \in Nat
    BY DEF Frames
  <2>3. CASE f # i /\ f # j
    <3>1. f \in Frames
      BY <2>1 DEF Live
    <3> QED BY <2>1, <2>3, <3>1 DEF Merge2, End
  <2>4. CASE f = i \/ f = j
    <3>1. i <= p /\ p < End(fr, j)
      BY <1>1, <2>1, <2>2, <2>4
    <3> QED BY <1>3, <3>1 DEF Merge2
  <2> QED BY <2>3, <2>4
<1> QED BY <1>5, <1>6, <1>7 DEF Tiles

\* One more block, behind the others.
LEMMA MoreTiles ==
  ASSUME NEW fr \in FrameArray, NEW fr2 \in FrameArray, NEW w,
         NEW n \in Frames, Tiles(fr, w, n),
         Live(fr2, w, n), \A f : f # n => fr2[f] = fr[f]
  PROVE  Tiles(fr2, w, End(fr2, n))
<1> DEFINE m == End(fr2, n)
<1>1. n \in Nat /\ m \in Nat /\ n < m
  BY LiveTypes
<1>2. ASSUME NEW f, Live(fr2, w, f), f # n
      PROVE  Live(fr, w, f) /\ End(fr2, f) = End(fr, f) /\ f \in Nat /\ End(fr, f) \in Nat /\ End(fr, f) <= n
  <2>1. Live(fr, w, f) /\ End(fr2, f) = End(fr, f)
    BY <1>2 DEF Live, End
  <2> QED BY <2>1, LiveTypes DEF Tiles
<1>3. ASSUME NEW f, Live(fr, w, f) PROVE Live(fr2, w, f) /\ End(fr2, f) = End(fr, f)
  <2>1. f # n
    BY <1>1, <1>3, LiveTypes DEF Tiles
  <2> QED BY <1>3, <2>1 DEF Live, End
<1>4. \A f : Live(fr2, w, f) => End(fr2, f) <= m
  BY <1>1, <1>2
<1>5. \A f, g : Live(fr2, w, f) /\ Live(fr2, w, g) /\ f < g => End(fr2, f) <= g
  <2> SUFFICES ASSUME NEW f, NEW g, Live(fr2, w, f), Live(fr2, w, g), f < g
               PROVE  End(fr2, f) <= g
    OBVIOUS
  <2>1. CASE f # n /\ g # n
    BY <1>2, <2>1 DEF Tiles
  <2>2. CASE g = n
    BY <1>1, <1>2, <2>2
  <2>3. CASE f = n
    BY <1>1, <1>2, <2>3, LiveTypes
  <2> QED BY <2>1, <2>2, <2>3
<1>6. ASSUME NEW p \in Frames, p < m
      PROVE  \E f : Live(fr2, w, f) /\ f <= p /\ p < End(fr2, f)
  <2>1. p \in Nat
    BY DEF Frames
  <2>2. CASE p < n
    <3>1. PICK f : Live(fr, w, f) /\ f <= p /\ p < End(fr, f)
      BY <2>2 DEF Tiles
    <3> QED BY <1>3, <3>1
  <2>3. CASE n <= p
    BY <1>6, <2>3
  <2> QED BY <1>1, <2>1, <2>2, <2>3
<1> QED BY <1>4, <1>5, <1>6 DEF Tiles

(***************************************************************************)
(* The inductive invariant.                                                *)
(***************************************************************************)
Looping == call.at \in {"split", "merge"}
Booting == call.at \in {"startup", "fill", "reserve", "halted"}

\* The block a loop has in hand, and how far memory is divided into blocks.
InHand == IF Looping THEN {call.idx} ELSE {}
Divided ==
  IF call.at \in {"startup", "halted"} THEN 0
  ELSE IF call.at = "fill" THEN call.idx
  ELSE FrameCount

\* A block is free, on the list of its order, or in use; chunks come from single pages.
Metadata ==
  \A f \in Frames :
    /\ ~(frames[f].listed /\ frames[f].used)
    /\ frames[f].listed => frames[f].order \in Orders
    /\ frames[f].pool # NoPool => frames[f].used /\ frames[f].order = 0

ListsOK ==
  /\ AllDistinct(freeArea)
  /\ \A k \in Orders, f \in Frames :
       Lists(freeArea, k, f) <=> frames[f].listed /\ frames[f].order = k

\* A request of that size fits a block of order o, or a chunk of pool p.
Fits(n, o, p) == IF p = NoPool THEN n <= Size[o] * PageSize ELSE n <= PoolSizes[p]

LoopOK ==
  /\ Looping => /\ call.idx \in Frames /\ frames[call.idx].order = call.order
                /\ ~frames[call.idx].listed /\ ~frames[call.idx].used
  /\ call.at = "split" => /\ call.want <= call.order /\ Fits(call.size, call.want, call.pool)
                          /\ call.pool # NoPool => call.want = 0 /\ chunks[call.pool] = <<>>
  /\ call.at = "fill" => call.idx <= FrameCount
  /\ call.at = "reserve" => call.idx >= 1

\* A caller holds a block alone, and from its start.
HeldOK ==
  \A h \in held :
    /\ frames[h.page].used /\ frames[h.page].order # -1
    /\ Fits(h.size, frames[h.page].order, frames[h.page].pool)
    /\ frames[h.page].pool = NoPool =>
         h.off = 0 /\ \A g \in held : g.page = h.page => g = h

PoolsOK ==
  \A p \in Pools : \A n \in 1 .. Len(chunks[p]) : frames[chunks[p][n].page].pool = p

BootOK ==
  /\ Booting => /\ held = {} /\ \A p \in Pools : chunks[p] = <<>>
                /\ \A f \in Frames : frames[f].pool = NoPool
  /\ call.at \in {"startup", "halted"} => \A f \in Frames : frames[f] = UsedFrame(-1)

BlockInv ==
  /\ TypeOK /\ Metadata /\ ListsOK /\ LoopOK /\ HeldOK /\ PoolsOK /\ BootOK
  /\ Tiles(frames, InHand, Divided)

\* The values that mm.c writes into the metadata of a page.
LEMMA FrameValues ==
  ASSUME NEW o \in Orders
  PROVE  /\ FreeFrame(o) \in Frame /\ UsedFrame(o) \in Frame
         /\ FreeFrame(o).order = o /\ FreeFrame(o).listed /\ ~FreeFrame(o).used
         /\ FreeFrame(o).pool = NoPool
         /\ UsedFrame(o).order = o /\ ~UsedFrame(o).listed /\ UsedFrame(o).used
         /\ UsedFrame(o).pool = NoPool
         /\ o # -1 /\ o \in Nat
BY BuddyAssumption DEF FreeFrame, UsedFrame, Frame, Orders

\* A loop that starts.
LEMMA CallValues ==
  ASSUME NEW a \in {"startup", "fill", "reserve", "split", "merge", "idle", "halted"},
         NEW i \in Nat, NEW o \in Orders
  PROVE  /\ At(a, i, o) \in Call /\ At(a, i, o).at = a /\ At(a, i, o).idx = i
         /\ At(a, i, o).order = o
<1>1. 0 \in Orders
  BY BuddyAssumption DEF Orders
<1> QED BY <1>1 DEF At, Call

\* The least of a set of numbers.
LEMMA LeastFacts ==
  ASSUME NEW S \in SUBSET Nat, S # {}
  PROVE  Least(S) \in S /\ \A y \in S : Least(S) <= y
BY LeastNatural DEF Least

\* The constants as numbers.
LEMMA Constants ==
  /\ FrameCount \in Nat /\ FrameCount > 0 /\ MaxOrder \in Nat /\ PageSize \in Nat /\ PageSize > 0
  /\ ArrayPages \in Nat /\ ArrayPages > 0
  /\ 0 \in Orders /\ MaxOrder \in Orders /\ Size[0] = 1
  /\ Orders \subseteq Nat /\ Frames \subseteq Nat /\ -1 \notin Orders
BY BuddyAssumption DEF Orders, Frames

\* A list entry is a page whose metadata says so.
LEMMA OnList ==
  ASSUME BlockInv, NEW o \in Orders, NEW n \in 1 .. Len(freeArea[o])
  PROVE  LET i == freeArea[o][n]
         IN  /\ i \in Frames /\ Lists(freeArea, o, i)
             /\ frames[i].listed /\ ~frames[i].used /\ frames[i].order = o
             /\ frames[i].pool = NoPool /\ Live(frames, InHand, i) /\ i \notin InHand
<1> DEFINE i == freeArea[o][n]
<1>1. i \in Frames
  BY DEF BlockInv, TypeOK
<1>2. Lists(freeArea, o, i)
  BY DEF Lists, On
<1>3. frames[i].listed /\ frames[i].order = o
  BY <1>1, <1>2 DEF BlockInv, ListsOK
<1>4. ~frames[i].used /\ frames[i].pool = NoPool /\ frames[i].order # -1
  BY <1>1, <1>3, Constants DEF BlockInv, Metadata
<1>5. i \notin InHand
  BY <1>3 DEF InHand, BlockInv, LoopOK
<1> QED BY <1>1, <1>2, <1>3, <1>4, <1>5 DEF Live

Chunk == [page : Frames, off : 0 .. PageSize - 1]

\* An entry of a chunk list is a place in a page.
LEMMA ChunkTypes ==
  ASSUME BlockInv, NEW p \in Pools, NEW n \in 1 .. Len(chunks[p])
  PROVE  chunks[p] \in Seq(Chunk) /\ chunks[p][n] \in Chunk /\ chunks[p][n].page \in Frames
<1>1. chunks[p] \in Seq(Chunk)
  BY DEF BlockInv, TypeOK, Chunk
<1>2. chunks[p][n] \in Chunk
  BY <1>1
<1> QED BY <1>1, <1>2 DEF Chunk

\* Steps that write no metadata of blocks in use.
LEMMA UseKept ==
  ASSUME BlockInv, held' = held, chunks' = chunks,
         \A f \in Frames : frames[f].used /\ frames[f].order # -1 => frames'[f] = frames[f]
  PROVE  HeldOK' /\ PoolsOK'
<1>1. \A h \in held : h.page \in Frames
  BY DEF BlockInv, TypeOK, Pointer
<1>2. \A h \in held : frames'[h.page] = frames[h.page]
  BY <1>1 DEF BlockInv, HeldOK
<1>3. HeldOK'
  BY <1>2 DEF BlockInv, HeldOK, Fits
<1>4. ASSUME NEW p \in Pools, NEW n \in 1 .. Len(chunks[p])
      PROVE  frames'[chunks[p][n].page].pool = p
  <2> DEFINE f == chunks[p][n].page
  <2>1. f \in Frames
    BY ChunkTypes
  <2>2. frames[f].pool = p /\ p # NoPool
    BY DEF BlockInv, PoolsOK, Pools, NoPool
  <2>3. frames[f].used /\ frames[f].order # -1
    BY <2>1, <2>2, Constants DEF BlockInv, Metadata
  <2> QED BY <2>1, <2>2, <2>3
<1>5. PoolsOK'
  BY <1>4 DEF PoolsOK
<1> QED BY <1>3, <1>5

\* Before mm_init there is no block.
LEMMA InitBlocks == Init => BlockInv
<1> SUFFICES ASSUME Init PROVE BlockInv
  OBVIOUS
<1>1. /\ call.at = "startup" /\ call \in Call
  BY CallValues, Constants DEF Init
<1>2. UsedFrame(-1) \in Frame /\ UsedFrame(-1).order = -1 /\ ~UsedFrame(-1).listed
      /\ UsedFrame(-1).pool = NoPool
  BY DEF UsedFrame, Frame
<1>3. /\ \A f \in Frames : frames[f] = UsedFrame(-1)
      /\ \A o \in Orders : freeArea[o] = <<>>
      /\ \A p \in Pools : chunks[p] = <<>>
  BY DEF Init
<1>4. TypeOK
  <2>1. frames \in [Frames -> Frame] /\ freeArea \in [Orders -> Seq(Frames)]
    BY <1>2 DEF Init
  <2>2. chunks \in [Pools -> Seq([page : Frames, off : 0 .. PageSize - 1])]
    BY DEF Init
  <2>3. early \in Seq([from : Int, size : Nat \ {0}]) /\ held \in SUBSET Pointer
    BY BuddyAssumption DEF Init
  <2> QED BY <1>1, <2>1, <2>2, <2>3 DEF TypeOK
<1>5. Metadata
  BY <1>2, <1>3 DEF Metadata
<1>6. ListsOK
  BY <1>2, <1>3 DEF ListsOK, Lists, On, AllDistinct, Distinct
<1>7. LoopOK /\ HeldOK /\ PoolsOK /\ BootOK
  BY <1>1, <1>2, <1>3 DEF LoopOK, Looping, HeldOK, PoolsOK, BootOK, Init
<1>8. \A f : ~Live(frames, InHand, f)
  BY <1>2, <1>3 DEF Live
<1>9. Tiles(frames, InHand, Divided)
  BY <1>1, <1>8 DEF Tiles, Divided, Frames
<1> QED BY <1>4, <1>5, <1>6, <1>7, <1>9 DEF BlockInv

\* A step that changes nothing keeps the invariant.
LEMMA StutterBlocks == ASSUME BlockInv, UNCHANGED vars PROVE BlockInv'
BY DEF BlockInv, vars, TypeOK, Metadata, ListsOK, LoopOK, HeldOK, PoolsOK, BootOK,
       InHand, Divided, Looping, Booting

(***************************************************************************)
(* Its preservation, step by step.                                         *)
(***************************************************************************)
\* The block that AllocPages takes, from the first list that has one.
LEMMA TakenBlock ==
  ASSUME BlockInv, NEW o \in Orders, Available(o) # {}
  PROVE  LET k == Least(Available(o))
             i == Head(freeArea[k])
         IN  /\ k \in Orders /\ o <= k /\ i = freeArea[k][1] /\ 1 \in 1 .. Len(freeArea[k])
<1> DEFINE k == Least(Available(o))
<1>1. k \in Available(o)
  BY LeastFacts, Constants DEF Available
<1> HIDE DEF k
<1>2. k \in Orders /\ o <= k /\ freeArea[k] # <<>>
  BY <1>1 DEF Available
<1>3. freeArea[k] \in Seq(Frames)
  BY <1>2 DEF BlockInv, TypeOK
<1>4. Head(freeArea[k]) = freeArea[k][1] /\ 1 \in 1 .. Len(freeArea[k])
  BY <1>2, <1>3
<1> QED BY <1>2, <1>4 DEF k

\* alloc_pages takes a block off a list and has it in hand.
LEMMA TakeInv ==
  ASSUME BlockInv, call.at = "idle", NEW o \in Orders, NEW p \in Pools \cup {NoPool}, NEW n \in Nat,
         Fits(n, o, p), p # NoPool => o = 0 /\ chunks[p] = <<>>, AllocPages(o, p, n)
  PROVE  BlockInv'
<1>1. CASE Available(o) = {}
  BY <1>1, StutterBlocks DEF AllocPages
<1>2. CASE Available(o) # {}
  <2> DEFINE k == Least(Available(o))
             i == Head(freeArea[k])
  <2>1. k \in Orders /\ o <= k /\ i = freeArea[k][1] /\ 1 \in 1 .. Len(freeArea[k])
    BY <1>2, TakenBlock
  <2>2. /\ freeArea' = ListDel(freeArea, i, k)
        /\ frames' = [frames EXCEPT ![i].listed = FALSE]
        /\ call' = [at |-> "split", idx |-> i, order |-> k, want |-> o, pool |-> p, size |-> n]
        /\ UNCHANGED <<chunks, early, held>>
    BY <1>2 DEF AllocPages
  <2> HIDE DEF k, i
  <2>3. /\ i \in Frames /\ Lists(freeArea, k, i)
        /\ frames[i].listed /\ ~frames[i].used /\ frames[i].order = k
        /\ frames[i].pool = NoPool /\ Live(frames, InHand, i) /\ i \notin InHand
    BY <2>1, OnList
  <2>4. frames \in FrameArray /\ freeArea \in Area
    BY DEF BlockInv, TypeOK, FrameArray, Area
  <2>5. /\ frames' \in FrameArray
        /\ \A f \in Frames : f # i => frames'[f] = frames[f]
        /\ ~frames'[i].listed /\ ~frames'[i].used /\ frames'[i].order = k
        /\ frames'[i].pool = NoPool
    BY <2>2, <2>3, <2>4 DEF FrameArray, Frame
  <2>6. /\ freeArea' \in Area /\ AllDistinct(freeArea')
        /\ \A x \in Orders, f \in Frames :
             Lists(freeArea', x, f) <=> Lists(freeArea, x, f) /\ ~(x = k /\ f = i)
    BY <2>1, <2>2, <2>3, <2>4, ListDelFacts DEF BlockInv, ListsOK
  <2>7. /\ call'.at = "split" /\ call'.idx = i /\ call'.order = k /\ call'.want = o
        /\ call'.pool = p /\ call'.size = n
    BY <2>2
  <2>8. i \in Nat
    BY <2>3, Constants
  <2>9. call' \in Call
    BY <2>1, <2>2, <2>8 DEF Call
  <2>10. TypeOK'
    BY <2>2, <2>5, <2>6, <2>9 DEF BlockInv, TypeOK, FrameArray, Area
  <2>11. Metadata'
    BY <2>5 DEF BlockInv, Metadata
  <2>12. ListsOK'
    BY <2>3, <2>5, <2>6 DEF BlockInv, ListsOK
  <2>13. LoopOK'
    BY <2>1, <2>2, <2>3, <2>5, <2>7 DEF LoopOK, Looping, Fits
  <2>14. HeldOK' /\ PoolsOK'
    BY <2>2, <2>3, <2>5, UseKept
  <2>15. BootOK'
    BY <2>7 DEF BootOK, Booting
  <2>16. InHand = {} /\ InHand' = {i} /\ Divided = FrameCount /\ Divided' = FrameCount
    BY <2>7 DEF InHand, Looping, Divided
  <2>17. \A f : Live(frames', InHand', f) <=> Live(frames, InHand, f)
    BY <2>1, <2>3, <2>5, <2>16, Constants DEF Live
  <2>18. \A f : Live(frames, InHand, f) => frames'[f].order = frames[f].order
    BY <2>3, <2>5 DEF Live
  <2>19. Tiles(frames, InHand, FrameCount)
    BY <2>16 DEF BlockInv
  <2>20. Tiles(frames', InHand', FrameCount)
    BY <2>4, <2>5, <2>17, <2>18, <2>19, SameTiles
  <2> QED BY <2>10, <2>11, <2>12, <2>13, <2>14, <2>15, <2>16, <2>20 DEF BlockInv
<1> QED BY <1>1, <1>2

\* A turn of the splitting loop: i is the block in hand, j the half that goes back.
SplitEffect(i, j, o) ==
  /\ i = call.idx /\ o = call.order - 1 /\ j = i + Size[o]
  /\ i \in Frames /\ j \in Frames /\ i # j /\ o \in Orders /\ call.order > 0 /\ call.want <= o
  /\ frames[i].order = call.order /\ ~frames[i].listed /\ ~frames[i].used
  /\ ~Live(frames, InHand, j) /\ ~frames[j].listed /\ frames[j].pool = NoPool
  /\ frames' \in FrameArray /\ frames'[j] = FreeFrame(o)
  /\ frames'[i].order = o /\ ~frames'[i].listed /\ ~frames'[i].used
  /\ frames'[i].pool = frames[i].pool
  /\ \A f \in Frames : f # i /\ f # j => frames'[f] = frames[f]
  /\ freeArea' = ListAdd(freeArea, j, o)
  /\ call' \in Call /\ call'.at = "split" /\ call'.idx = i /\ call'.order = o
  /\ call'.want = call.want /\ call'.pool = call.pool /\ call'.size = call.size
  /\ UNCHANGED <<chunks, early, held>>

\* What Split does.
LEMMA SplitEffects ==
  ASSUME BlockInv, Split
  PROVE  SplitEffect(call.idx, call.idx + Size[call.order - 1], call.order - 1)
<1> DEFINE i == call.idx
           o == call.order - 1
           j == i + Size[o]
<1>1. /\ call.at = "split" /\ call.order > call.want
      /\ frames' = [frames EXCEPT ![j] = FreeFrame(o), ![i].order = o]
      /\ freeArea' = ListAdd(freeArea, j, o)
      /\ call' = [call EXCEPT !.order = o]
      /\ UNCHANGED <<chunks, early, held>>
  BY DEF Split
<1>2. call \in Call /\ frames \in FrameArray
  BY DEF BlockInv, TypeOK, FrameArray
<1>3. call.order \in Orders /\ call.want \in Orders /\ call.order \in Nat /\ call.want \in Nat
  BY <1>2, Constants DEF Call
<1>4. call.order > 0 /\ o \in Orders /\ o \in Nat /\ call.want <= o
  BY <1>1, <1>3, Halves
<1>5. /\ i \in Frames /\ frames[i].order = call.order
      /\ ~frames[i].listed /\ ~frames[i].used /\ InHand = {i} /\ Divided = FrameCount
  BY <1>1 DEF BlockInv, LoopOK, Looping, InHand, Divided
<1>6. Live(frames, InHand, i) /\ Tiles(frames, InHand, FrameCount)
  BY <1>3, <1>5, Constants DEF Live, BlockInv
<1>7. j \in Frames /\ i # j /\ ~Live(frames, InHand, j)
  BY <1>2, <1>4, <1>5, <1>6, SplitPlaces, Constants
<1>8. o = call.order - 1 /\ j = i + Size[o] /\ i = call.idx
  OBVIOUS
<1> HIDE DEF o, j, i
<1>9. ~frames[j].listed /\ frames[j].pool = NoPool
  BY <1>7, Constants DEF BlockInv, Metadata, Live
<1>10. FreeFrame(o) \in Frame /\ frames[i] \in Frame
  BY <1>2, <1>4, <1>5, FrameValues DEF FrameArray
<1>11. /\ frames' \in FrameArray
       /\ frames'[j] = FreeFrame(o)
       /\ frames'[i].order = o /\ ~frames'[i].listed /\ ~frames'[i].used
       /\ frames'[i].pool = frames[i].pool
       /\ \A f \in Frames : f # i /\ f # j => frames'[f] = frames[f]
  BY <1>1, <1>2, <1>4, <1>5, <1>7, <1>10 DEF FrameArray, Frame
<1>12. /\ call' \in Call /\ call'.at = "split" /\ call'.idx = i /\ call'.order = o
       /\ call'.want = call.want /\ call'.pool = call.pool /\ call'.size = call.size
  BY <1>1, <1>2, <1>4, <1>8 DEF Call
<1>13. SplitEffect(i, j, o)
  BY <1>1, <1>4, <1>5, <1>7, <1>8, <1>9, <1>11, <1>12 DEF SplitEffect
<1> QED BY <1>13 DEF i, j, o

\* alloc_pages splits the block in hand.
LEMMA SplitInv == ASSUME BlockInv, Split PROVE BlockInv'
<1> DEFINE i == call.idx
           o == call.order - 1
           j == i + Size[o]
<1>1. SplitEffect(i, j, o)
  BY SplitEffects
<1>2. call.at = "split" /\ frames \in FrameArray /\ freeArea \in Area
  BY DEF Split, BlockInv, TypeOK, FrameArray, Area
<1> HIDE DEF i, o, j
<1>3. /\ i = call.idx /\ o = call.order - 1 /\ j = i + Size[o]
      /\ i \in Frames /\ j \in Frames /\ i # j /\ o \in Orders /\ call.order > 0
      /\ call.want <= o /\ UNCHANGED <<chunks, early, held>>
  BY <1>1 DEF SplitEffect
<1>4. /\ frames[i].order = call.order /\ ~frames[i].listed /\ ~frames[i].used
      /\ ~Live(frames, InHand, j) /\ ~frames[j].listed /\ frames[j].pool = NoPool
  BY <1>1 DEF SplitEffect
<1>5. /\ frames' \in FrameArray /\ frames'[j] = FreeFrame(o)
      /\ frames'[i].order = o /\ ~frames'[i].listed /\ ~frames'[i].used
      /\ frames'[i].pool = frames[i].pool
      /\ \A f \in Frames : f # i /\ f # j => frames'[f] = frames[f]
  BY <1>1 DEF SplitEffect
<1>6. /\ frames'[j].order = o /\ frames'[j].listed /\ ~frames'[j].used
      /\ frames'[j].pool = NoPool /\ o # -1
  BY <1>3, <1>5, FrameValues
<1>7. /\ call' \in Call /\ call'.at = "split" /\ call'.idx = i /\ call'.order = o
      /\ call'.want = call.want /\ call'.pool = call.pool /\ call'.size = call.size
      /\ freeArea' = ListAdd(freeArea, j, o)
  BY <1>1 DEF SplitEffect
<1>8. /\ freeArea' \in Area /\ AllDistinct(freeArea')
      /\ \A x \in Orders, f \in Frames :
           Lists(freeArea', x, f) <=> Lists(freeArea, x, f) \/ (x = o /\ f = j)
  <2>1. ~Lists(freeArea, o, j) /\ AllDistinct(freeArea)
    BY <1>3, <1>4 DEF BlockInv, ListsOK
  <2> QED BY <1>2, <1>3, <1>7, <2>1, ListAddFacts
<1>9. TypeOK'
  BY <1>3, <1>5, <1>7, <1>8 DEF BlockInv, TypeOK, FrameArray, Area
<1>10. Metadata'
  BY <1>3, <1>4, <1>5, <1>6 DEF BlockInv, Metadata
<1>11. ListsOK'
  BY <1>3, <1>4, <1>5, <1>6, <1>8 DEF BlockInv, ListsOK
<1>12. LoopOK'
  <2>1. /\ call.pool # NoPool => call.want = 0 /\ chunks[call.pool] = <<>>
        /\ Fits(call.size, call.want, call.pool)
    BY <1>2 DEF BlockInv, LoopOK
  <2> QED BY <1>3, <1>5, <1>7, <2>1 DEF LoopOK, Looping
<1>13. HeldOK' /\ PoolsOK'
  <2>1. \A f \in Frames : frames[f].used /\ frames[f].order # -1 => frames'[f] = frames[f]
    BY <1>3, <1>4, <1>5 DEF Live
  <2> QED BY <1>3, <2>1, UseKept
<1>14. BootOK'
  BY <1>7 DEF BootOK, Booting
<1>15. InHand = {i} /\ InHand' = {i} /\ Divided = FrameCount /\ Divided' = FrameCount
  BY <1>2, <1>3, <1>7 DEF InHand, Looping, Divided
<1>16. Split2(frames, InHand, frames', InHand', i, j)
  <2>1. frames[i].order > 0 /\ j = i + Size[frames[i].order - 1]
    BY <1>3, <1>4
  <2>2. Live(frames', InHand', i) /\ Live(frames', InHand', j)
    BY <1>3, <1>5, <1>6, <1>15 DEF Live
  <2>3. frames'[i].order = frames[i].order - 1 /\ frames'[j].order = frames[i].order - 1
    BY <1>3, <1>4, <1>5, <1>6
  <2>4. \A f : f # i /\ f # j => (Live(frames', InHand', f) <=> Live(frames, InHand, f))
    BY <1>5, <1>15 DEF Live
  <2>5. \A f \in Frames : f # i /\ f # j => frames'[f].order = frames[f].order
    BY <1>5
  <2> QED BY <2>1, <2>2, <2>3, <2>4, <2>5 DEF Split2
<1>17. Live(frames, InHand, i) /\ Tiles(frames, InHand, FrameCount)
  <2>1. call.order # -1
    BY <1>3
  <2> QED BY <1>3, <1>4, <1>15, <2>1 DEF Live, BlockInv
<1>18. Tiles(frames', InHand', FrameCount)
  BY <1>2, <1>5, <1>16, <1>17, SplitTiles, Constants
<1> QED BY <1>9, <1>10, <1>11, <1>12, <1>13, <1>14, <1>15, <1>18 DEF BlockInv

(***************************************************************************)
(* The chunks of a page.                                                   *)
(***************************************************************************)
\* Where the chunks of a page of pool p start.
Offsets(p) == {(k - 1) * PoolSizes[p] : k \in 1 .. PageSize \div PoolSizes[p]}

\* A page has a chunk of every pool.
LEMMA PoolSizeFacts ==
  ASSUME NEW p \in Pools
  PROVE  /\ PoolSizes[p] \in Nat /\ PoolSizes[p] >= 1 /\ p # NoPool
         /\ PageSize \div PoolSizes[p] \in Nat /\ PageSize \div PoolSizes[p] >= 1
         /\ PoolSizes[p] * (PageSize \div PoolSizes[p]) <= PageSize
<1> DEFINE s == PoolSizes[p]
           n == PageSize \div s
<1>1. s \in Nat /\ s >= 1 /\ s <= PageSize /\ p # NoPool
  BY BuddyAssumption DEF Pools, NoPool
<1> HIDE DEF s
<1>2. n \in Int /\ s * n <= PageSize /\ PageSize < s * n + s
  BY <1>1, Constants, DivFacts
<1> HIDE DEF n
<1>3. n >= 1
  <2>1. ASSUME n <= 0 PROVE FALSE
    <3>1. s * n <= 0
      BY <1>1, <1>2, <2>1
    <3> QED BY <1>1, <1>2, <3>1, Constants
  <2> QED BY <1>2, <2>1
<1> QED BY <1>1, <1>2, <1>3 DEF s, n

\* Chunks fit into the page, one behind the other.
LEMMA OffsetFacts ==
  ASSUME NEW p \in Pools, NEW k \in 1 .. PageSize \div PoolSizes[p]
  PROVE  /\ (k - 1) * PoolSizes[p] \in 0 .. PageSize - 1
         /\ (k - 1) * PoolSizes[p] + PoolSizes[p] <= PageSize
         /\ \A m \in 1 .. PageSize \div PoolSizes[p] :
              k < m => (k - 1) * PoolSizes[p] + PoolSizes[p] <= (m - 1) * PoolSizes[p]
<1> DEFINE s == PoolSizes[p]
           n == PageSize \div s
<1>1. s \in Nat /\ s >= 1 /\ n \in Nat /\ s * n <= PageSize /\ PageSize \in Nat
  BY PoolSizeFacts, Constants
<1>2. k \in 1 .. n
  OBVIOUS
<1> HIDE DEF s, n
<1>3. (k - 1) * s \in Int /\ (k - 1) * s >= 0
  BY <1>1, <1>2
<1>4. (k - 1) * s + s <= s * n
  BY <1>1, <1>2
<1>5. ASSUME NEW m \in 1 .. n, k < m PROVE (k - 1) * s + s <= (m - 1) * s
  BY <1>1, <1>2, <1>5
<1>6. s * n \in Nat
  BY <1>1
<1>7. (k - 1) * s + s <= PageSize /\ (k - 1) * s \in 0 .. PageSize - 1
  BY <1>1, <1>3, <1>4, <1>6
<1> QED BY <1>5, <1>7 DEF s, n

\* refill_chunk_pool lists every chunk of the page once.
LEMMA PageChunkFacts ==
  ASSUME NEW i \in Frames, NEW p \in Pools
  PROVE  LET q == PageChunks(i, p)
         IN  /\ q \in Seq(Chunk) /\ q # <<>> /\ Distinct(q)
             /\ \A n \in 1 .. Len(q) : q[n].page = i /\ q[n].off \in Offsets(p)
             /\ \A x \in Offsets(p) : On(q, [page |-> i, off |-> x])
<1> DEFINE s == PoolSizes[p]
           m == PageSize \div s
           q == PageChunks(i, p)
<1>1. s \in Nat /\ s >= 1 /\ m \in Nat /\ m >= 1
  BY PoolSizeFacts
<1>2. q = [k \in 1 .. m |-> [page |-> i, off |-> (m - k) * s]]
  BY DEF PageChunks
<1>3. \A k \in 1 .. m : m - k + 1 \in 1 .. m /\ (m - k + 1) - 1 = m - k
  BY <1>1
<1>4. Offsets(p) = {(k - 1) * s : k \in 1 .. m}
  BY DEF Offsets
<1>5. \A k \in 1 .. m : (m - k) * s \in 0 .. PageSize - 1 /\ (m - k) * s \in Offsets(p)
  <2> SUFFICES ASSUME NEW k \in 1 .. m
               PROVE  (m - k) * s \in 0 .. PageSize - 1 /\ (m - k) * s \in Offsets(p)
    OBVIOUS
  <2>1. m - k + 1 \in 1 .. m /\ (m - k + 1) - 1 = m - k
    BY <1>3
  <2>2. ((m - k + 1) - 1) * s \in 0 .. PageSize - 1
    BY <2>1, OffsetFacts
  <2>3. ((m - k + 1) - 1) * s \in Offsets(p)
    BY <1>4, <2>1
  <2> QED BY <2>1, <2>2, <2>3
<1>6. \A j, k \in 1 .. m : (m - j) * s = (m - k) * s => j = k
  <2> SUFFICES ASSUME NEW j \in 1 .. m, NEW k \in 1 .. m, (m - j) * s = (m - k) * s
               PROVE  j = k
    OBVIOUS
  <2>1. (m - j) * s - (m - k) * s = (k - j) * s
    BY <1>1
  <2>2. (k - j) * s = 0
    BY <1>1, <2>1
  <2> QED BY <1>1, <2>2
<1> HIDE DEF q, m, s
<1>7. q \in Seq(Chunk) /\ Len(q) = m
  <2>1. \A k \in 1 .. m : q[k] = [page |-> i, off |-> (m - k) * s] /\ q[k] \in Chunk
    BY <1>2, <1>5 DEF Chunk
  <2>2. q \in [1 .. m -> Chunk]
    BY <1>2, <2>1
  <2> QED BY <1>1, <2>2
<1>8. \A n \in 1 .. Len(q) : q[n] = [page |-> i, off |-> (m - n) * s]
  BY <1>2, <1>7
<1>9. q # <<>> /\ Distinct(q)
  <2>1. q # <<>>
    BY <1>1, <1>7
  <2>2. ASSUME NEW j \in 1 .. Len(q), NEW k \in 1 .. Len(q), q[j] = q[k] PROVE j = k
    <3> DEFINE x == (m - j) * s
               y == (m - k) * s
    <3>0. q[j] = [page |-> i, off |-> x] /\ q[k] = [page |-> i, off |-> y]
      BY <1>8
    <3> HIDE DEF x, y
    <3>1. [page |-> i, off |-> x] = [page |-> i, off |-> y]
      BY <2>2, <3>0, Zenon
    <3>2. x = y
      BY <3>1
    <3> QED BY <1>6, <1>7, <3>2 DEF x, y
  <2> QED BY <2>1, <2>2 DEF Distinct
<1>10. \A n \in 1 .. Len(q) : q[n].page = i /\ q[n].off \in Offsets(p)
  BY <1>5, <1>7, <1>8
<1>11. ASSUME NEW x \in Offsets(p) PROVE On(q, [page |-> i, off |-> x])
  <2>1. PICK k \in 1 .. m : x = (k - 1) * s
    BY <1>4
  <2>2. m - k + 1 \in 1 .. m /\ m - (m - k + 1) = k - 1
    BY <1>1
  <2>3. q[m - k + 1] = [page |-> i, off |-> x]
    BY <1>7, <1>8, <2>1, <2>2
  <2> QED BY <1>7, <2>2, <2>3 DEF On
<1> QED BY <1>7, <1>9, <1>10, <1>11 DEF q

\* A list without its first entry.
LEMMA TailFacts ==
  ASSUME NEW S, NEW q \in Seq(S), q # <<>>, Distinct(q)
  PROVE  /\ Head(q) \in S /\ Tail(q) \in Seq(S) /\ Distinct(Tail(q))
         /\ 1 \in 1 .. Len(q) /\ Head(q) = q[1]
         /\ \A x : On(Tail(q), x) <=> x # Head(q) /\ On(q, x)
         /\ \A n \in 1 .. Len(Tail(q)) : n + 1 \in 1 .. Len(q) /\ Tail(q)[n] = q[n + 1]
<1> DEFINE u == Tail(q)
<1>1. /\ Head(q) = q[1] /\ q[1] \in S /\ Len(q) \in Nat /\ Len(q) > 0
      /\ u \in Seq(S) /\ Len(u) = Len(q) - 1
      /\ \A n \in 1 .. Len(q) - 1 : u[n] = q[n + 1]
  OBVIOUS
<1> HIDE DEF u
<1>2. \A n \in 1 .. Len(u) : n \in Nat /\ n + 1 \in 1 .. Len(q) /\ n + 1 # 1 /\ u[n] = q[n + 1]
  BY <1>1
<1>3. Distinct(u)
  <2> SUFFICES ASSUME NEW m \in 1 .. Len(u), NEW n \in 1 .. Len(u), u[m] = u[n]
               PROVE  m = n
    BY DEF Distinct
  <2>1. m + 1 = n + 1
    BY <1>2 DEF Distinct
  <2> QED BY <1>2, <2>1
<1>4. ASSUME NEW x PROVE On(u, x) <=> x # q[1] /\ On(q, x)
  <2>1. ASSUME On(u, x) PROVE x # q[1] /\ On(q, x)
    <3>1. PICK n \in 1 .. Len(u) : u[n] = x
      BY <2>1 DEF On
    <3>2. n + 1 \in 1 .. Len(q) /\ n + 1 # 1 /\ q[n + 1] = x /\ 1 \in 1 .. Len(q)
      BY <1>1, <1>2, <3>1
    <3> QED BY <3>2 DEF On, Distinct
  <2>2. ASSUME x # q[1], On(q, x) PROVE On(u, x)
    <3>1. PICK n \in 1 .. Len(q) : q[n] = x
      BY <2>2 DEF On
    <3>2. n - 1 \in 1 .. Len(u) /\ (n - 1) + 1 = n
      BY <1>1, <2>2, <3>1
    <3> QED BY <1>2, <3>1, <3>2 DEF On
  <2> QED BY <2>1, <2>2
<1> QED BY <1>1, <1>2, <1>3, <1>4 DEF u

\* What is left of a page once alloc_chunk has popped its last chunk.
LEMMA RefilledFacts ==
  ASSUME NEW i \in Frames, NEW p \in Pools, chunks[p] = <<>>
  PROVE  LET q == PageChunks(i, p)
         IN  /\ Refilled(i, p) = Tail(q)
             /\ Refilled(i, p) \in Seq(Chunk) /\ Distinct(Refilled(i, p))
             /\ \A n \in 1 .. Len(Refilled(i, p)) :
                  Refilled(i, p)[n].page = i /\ Refilled(i, p)[n].off \in Offsets(p)
             /\ Head(q) \in Chunk /\ Head(q).page = i /\ Head(q).off \in Offsets(p)
             /\ \A x \in Offsets(p) :
                  On(Refilled(i, p), [page |-> i, off |-> x]) <=> x # Head(q).off
<1> DEFINE q == PageChunks(i, p)
<1>1. /\ q \in Seq(Chunk) /\ q # <<>> /\ Distinct(q)
      /\ \A n \in 1 .. Len(q) : q[n].page = i /\ q[n].off \in Offsets(p)
      /\ \A x \in Offsets(p) : On(q, [page |-> i, off |-> x])
  BY PageChunkFacts
<1>2. Refilled(i, p) = Tail(q \o <<>>)
  BY DEF Refilled
<1> HIDE DEF q
<1>3. q \o <<>> = q
  BY <1>1
<1>4. Refilled(i, p) = Tail(q)
  BY <1>2, <1>3
<1>5. /\ Head(q) \in Chunk /\ Tail(q) \in Seq(Chunk) /\ Distinct(Tail(q))
      /\ 1 \in 1 .. Len(q) /\ Head(q) = q[1]
      /\ \A x : On(Tail(q), x) <=> x # Head(q) /\ On(q, x)
      /\ \A n \in 1 .. Len(Tail(q)) : n + 1 \in 1 .. Len(q) /\ Tail(q)[n] = q[n + 1]
  BY <1>1, TailFacts
<1>6. Head(q).page = i /\ Head(q).off \in Offsets(p)
  BY <1>1, <1>5
<1>7. Head(q) = [page |-> i, off |-> Head(q).off]
  BY <1>5, <1>6 DEF Chunk
<1>8. \A x \in Offsets(p) : On(Tail(q), [page |-> i, off |-> x]) <=> x # Head(q).off
  <2> SUFFICES ASSUME NEW x \in Offsets(p)
               PROVE  On(Tail(q), [page |-> i, off |-> x]) <=> x # Head(q).off
    OBVIOUS
  <2>1. On(q, [page |-> i, off |-> x])
    BY <1>1
  <2>2. [page |-> i, off |-> x] # Head(q) <=> x # Head(q).off
    BY <1>7
  <2> QED BY <1>5, <2>1, <2>2
<1> QED BY <1>1, <1>4, <1>5, <1>6, <1>8 DEF q

(***************************************************************************)
(* Allocating and freeing, as far as blocks are concerned.                 *)
(***************************************************************************)
\* What alloc_pages does with the block it returns: p is the pool it was for, x
\* the offset of the pointer that the caller gets.
DoneEffect(i, p, x) ==
  /\ frames' \in FrameArray
  /\ frames'[i].used /\ ~frames'[i].listed
  /\ frames'[i].order = call.want /\ frames'[i].pool = p
  /\ \A f \in Frames : f # i => frames'[f] = frames[f]
  /\ held' = held \cup {[page |-> i, off |-> x, size |-> call.size]}
  /\ IF p = NoPool THEN x = 0 /\ chunks' = chunks
     ELSE /\ x = Head(PageChunks(i, p)).off
          /\ chunks' = [chunks EXCEPT ![p] = Refilled(i, p)]

\* What AllocDone does, for a block and for a page of chunks.
LEMMA DoneEffects ==
  ASSUME BlockInv, AllocDone
  PROVE  \E x \in 0 .. PageSize - 1 : DoneEffect(call.idx, call.pool, x)
<1> DEFINE i == call.idx
           p == call.pool
<1>1. /\ call \in Call /\ frames \in FrameArray /\ call.at = "split" /\ call.order = call.want
  BY DEF BlockInv, TypeOK, FrameArray, AllocDone
<1>2. i \in Frames /\ p \in Pools \cup {NoPool} /\ call.want \in Orders
  BY <1>1 DEF Call, BlockInv, LoopOK, Looping
<1>3. CASE p = NoPool
  <2>1. /\ frames' = [frames EXCEPT ![i] = UsedFrame(call.want)]
        /\ held' = held \cup {[page |-> i, off |-> 0, size |-> call.size]}
        /\ chunks' = chunks
    BY <1>3 DEF AllocDone, Give
  <2>2. /\ UsedFrame(call.want) \in Frame
        /\ UsedFrame(call.want).order = call.want /\ ~UsedFrame(call.want).listed
        /\ UsedFrame(call.want).used /\ UsedFrame(call.want).pool = NoPool
    BY <1>2, FrameValues
  <2>3. /\ frames' \in FrameArray /\ frames'[i] = UsedFrame(call.want)
        /\ \A f \in Frames : f # i => frames'[f] = frames[f]
    BY <1>1, <1>2, <2>1, <2>2 DEF FrameArray
  <2>4. 0 \in 0 .. PageSize - 1
    BY Constants
  <2>5. DoneEffect(i, p, 0)
    BY <1>3, <2>1, <2>2, <2>3 DEF DoneEffect
  <2> QED BY <2>4, <2>5
<1>4. CASE p # NoPool
  <2> DEFINE new == [UsedFrame(0) EXCEPT !.pool = p]
             x == Head(PageChunks(i, p)).off
  <2>1. /\ frames' = [frames EXCEPT ![i] = new]
        /\ held' = held \cup {[page |-> i, off |-> x, size |-> call.size]}
        /\ chunks' = [chunks EXCEPT ![p] = Refilled(i, p)]
    BY <1>4 DEF AllocDone, Give
  <2>2. call.want = 0 /\ chunks[p] = <<>> /\ p \in Pools
    BY <1>1, <1>2, <1>4 DEF BlockInv, LoopOK
  <2>3. /\ new \in Frame /\ new.order = call.want /\ ~new.listed /\ new.used /\ new.pool = p
    BY <1>2, <2>2, Constants DEF UsedFrame, Frame
  <2>4. x \in 0 .. PageSize - 1
    BY <1>2, <2>2, RefilledFacts DEF Chunk
  <2> HIDE DEF new, x
  <2>5. /\ frames' \in FrameArray /\ frames'[i] = new
        /\ \A f \in Frames : f # i => frames'[f] = frames[f]
    BY <1>1, <1>2, <2>1, <2>3 DEF FrameArray
  <2>6. DoneEffect(i, p, x)
    BY <1>4, <2>1, <2>3, <2>5 DEF DoneEffect, x
  <2> QED BY <2>4, <2>6
<1> QED BY <1>3, <1>4

\* alloc_pages hands its block to the caller, or to a pool.
LEMMA DoneInv == ASSUME BlockInv, AllocDone PROVE BlockInv'
<1> DEFINE i == call.idx
           p == call.pool
<1>1. /\ call \in Call /\ frames \in FrameArray /\ call.at = "split" /\ call.order = call.want
      /\ call' = Idle /\ UNCHANGED <<freeArea, early>>
      /\ held \in SUBSET Pointer /\ chunks \in [Pools -> Seq(Chunk)]
  BY DEF BlockInv, TypeOK, FrameArray, Chunk, AllocDone
<1>2. PICK x \in 0 .. PageSize - 1 : DoneEffect(i, p, x)
  BY DoneEffects
<1>3. /\ i \in Frames /\ p \in Pools \cup {NoPool} /\ call.want \in Orders /\ call.size \in Nat
      /\ frames[i].order = call.want /\ ~frames[i].listed /\ ~frames[i].used
      /\ Fits(call.size, call.want, p)
      /\ p # NoPool => call.want = 0 /\ chunks[p] = <<>>
      /\ call.want # -1
      /\ InHand = {i} /\ Divided = FrameCount
  BY <1>1, Constants DEF Call, BlockInv, LoopOK, Looping, InHand, Divided
<1> DEFINE new == [page |-> i, off |-> x, size |-> call.size]
<1>4. new \in Pointer /\ new.page = i /\ new.off = x /\ new.size = call.size
  BY <1>3 DEF Pointer
<1>5. held' = held \cup {new}
  BY <1>2 DEF DoneEffect
<1> HIDE DEF new, i, p
<1>6. /\ frames' \in FrameArray
      /\ frames'[i].used /\ ~frames'[i].listed
      /\ frames'[i].order = call.want /\ frames'[i].pool = p
      /\ \A f \in Frames : f # i => frames'[f] = frames[f]
      /\ p = NoPool => x = 0 /\ chunks' = chunks
      /\ p # NoPool => chunks' = [chunks EXCEPT ![p] = Refilled(i, p)]
  BY <1>2 DEF DoneEffect
<1>7. \A h \in held : h.page \in Frames /\ h.page # i
  BY <1>1, <1>3 DEF Pointer, BlockInv, HeldOK
<1>8. chunks' \in [Pools -> Seq(Chunk)] /\ PoolsOK'
  <2>1. ASSUME NEW r \in Pools, NEW n \in 1 .. Len(chunks[r])
        PROVE  frames'[chunks[r][n].page].pool = r
    <3> DEFINE f == chunks[r][n].page
    <3>1. f \in Frames /\ frames[f].pool = r /\ r # NoPool
      BY ChunkTypes, PoolSizeFacts DEF BlockInv, PoolsOK
    <3>2. f # i
      BY <1>3, <3>1 DEF BlockInv, Metadata
    <3> QED BY <1>6, <3>1, <3>2
  <2>2. CASE p = NoPool
    BY <1>1, <1>6, <2>1, <2>2 DEF PoolsOK
  <2>3. CASE p # NoPool
    <3>1. p \in Pools /\ Refilled(i, p) \in Seq(Chunk)
          /\ \A n \in 1 .. Len(Refilled(i, p)) : Refilled(i, p)[n].page = i
      BY <1>3, <2>3, RefilledFacts
    <3>2. chunks' \in [Pools -> Seq(Chunk)] /\ chunks'[p] = Refilled(i, p)
          /\ \A r \in Pools : r # p => chunks'[r] = chunks[r]
      <4>1. chunks \in [Pools -> Seq(Chunk)] /\ chunks' = [chunks EXCEPT ![p] = Refilled(i, p)]
        BY <1>1, <1>6, <2>3
      <4> QED BY <4>1, <3>1
    <3>3. ASSUME NEW r \in Pools, NEW n \in 1 .. Len(chunks'[r])
          PROVE  frames'[chunks'[r][n].page].pool = r
      <4>1. CASE r = p
        BY <1>6, <3>1, <3>2, <4>1
      <4>2. CASE r # p
        BY <2>1, <3>2, <4>2
      <4> QED BY <4>1, <4>2
    <3> QED BY <3>2, <3>3 DEF PoolsOK
  <2> QED BY <2>2, <2>3
<1>9. call' \in Call /\ call'.at = "idle"
  BY <1>1, CallValues, Constants DEF Idle
<1>10. TypeOK'
  <2>1. held' \in SUBSET Pointer
    BY <1>1, <1>4, <1>5
  <2> QED BY <1>1, <1>6, <1>8, <1>9, <2>1 DEF BlockInv, TypeOK, FrameArray, Chunk
<1>11. Metadata'
  BY <1>3, <1>6 DEF BlockInv, Metadata
<1>12. ListsOK'
  BY <1>1, <1>3, <1>6 DEF BlockInv, ListsOK
<1>13. LoopOK' /\ BootOK'
  BY <1>9 DEF LoopOK, BootOK, Looping, Booting
<1>14. HeldOK'
  <2> SUFFICES ASSUME NEW h \in held'
               PROVE  /\ frames'[h.page].used /\ frames'[h.page].order # -1
                      /\ Fits(h.size, frames'[h.page].order, frames'[h.page].pool)
                      /\ frames'[h.page].pool = NoPool =>
                           h.off = 0 /\ \A g \in held' : g.page = h.page => g = h
    BY DEF HeldOK, Fits
  <2>1. CASE h \in held
    <3>1. h.page \in Frames /\ h.page # i /\ frames'[h.page] = frames[h.page]
      BY <1>6, <1>7, <2>1
    <3>2. /\ frames[h.page].used /\ frames[h.page].order # -1
          /\ Fits(h.size, frames[h.page].order, frames[h.page].pool)
          /\ frames[h.page].pool = NoPool =>
               h.off = 0 /\ \A g \in held : g.page = h.page => g = h
      BY <2>1 DEF BlockInv, HeldOK
    <3>3. \A g \in held' : g.page = h.page => g \in held
      BY <1>4, <1>5, <3>1
    <3> QED BY <3>1, <3>2, <3>3
  <2>2. CASE h = new
    <3>1. \A g \in held' : g.page = h.page => g = h
      BY <1>4, <1>5, <1>7, <2>2
    <3> QED BY <1>3, <1>4, <1>6, <2>2, <3>1
  <2> QED BY <1>5, <2>1, <2>2
<1>15. InHand' = {} /\ Divided' = FrameCount
  BY <1>9 DEF InHand, Looping, Divided
<1>16. \A f : Live(frames', InHand', f) <=> Live(frames, InHand, f)
  BY <1>3, <1>6, <1>15 DEF Live
<1>17. \A f : Live(frames, InHand, f) => frames'[f].order = frames[f].order
  BY <1>3, <1>6 DEF Live
<1>18. Tiles(frames, InHand, FrameCount)
  BY <1>3 DEF BlockInv
<1>19. Tiles(frames', InHand', FrameCount)
  BY <1>1, <1>6, <1>16, <1>17, <1>18, SameTiles
<1> QED BY <1>8, <1>10, <1>11, <1>12, <1>13, <1>14, <1>15, <1>19 DEF BlockInv

\* Steps of allocate and free that touch neither blocks nor loops, only chunks.
ChunkStep ==
  /\ call.at = "idle" /\ UNCHANGED <<frames, freeArea, early, call>>

\* Nothing but chunks goes to callers, and from callers to the lists of its pool.
ChunkUse ==
  /\ held' \in SUBSET Pointer
  /\ \A h \in held' : h \in held \/ (/\ frames[h.page].pool # NoPool
                                     /\ Fits(h.size, 0, frames[h.page].pool))
  /\ chunks' \in [Pools -> Seq(Chunk)]
  /\ \A r \in Pools : \A n \in 1 .. Len(chunks'[r]) : frames[chunks'[r][n].page].pool = r

\* A step that moves a chunk between its list and a caller.
LEMMA ChunkStepInv == ASSUME BlockInv, ChunkStep, ChunkUse PROVE BlockInv'
<1>1. \A h \in held' : h.page \in Frames
  BY DEF Pointer, ChunkUse
<1>2. TypeOK'
  BY DEF ChunkStep, ChunkUse, BlockInv, TypeOK, Chunk
<1>3. Metadata' /\ ListsOK' /\ LoopOK' /\ BootOK'
  BY DEF ChunkStep, BlockInv, Metadata, ListsOK, LoopOK, BootOK, Looping, Booting
<1>4. PoolsOK'
  BY DEF ChunkStep, ChunkUse, PoolsOK
<1>5. HeldOK'
  <2> SUFFICES ASSUME NEW h \in held'
               PROVE  /\ frames[h.page].used /\ frames[h.page].order # -1
                      /\ Fits(h.size, frames[h.page].order, frames[h.page].pool)
                      /\ frames[h.page].pool = NoPool =>
                           h.off = 0 /\ \A g \in held' : g.page = h.page => g = h
    BY DEF HeldOK, Fits, ChunkStep
  <2>1. CASE h \in held
    <3>1. /\ frames[h.page].used /\ frames[h.page].order # -1
          /\ Fits(h.size, frames[h.page].order, frames[h.page].pool)
          /\ frames[h.page].pool = NoPool =>
               h.off = 0 /\ \A g \in held : g.page = h.page => g = h
      BY <2>1 DEF BlockInv, HeldOK
    <3>2. frames[h.page].pool = NoPool => \A g \in held' : g.page = h.page => g \in held
      BY DEF ChunkUse
    <3> QED BY <3>1, <3>2
  <2>2. CASE frames[h.page].pool # NoPool /\ Fits(h.size, 0, frames[h.page].pool)
    BY <1>1, <2>2, Constants DEF BlockInv, Metadata, Fits
  <2> QED BY <2>1, <2>2 DEF ChunkUse
<1>6. Tiles(frames', InHand', Divided')
  BY DEF BlockInv, ChunkStep, InHand, Divided, Looping
<1> QED BY <1>2, <1>3, <1>4, <1>5, <1>6 DEF BlockInv

\* find_pool and size_to_order find a chunk or block that is large enough.
LEMMA RequestFacts ==
  ASSUME NEW n \in Requests
  PROVE  /\ n \in Nat /\ n >= 1
         /\ Small(n) => FindPool(n) \in Pools /\ n <= PoolSizes[FindPool(n)]
         /\ SizeToOrder(n) \in Orders /\ n <= Size[SizeToOrder(n)] * PageSize
<1>1. PageSize * Size[MaxOrder] \in Nat /\ PageSize * Size[MaxOrder] = Size[MaxOrder] * PageSize
  BY Constants, SizePositive
<1>2. n \in Nat /\ n >= 1 /\ n <= Size[MaxOrder] * PageSize
  BY <1>1, BuddyAssumption
<1>3. ASSUME Small(n) PROVE FindPool(n) \in Pools /\ n <= PoolSizes[FindPool(n)]
  <2> DEFINE S == {p \in Pools : n <= PoolSizes[p]}
  <2>1. Len(PoolSizes) \in Pools /\ Pools \subseteq Nat
    BY BuddyAssumption DEF Pools
  <2>2. S # {} /\ S \in SUBSET Nat
    BY <1>3, <2>1 DEF Small
  <2>3. Least(S) \in S
    BY <2>2, LeastFacts
  <2> QED BY <2>3 DEF FindPool
<1>4. SizeToOrder(n) \in Orders /\ n <= Size[SizeToOrder(n)] * PageSize
  <2> DEFINE S == {o \in Orders : n <= Size[o] * PageSize}
  <2>1. S # {} /\ S \in SUBSET Nat
    BY <1>2, Constants
  <2>2. Least(S) \in S
    BY <2>1, LeastFacts
  <2> QED BY <2>2 DEF SizeToOrder
<1> QED BY <1>2, <1>3, <1>4

\* allocate with a chunk at hand.
PopsChunk(n, p) ==
  /\ ChunkStep /\ p \in Pools /\ n \in Nat /\ n >= 1 /\ n <= PoolSizes[p] /\ chunks[p] # <<>>
  /\ held' = held \cup {[page |-> Head(chunks[p]).page, off |-> Head(chunks[p]).off, size |-> n]}
  /\ chunks' = [chunks EXCEPT ![p] = Tail(chunks[p])]

\* allocate goes to alloc_pages, or has a chunk at hand.
LEMMA AllocateCases ==
  ASSUME Allocate
  PROVE  \/ \E n \in Nat, o \in Orders, p \in Pools \cup {NoPool} :
              /\ n >= 1 /\ Fits(n, o, p) /\ (p # NoPool => o = 0 /\ chunks[p] = <<>>)
              /\ AllocPages(o, p, n)
         \/ \E n \in Nat, p \in Pools : PopsChunk(n, p)
<1>1. PICK n \in Requests :
        IF ~Small(n) THEN AllocPages(SizeToOrder(n), NoPool, n)
        ELSE LET p == FindPool(n)
             IN  IF chunks[p] = <<>> THEN AllocPages(0, p, n)
                 ELSE /\ Give(Head(chunks[p]).page, Head(chunks[p]).off, n)
                      /\ chunks' = [chunks EXCEPT ![p] = Tail(@)]
                      /\ UNCHANGED <<frames, freeArea, early, call>>
  BY DEF Allocate
<1>2. n \in Nat /\ n >= 1
  BY RequestFacts
<1>3. CASE ~Small(n)
  <2>1. SizeToOrder(n) \in Orders /\ Fits(n, SizeToOrder(n), NoPool)
    BY RequestFacts DEF Fits
  <2>2. AllocPages(SizeToOrder(n), NoPool, n)
    BY <1>1, <1>3
  <2> QED BY <1>2, <2>1, <2>2
<1>4. CASE Small(n)
  <2> DEFINE p == FindPool(n)
  <2>1. p \in Pools /\ n <= PoolSizes[p] /\ p # NoPool
    BY <1>4, RequestFacts, PoolSizeFacts
  <2>2. CASE chunks[p] = <<>>
    <3>1. AllocPages(0, p, n)
      BY <1>1, <1>4, <2>2
    <3> HIDE DEF p
    <3>2. Fits(n, 0, p) /\ 0 \in Orders
      BY <2>1, Constants DEF Fits
    <3> QED BY <1>2, <2>1, <2>2, <3>1, <3>2
  <2>3. CASE chunks[p] # <<>>
    <3>1. /\ Give(Head(chunks[p]).page, Head(chunks[p]).off, n)
          /\ chunks' = [chunks EXCEPT ![p] = Tail(@)]
          /\ UNCHANGED <<frames, freeArea, early, call>>
      BY <1>1, <1>4, <2>3
    <3>2. call.at = "idle"
      BY DEF Allocate, Idle, At
    <3> HIDE DEF p
    <3>3. PopsChunk(n, p)
      BY <1>2, <2>1, <2>3, <3>1, <3>2 DEF PopsChunk, ChunkStep, Give
    <3> QED BY <1>2, <2>1, <3>3
  <2> QED BY <2>2, <2>3
<1> QED BY <1>3, <1>4

\* The chunk at the head of a list.
LEMMA HeadChunk ==
  ASSUME BlockInv, NEW p \in Pools, chunks[p] # <<>>
  PROVE  LET c == Head(chunks[p])
         IN  /\ chunks[p] \in Seq(Chunk) /\ c \in Chunk /\ 1 \in 1 .. Len(chunks[p]) /\ c = chunks[p][1]
             /\ c.page \in Frames /\ frames[c.page].pool = p
             /\ Tail(chunks[p]) \in Seq(Chunk)
             /\ \A n \in 1 .. Len(Tail(chunks[p])) :
                  n + 1 \in 1 .. Len(chunks[p]) /\ Tail(chunks[p])[n] = chunks[p][n + 1]
<1>1. chunks[p] \in Seq(Chunk)
  BY DEF BlockInv, TypeOK, Chunk
<1>2. /\ Head(chunks[p]) = chunks[p][1] /\ 1 \in 1 .. Len(chunks[p])
      /\ Tail(chunks[p]) \in Seq(Chunk)
      /\ \A n \in 1 .. Len(Tail(chunks[p])) :
           n + 1 \in 1 .. Len(chunks[p]) /\ Tail(chunks[p])[n] = chunks[p][n + 1]
  BY <1>1
<1>3. Head(chunks[p]) \in Chunk /\ Head(chunks[p]).page \in Frames
  BY <1>2, ChunkTypes
<1>4. frames[Head(chunks[p]).page].pool = p
  BY <1>2 DEF BlockInv, PoolsOK
<1> QED BY <1>1, <1>2, <1>3, <1>4

\* alloc_chunk pops the head of a list.
LEMMA PopInv == ASSUME BlockInv, NEW z \in Nat, NEW p \in Pools, PopsChunk(z, p) PROVE BlockInv'
<1> DEFINE c == Head(chunks[p])
           new == [page |-> c.page, off |-> c.off, size |-> z]
<1>1. /\ c \in Chunk /\ frames[c.page].pool = p /\ p # NoPool
      /\ Tail(chunks[p]) \in Seq(Chunk)
      /\ \A m \in 1 .. Len(Tail(chunks[p])) :
           m + 1 \in 1 .. Len(chunks[p]) /\ Tail(chunks[p])[m] = chunks[p][m + 1]
  BY HeadChunk, PoolSizeFacts DEF PopsChunk
<1>2. new \in Pointer /\ new.page = c.page /\ new.size = z
  BY <1>1 DEF Chunk, Pointer
<1>3. /\ ChunkStep /\ z <= PoolSizes[p] /\ held' = held \cup {new}
      /\ chunks' = [chunks EXCEPT ![p] = Tail(chunks[p])]
  BY DEF PopsChunk
<1> HIDE DEF c, new
<1>4. held' \in SUBSET Pointer
  BY <1>2, <1>3 DEF BlockInv, TypeOK
<1>5. \A h \in held' : h \in held \/ (/\ frames[h.page].pool # NoPool
                                     /\ Fits(h.size, 0, frames[h.page].pool))
  BY <1>1, <1>2, <1>3 DEF Fits
<1>6. chunks \in [Pools -> Seq(Chunk)]
  BY DEF BlockInv, TypeOK, Chunk
<1>7. chunks' \in [Pools -> Seq(Chunk)] /\ chunks'[p] = Tail(chunks[p])
      /\ \A r \in Pools : r # p => chunks'[r] = chunks[r]
  BY <1>1, <1>3, <1>6
<1>8. ASSUME NEW r \in Pools, NEW m \in 1 .. Len(chunks'[r])
      PROVE  frames[chunks'[r][m].page].pool = r
  <2>1. CASE r = p
    <3>1. m + 1 \in 1 .. Len(chunks[p]) /\ chunks'[r][m] = chunks[p][m + 1]
      BY <1>1, <1>7, <2>1
    <3>2. frames[chunks[p][m + 1].page].pool = p
      BY <3>1 DEF BlockInv, PoolsOK
    <3> QED BY <2>1, <3>1, <3>2
  <2>2. CASE r # p
    BY <1>7, <2>2 DEF BlockInv, PoolsOK
  <2> QED BY <2>1, <2>2
<1>9. chunks' \in [Pools -> Seq(Chunk)] /\ ChunkStep
  BY <1>3, <1>7
<1>10. ChunkUse
  BY <1>4, <1>5, <1>8, <1>9 DEF ChunkUse
<1> QED BY <1>9, <1>10, ChunkStepInv

\* allocate finds a chunk, takes a block, or fails.
LEMMA AllocateInv == ASSUME BlockInv, Allocate PROVE BlockInv'
<1>1. call.at = "idle"
  BY DEF Allocate, Idle, At
<1>2. CASE \E n \in Nat, o \in Orders, p \in Pools \cup {NoPool} :
              /\ n >= 1 /\ Fits(n, o, p) /\ (p # NoPool => o = 0 /\ chunks[p] = <<>>)
              /\ AllocPages(o, p, n)
  <2>1. PICK n \in Nat, o \in Orders, p \in Pools \cup {NoPool} :
              /\ n >= 1 /\ Fits(n, o, p) /\ (p # NoPool => o = 0 /\ chunks[p] = <<>>)
              /\ AllocPages(o, p, n)
    BY <1>2
  <2>2. Fits(n, o, p) /\ AllocPages(o, p, n)
    BY <2>1
  <2>3. p # NoPool => o = 0 /\ chunks[p] = <<>>
    BY <2>1
  <2> QED BY <1>1, <2>2, <2>3, TakeInv
<1>3. CASE \E n \in Nat, p \in Pools : PopsChunk(n, p)
  BY <1>3, PopInv
<1> QED BY <1>2, <1>3, AllocateCases

\* free of a chunk.
PushesChunk(h, p) ==
  /\ ChunkStep /\ h \in held /\ p \in Pools /\ frames[h.page].pool = p
  /\ held' = held \ {h}
  /\ chunks' = [chunks EXCEPT ![p] = <<[page |-> h.page, off |-> h.off]>> \o chunks[p]]

\* free of a block.
FreesBlock(h) ==
  /\ call.at = "idle" /\ h \in held /\ frames[h.page].pool = NoPool
  /\ held' = held \ {h}
  /\ frames' = [frames EXCEPT ![h.page].used = FALSE]
  /\ call' = At("merge", h.page, frames[h.page].order)
  /\ UNCHANGED <<freeArea, chunks, early>>

\* A pointer that a caller holds.
LEMMA HeldTypes ==
  ASSUME BlockInv, NEW h \in held
  PROVE  /\ h \in Pointer /\ h.page \in Frames /\ h.page \in Nat /\ h.off \in 0 .. PageSize - 1
         /\ h.size \in Nat
         /\ frames[h.page] \in Frame /\ frames[h.page].pool \in Pools \cup {NoPool}
         /\ frames[h.page].order \in Orders /\ frames[h.page].used /\ ~frames[h.page].listed
<1>1. h \in Pointer /\ h.page \in Frames /\ h.off \in 0 .. PageSize - 1 /\ h.size \in Nat
  BY DEF BlockInv, TypeOK, Pointer
<1>2. frames[h.page] \in Frame
  BY <1>1 DEF BlockInv, TypeOK
<1>3. frames[h.page].used /\ frames[h.page].order # -1 /\ ~frames[h.page].listed
  BY <1>1 DEF BlockInv, HeldOK, Metadata
<1> QED BY <1>1, <1>2, <1>3, Constants DEF Frame

\* What Free does, for a chunk and for a block.
LEMMA FreeCases ==
  ASSUME BlockInv, Free
  PROVE  \/ \E h \in held, p \in Pools : PushesChunk(h, p)
         \/ \E h \in held : FreesBlock(h)
<1>1. PICK h \in held :
       /\ held' = held \ {h}
       /\ IF frames[h.page].pool # NoPool
          THEN /\ chunks' = [chunks EXCEPT ![frames[h.page].pool] =
                               <<[page |-> h.page, off |-> h.off]>> \o @]
               /\ UNCHANGED <<frames, call>>
          ELSE /\ frames' = [frames EXCEPT ![h.page].used = FALSE]
               /\ call' = At("merge", h.page, frames[h.page].order)
               /\ UNCHANGED chunks
  BY DEF Free
<1>2. call.at = "idle" /\ UNCHANGED <<freeArea, early>>
  BY DEF Free, Idle, At
<1>3. CASE frames[h.page].pool # NoPool
  <2>1. frames[h.page].pool \in Pools
    BY <1>3, HeldTypes
  <2>2. PushesChunk(h, frames[h.page].pool)
    BY <1>1, <1>2, <1>3, <2>1 DEF PushesChunk, ChunkStep
  <2> QED BY <2>1, <2>2
<1>4. CASE frames[h.page].pool = NoPool
  BY <1>1, <1>2, <1>4 DEF FreesBlock
<1> QED BY <1>3, <1>4

\* free pushes a chunk onto the list of its pool.
LEMMA PushInv ==
  ASSUME BlockInv, NEW h \in held, NEW p \in Pools, PushesChunk(h, p)
  PROVE  BlockInv'
<1> DEFINE c == [page |-> h.page, off |-> h.off]
           u == <<c>> \o chunks[p]
<1>1. c \in Chunk /\ c.page = h.page /\ chunks \in [Pools -> Seq(Chunk)]
  BY HeldTypes DEF Chunk, BlockInv, TypeOK
<1> HIDE DEF c
<1>2. /\ u \in Seq(Chunk) /\ Len(u) = Len(chunks[p]) + 1 /\ u[1] = c
      /\ \A m \in 2 .. Len(chunks[p]) + 1 : m - 1 \in 1 .. Len(chunks[p]) /\ u[m] = chunks[p][m - 1]
      /\ \A m \in 1 .. Len(u) : m = 1 \/ m \in 2 .. Len(chunks[p]) + 1
  BY <1>1
<1>3. /\ ChunkStep /\ frames[h.page].pool = p /\ held' = held \ {h}
      /\ chunks' = [chunks EXCEPT ![p] = u]
  BY DEF PushesChunk, c
<1> HIDE DEF u
<1>4. chunks' \in [Pools -> Seq(Chunk)] /\ chunks'[p] = u
      /\ \A r \in Pools : r # p => chunks'[r] = chunks[r]
  BY <1>1, <1>2, <1>3
<1>5. ASSUME NEW r \in Pools, NEW m \in 1 .. Len(chunks'[r])
      PROVE  frames[chunks'[r][m].page].pool = r
  <2>1. CASE r = p
    <3>1. CASE m = 1
      BY <1>1, <1>2, <1>3, <1>4, <2>1, <3>1
    <3>2. CASE m # 1
      <4>1. m - 1 \in 1 .. Len(chunks[p]) /\ chunks'[r][m] = chunks[p][m - 1]
        BY <1>2, <1>4, <2>1, <3>2
      <4>2. frames[chunks[p][m - 1].page].pool = p
        BY <4>1 DEF BlockInv, PoolsOK
      <4> QED BY <2>1, <4>1, <4>2
    <3> QED BY <3>1, <3>2
  <2>2. CASE r # p
    BY <1>4, <2>2 DEF BlockInv, PoolsOK
  <2> QED BY <2>1, <2>2
<1>6. held' \in SUBSET Pointer /\ \A g \in held' : g \in held
  BY <1>3 DEF BlockInv, TypeOK
<1>7. \A g \in held' : g \in held \/ (/\ frames[g.page].pool # NoPool
                                     /\ Fits(g.size, 0, frames[g.page].pool))
  BY <1>6
<1>8. ChunkUse
  BY <1>4, <1>5, <1>6, <1>7 DEF ChunkUse
<1> QED BY <1>3, <1>8, ChunkStepInv

\* free has the block of a caller in hand.
LEMMA FreeBlockInv == ASSUME BlockInv, NEW h \in held, FreesBlock(h) PROVE BlockInv'
<1> DEFINE i == h.page
           o == frames[i].order
<1>1. /\ i \in Frames /\ i \in Nat /\ o \in Orders /\ frames[i].used /\ ~frames[i].listed
      /\ frames[i] \in Frame
  BY HeldTypes
<1>2. frames \in FrameArray
  BY DEF BlockInv, TypeOK, FrameArray
<1>3. /\ call.at = "idle" /\ frames[i].pool = NoPool /\ held' = held \ {h}
      /\ frames' = [frames EXCEPT ![i].used = FALSE] /\ call' = At("merge", i, o)
      /\ UNCHANGED <<freeArea, chunks, early>>
  BY DEF FreesBlock
<1>4. call' \in Call /\ call'.at = "merge" /\ call'.idx = i /\ call'.order = o
  BY <1>1, <1>3, CallValues
<1> HIDE DEF i
<1>5. /\ frames' \in FrameArray
      /\ ~frames'[i].used /\ ~frames'[i].listed /\ frames'[i].order = o
      /\ frames'[i].pool = NoPool
      /\ \A f \in Frames : f # i => frames'[f] = frames[f]
  BY <1>1, <1>2, <1>3 DEF FrameArray, Frame
<1> HIDE DEF o
<1>6. o = frames[i].order
  BY DEF o
<1>7. \A g \in held' : g \in held /\ g.page # i /\ g.page \in Frames
  <2> SUFFICES ASSUME NEW g \in held' PROVE g \in held /\ g.page # i /\ g.page \in Frames
    OBVIOUS
  <2>1. g \in held /\ g # h
    BY <1>3
  <2> QED BY <1>3, <2>1, HeldTypes DEF BlockInv, HeldOK, i
<1>8. TypeOK'
  BY <1>3, <1>4, <1>5 DEF BlockInv, TypeOK, FrameArray
<1>9. Metadata'
  BY <1>5 DEF BlockInv, Metadata
<1>10. ListsOK'
  BY <1>1, <1>3, <1>5 DEF BlockInv, ListsOK
<1>11. LoopOK' /\ BootOK'
  BY <1>1, <1>4, <1>5 DEF LoopOK, BootOK, Looping, Booting
<1>12. HeldOK'
  BY <1>5, <1>7 DEF BlockInv, HeldOK, Fits
<1>13. PoolsOK'
  <2> SUFFICES ASSUME NEW r \in Pools, NEW n \in 1 .. Len(chunks[r])
               PROVE  frames'[chunks[r][n].page].pool = r
    BY <1>3 DEF PoolsOK
  <2>1. chunks[r][n].page \in Frames /\ frames[chunks[r][n].page].pool = r /\ r # NoPool
    BY ChunkTypes, PoolSizeFacts DEF BlockInv, PoolsOK
  <2> QED BY <1>3, <1>5, <2>1
<1>14. InHand = {} /\ InHand' = {i} /\ Divided = FrameCount /\ Divided' = FrameCount
  BY <1>3, <1>4 DEF InHand, Looping, Divided
<1>15. \A f : Live(frames', InHand', f) <=> Live(frames, InHand, f)
  BY <1>1, <1>5, <1>6, <1>14, Constants DEF Live
<1>16. \A f : Live(frames, InHand, f) => frames'[f].order = frames[f].order
  BY <1>5, <1>6 DEF Live
<1>17. Tiles(frames', InHand', FrameCount)
  BY <1>2, <1>5, <1>14, <1>15, <1>16, SameTiles DEF BlockInv
<1> QED BY <1>8, <1>9, <1>10, <1>11, <1>12, <1>13, <1>14, <1>17 DEF BlockInv

\* free keeps the invariant.
LEMMA FreeInv == ASSUME BlockInv, Free PROVE BlockInv'
BY FreeCases, PushInv, FreeBlockInv

(***************************************************************************)
(* free_pages.                                                             *)
(***************************************************************************)
\* The buddy is the neighbour on one side or the other.
LEMMA BuddyPlace ==
  ASSUME NEW i \in Nat, NEW o \in Orders
  PROVE  \/ BuddyOf(i, o) = i + Size[o]
         \/ BuddyOf(i, o) = i - Size[o] /\ i >= Size[o]
<1>1. Size[o] \in Nat /\ Size[o] >= 1
  BY SizePositive
<1>2. CASE (i \div Size[o]) % 2 = 0
  BY <1>2 DEF BuddyOf
<1>3. CASE (i \div Size[o]) % 2 # 0
  <2> DEFINE q == i \div Size[o]
  <2>1. q \in Int /\ Size[o] * q <= i /\ i < Size[o] * q + Size[o]
    <3>1. i \in Int /\ Size[o] > 0
      BY <1>1
    <3> QED BY <1>1, <3>1, DivFacts
  <2>2. q # 0
    BY <1>3
  <2> HIDE DEF q
  <2>3. q >= 1
    <3>1. ASSUME q <= -1 PROVE FALSE
      <4>1. Size[o] * q <= Size[o] * (-1)
        BY <1>1, <2>1, <3>1
      <4>2. Size[o] * q + Size[o] <= 0
        BY <1>1, <2>1, <4>1
      <4> QED BY <1>1, <2>1, <4>2
    <3> QED BY <2>1, <2>2, <3>1
  <2>4. i >= Size[o]
    BY <1>1, <2>1, <2>3
  <2> QED BY <1>3, <2>4 DEF BuddyOf
<1> QED BY <1>2, <1>3

\* The step of the merging loop: lo and hi are the two blocks, b the one that was
\* on a list.
MergeEffect(i, b, lo, hi, o) ==
  /\ i = call.idx /\ o = call.order /\ b = BuddyOf(i, o) /\ o < MaxOrder
  /\ hi = lo + Size[o] /\ ((lo = i /\ hi = b) \/ (lo = b /\ hi = i)) /\ i # b
  /\ b \in Frames /\ lo \in Frames /\ hi \in Frames /\ o \in Orders /\ o + 1 \in Orders
  /\ frames[b].listed /\ ~frames[b].used /\ frames[b].order = o /\ frames[b].pool = NoPool
  /\ frames' \in FrameArray
  /\ \A f \in Frames : f # i /\ f # b => frames'[f] = frames[f]
  /\ ~frames'[i].listed /\ ~frames'[i].used /\ frames'[i].pool = frames[i].pool
  /\ ~frames'[b].listed /\ ~frames'[b].used /\ frames'[b].pool = NoPool
  /\ frames'[lo].order = o + 1 /\ frames'[hi].order = frames[hi].order
  /\ freeArea' = ListDel(freeArea, b, o)
  /\ call' \in Call /\ call'.at = "merge" /\ call'.idx = lo /\ call'.order = o + 1
  /\ UNCHANGED <<chunks, early, held>>

\* What Merge does to the block in hand and its buddy.
LEMMA MergeEffects ==
  ASSUME BlockInv, Merge
  PROVE  \E lo, hi \in Frames :
           MergeEffect(call.idx, BuddyOf(call.idx, call.order), lo, hi, call.order)
<1> DEFINE i == call.idx
           o == call.order
           b == BuddyOf(i, o)
           lo == IF b < i THEN b ELSE i
           hi == IF b < i THEN i ELSE b
<1>1. /\ call.at = "merge" /\ o < MaxOrder
      /\ b < FrameCount /\ frames[b].listed /\ ~frames[b].used /\ frames[b].order = o
      /\ freeArea' = ListDel(freeArea, b, o)
      /\ frames' = [frames EXCEPT ![b].listed = FALSE, ![lo].order = o + 1, ![lo].used = FALSE]
      /\ call' = At("merge", lo, o + 1)
      /\ UNCHANGED <<chunks, early, held>>
  BY DEF Merge, CanMerge, Mergeable
<1>2. frames \in FrameArray /\ call \in Call
  BY DEF BlockInv, TypeOK, FrameArray
<1>3. /\ i \in Frames /\ i \in Nat /\ o \in Orders /\ o \in Nat /\ o + 1 \in Orders
      /\ ~frames[i].listed /\ ~frames[i].used /\ frames[i].order = o /\ MaxOrder \in Nat
  BY <1>1, <1>2, Constants DEF Call, BlockInv, LoopOK, Looping, Orders
<1>4. Size[o] \in Nat /\ Size[o] >= 1 /\ FrameCount \in Nat
  BY <1>3, SizePositive, Constants
<1>5. b = i + Size[o] \/ (b = i - Size[o] /\ i >= Size[o])
  BY <1>3, BuddyPlace
<1>6. b \in Nat /\ b # i /\ b \in Frames
  <2>1. b < FrameCount
    BY <1>1
  <2> HIDE DEF b
  <2> QED BY <2>1, <1>3, <1>4, <1>5 DEF Frames
<1>7. hi = lo + Size[o] /\ ((lo = i /\ hi = b) \/ (lo = b /\ hi = i)) /\ lo \in Nat
  BY <1>3, <1>4, <1>5, <1>6
<1>8. frames[b].pool = NoPool
  BY <1>1, <1>6 DEF BlockInv, Metadata
<1> HIDE DEF b, lo, hi
<1>9. lo \in Frames /\ hi \in Frames
  BY <1>3, <1>6, <1>7
<1>10. call' \in Call /\ call'.at = "merge" /\ call'.idx = lo /\ call'.order = o + 1
  BY <1>1, <1>3, <1>7, CallValues
<1>11. frames[i] \in Frame /\ frames[b] \in Frame
  BY <1>2, <1>3, <1>6 DEF FrameArray
<1>12. frames' \in FrameArray /\ \A f \in Frames : f # i /\ f # b => frames'[f] = frames[f]
  <2> DEFINE cut == [frames EXCEPT ![b].listed = FALSE]
  <2>1. cut \in FrameArray /\ \A f \in Frames : f # b => cut[f] = frames[f]
    BY <1>2, <1>6, <1>11 DEF FrameArray, Frame
  <2>2. frames' = [cut EXCEPT ![lo].order = o + 1, ![lo].used = FALSE]
    BY <1>1
  <2> HIDE DEF cut
  <2>3. cut[lo] \in Frame
    BY <2>1, <1>9 DEF FrameArray
  <2>4. [cut[lo] EXCEPT !.order = o + 1, !.used = FALSE] \in Frame
    BY <2>3, <1>3 DEF Frame
  <2>5. frames' = [cut EXCEPT ![lo] = [cut[lo] EXCEPT !.order = o + 1, !.used = FALSE]]
    BY <2>1, <2>2, <1>9 DEF FrameArray
  <2> QED BY <2>1, <2>4, <2>5, <1>7, <1>9 DEF FrameArray
<1>13. ~frames'[i].listed /\ ~frames'[i].used /\ frames'[i].pool = frames[i].pool
  BY <1>1, <1>2, <1>3, <1>6, <1>7, <1>11 DEF FrameArray, Frame
<1>14. ~frames'[b].listed /\ ~frames'[b].used /\ frames'[b].pool = NoPool
  BY <1>1, <1>2, <1>3, <1>6, <1>7, <1>8, <1>11 DEF FrameArray, Frame
<1>15. frames'[lo].order = o + 1 /\ frames'[hi].order = frames[hi].order
  BY <1>1, <1>2, <1>3, <1>6, <1>7, <1>11 DEF FrameArray, Frame
<1>16. MergeEffect(i, b, lo, hi, o)
  BY <1>1, <1>3, <1>6, <1>7, <1>8, <1>9, <1>10, <1>12, <1>13, <1>14, <1>15 DEF MergeEffect, b
<1> QED BY <1>9, <1>16 DEF b

\* free_pages joins the block in hand with its buddy.
LEMMA MergeInv == ASSUME BlockInv, Merge PROVE BlockInv'
<1> DEFINE i == call.idx
           o == call.order
           b == BuddyOf(i, o)
<1>1. PICK lo \in Frames, hi \in Frames : MergeEffect(i, b, lo, hi, o)
  BY MergeEffects
<1>2. /\ call.at = "merge" /\ i \in Frames /\ ~frames[i].listed /\ ~frames[i].used
      /\ frames[i].order = o /\ frames \in FrameArray /\ freeArea \in Area
  BY DEF Merge, BlockInv, LoopOK, Looping, TypeOK, FrameArray, Area
<1> HIDE DEF b, i, o
<1>3. /\ hi = lo + Size[o] /\ ((lo = i /\ hi = b) \/ (lo = b /\ hi = i)) /\ i # b
      /\ b \in Frames /\ o \in Orders /\ o + 1 \in Orders
      /\ frames[b].listed /\ ~frames[b].used /\ frames[b].order = o /\ frames[b].pool = NoPool
  BY <1>1 DEF MergeEffect
<1>4. /\ frames' \in FrameArray
      /\ \A f \in Frames : f # i /\ f # b => frames'[f] = frames[f]
      /\ ~frames'[i].listed /\ ~frames'[i].used /\ frames'[i].pool = frames[i].pool
      /\ ~frames'[b].listed /\ ~frames'[b].used /\ frames'[b].pool = NoPool
      /\ frames'[lo].order = o + 1
  BY <1>1 DEF MergeEffect
<1>5. /\ freeArea' = ListDel(freeArea, b, o)
      /\ call' \in Call /\ call'.at = "merge" /\ call'.idx = lo /\ call'.order = o + 1
      /\ UNCHANGED <<chunks, early, held>>
  BY <1>1 DEF MergeEffect
<1>6. Lists(freeArea, o, b) /\ AllDistinct(freeArea)
  BY <1>3 DEF BlockInv, ListsOK
<1>7. /\ freeArea' \in Area /\ AllDistinct(freeArea')
      /\ \A x \in Orders, f \in Frames :
           Lists(freeArea', x, f) <=> Lists(freeArea, x, f) /\ ~(x = o /\ f = b)
  BY <1>2, <1>3, <1>5, <1>6, ListDelFacts
<1>8. InHand = {i} /\ InHand' = {lo} /\ Divided = FrameCount /\ Divided' = FrameCount
  BY <1>2, <1>5 DEF InHand, Looping, Divided, i
<1>9. TypeOK'
  BY <1>4, <1>5, <1>7 DEF BlockInv, TypeOK, FrameArray, Area
<1>10. frames[i].pool = NoPool
  BY <1>2 DEF BlockInv, Metadata
<1>11. Metadata'
  BY <1>4, <1>10 DEF BlockInv, Metadata
<1>12. ListsOK'
  BY <1>2, <1>3, <1>4, <1>7 DEF BlockInv, ListsOK
<1>13. LoopOK' /\ BootOK'
  BY <1>3, <1>4, <1>5 DEF LoopOK, BootOK, Looping, Booting
<1>14. HeldOK' /\ PoolsOK'
  BY <1>2, <1>3, <1>4, <1>5, UseKept
<1>15. Live(frames, InHand, i) /\ Live(frames, InHand, b)
  BY <1>2, <1>3, <1>8, Constants DEF Live
<1>16. Live(frames', InHand', lo) /\ ~Live(frames', InHand', hi) /\ lo # hi
  BY <1>3, <1>4, <1>8, Constants DEF Live
<1>17. \A f : f # lo /\ f # hi => (Live(frames', InHand', f) <=> Live(frames, InHand, f))
  BY <1>3, <1>4, <1>8 DEF Live
<1>18. Merge2(frames, InHand, frames', InHand', lo, hi)
  <2>1. \A f \in Frames : f # lo /\ f # hi => frames'[f].order = frames[f].order
    BY <1>3, <1>4
  <2> QED BY <1>2, <1>3, <1>4, <1>16, <1>17, <2>1 DEF Merge2
<1>19. Live(frames, InHand, lo) /\ Live(frames, InHand, hi) /\ Tiles(frames, InHand, FrameCount)
  BY <1>3, <1>8, <1>15 DEF BlockInv
<1>20. Tiles(frames', InHand', FrameCount)
  BY <1>2, <1>4, <1>18, <1>19, MergeTiles, Constants
<1> QED BY <1>8, <1>9, <1>11, <1>12, <1>13, <1>14, <1>20 DEF BlockInv

\* free_pages puts the block in hand on its list.
LEMMA MergeDoneInv == ASSUME BlockInv, MergeDone PROVE BlockInv'
<1> DEFINE i == call.idx
           o == call.order
<1>1. /\ call.at = "merge" /\ frames' = [frames EXCEPT ![i] = FreeFrame(o)]
      /\ freeArea' = ListAdd(freeArea, i, o) /\ call' = Idle
      /\ UNCHANGED <<chunks, early, held>>
  BY DEF MergeDone
<1>2. /\ i \in Frames /\ ~frames[i].listed /\ ~frames[i].used /\ o \in Orders
      /\ frames[i].order = o /\ frames \in FrameArray /\ freeArea \in Area
      /\ InHand = {i} /\ Divided = FrameCount
  BY <1>1 DEF BlockInv, LoopOK, Looping, TypeOK, FrameArray, Area, Call, InHand, Divided
<1> HIDE DEF i, o
<1>3. /\ FreeFrame(o) \in Frame /\ FreeFrame(o).order = o /\ FreeFrame(o).listed
      /\ ~FreeFrame(o).used /\ FreeFrame(o).pool = NoPool /\ o # -1
  BY <1>2, FrameValues
<1>4. /\ frames' \in FrameArray /\ frames'[i] = FreeFrame(o)
      /\ \A f \in Frames : f # i => frames'[f] = frames[f]
  BY <1>1, <1>2, <1>3 DEF FrameArray
<1>5. call' \in Call /\ call'.at = "idle"
  BY <1>1, CallValues, Constants DEF Idle
<1>6. /\ freeArea' \in Area /\ AllDistinct(freeArea')
      /\ \A x \in Orders, f \in Frames :
           Lists(freeArea', x, f) <=> Lists(freeArea, x, f) \/ (x = o /\ f = i)
  <2>1. AllDistinct(freeArea) /\ ~Lists(freeArea, o, i)
    BY <1>2 DEF BlockInv, ListsOK
  <2> QED BY <1>1, <1>2, <2>1, ListAddFacts
<1>7. TypeOK'
  BY <1>1, <1>4, <1>5, <1>6 DEF BlockInv, TypeOK, FrameArray, Area
<1>8. Metadata' /\ ListsOK'
  BY <1>2, <1>3, <1>4, <1>6 DEF BlockInv, Metadata, ListsOK
<1>9. LoopOK' /\ BootOK'
  BY <1>5 DEF LoopOK, BootOK, Looping, Booting
<1>10. HeldOK' /\ PoolsOK'
  BY <1>1, <1>2, <1>4, UseKept
<1>11. InHand' = {} /\ Divided' = FrameCount
  BY <1>5 DEF InHand, Looping, Divided
<1>12. \A f : Live(frames', InHand', f) <=> Live(frames, InHand, f)
  BY <1>2, <1>3, <1>4, <1>11 DEF Live
<1>13. \A f : Live(frames, InHand, f) => frames'[f].order = frames[f].order
  BY <1>2, <1>3, <1>4 DEF Live
<1>14. Tiles(frames', InHand', FrameCount)
  BY <1>2, <1>4, <1>12, <1>13, SameTiles DEF BlockInv
<1> QED BY <1>5, <1>7, <1>8, <1>9, <1>10, <1>11, <1>14 DEF BlockInv

(***************************************************************************)
(* mm_init.                                                                *)
(***************************************************************************)
\* The largest block that fits.
LEMMA Largest ==
  ASSUME NEW S \in SUBSET Orders, S # {}
  PROVE  LET o == CHOOSE x \in S : \A y \in S : y <= x
         IN  o \in S /\ \A y \in S : y <= o
<1> DEFINE T == {x \in Nat : MaxOrder - x \in S}
<1>1. \A y \in S : y \in Nat /\ MaxOrder - y \in Nat /\ MaxOrder - (MaxOrder - y) = y
  BY Constants DEF Orders
<1>2. T \in SUBSET Nat /\ T # {}
  BY <1>1
<1>3. PICK m \in T : \A n \in T : m <= n
  BY <1>2, LeastNatural
<1>4. MaxOrder - m \in S /\ \A y \in S : y <= MaxOrder - m
  <2>1. MaxOrder - m \in S /\ m \in Nat
    BY <1>3
  <2>2. \A y \in S : MaxOrder - y \in T
    BY <1>1
  <2> QED BY <1>1, <1>3, <2>1, <2>2, Constants
<1> QED BY <1>4

\* Steps of mm_init that divide nothing.
LEMMA BootStep ==
  ASSUME BlockInv, UNCHANGED <<frames, freeArea, chunks, held>>,
         early' \in Seq(Region), call' \in Call, Booting, InHand' = {}, Divided' = Divided,
         LoopOK', BootOK'
  PROVE  BlockInv'
<1>1. InHand = {}
  BY DEF InHand, Booting, Looping
<1> QED BY <1>1 DEF BlockInv, TypeOK, Metadata, ListsOK, HeldOK, PoolsOK, Fits, Region

\* The recorded regions.
LEMMA EarlyTypes ==
  ASSUME BlockInv, NEW k \in 1 .. Len(early)
  PROVE  early[k] \in Region
<1>1. early \in Seq(Region)
  BY DEF BlockInv, TypeOK, Region
<1> QED BY <1>1

\* A region in the way ends behind the candidate.
LEMMA PastFacts ==
  ASSUME BlockInv, call.at = "startup", Conflicts(call.idx) # {}
  PROVE  Past(call.idx) \in Nat
<1> DEFINE S == Conflicts(call.idx)
<1>1. S \in SUBSET Nat
  BY DEF Conflicts
<1>2. Least(S) \in S
  BY <1>1, LeastFacts
<1>3. PICK k \in 1 .. Len(early) : k = Least(S) /\ Overlaps(call.idx, call.idx + ArrayPages, early[k])
  BY <1>2 DEF Conflicts
<1>4. early[k] \in Region
  BY EarlyTypes
<1>5. EndPage(early[k]) \in Int /\ call.idx < EndPage(early[k])
  BY <1>3, <1>4, RegionPages DEF Overlaps
<1>6. call.idx \in Nat
  BY DEF BlockInv, TypeOK, Call
<1> QED BY <1>3, <1>5, <1>6 DEF Past

\* The entry that frame_array gets.
ArrayRegion(i) == [from |-> i * PageSize, size |-> ArrayPages * PageSize]

\* The region of frame_array.
LEMMA ArrayRegionFacts ==
  ASSUME NEW i \in Nat
  PROVE  /\ ArrayRegion(i) \in Region
         /\ FirstPage(ArrayRegion(i)) = i /\ EndPage(ArrayRegion(i)) = i + ArrayPages
<1>1. i * PageSize \in Int /\ ArrayPages * PageSize \in Nat /\ ArrayPages * PageSize # 0
  BY Constants
<1>2. ArrayRegion(i) \in Region
  BY <1>1 DEF ArrayRegion, Region
<1> QED BY <1>2, Constants, WholePages DEF ArrayRegion

\* startup_alloc touches no block.
LEMMA StartupInv == ASSUME BlockInv, Startup PROVE BlockInv'
<1>1. call.at = "startup" /\ call \in Call /\ call.idx \in Nat /\ early \in Seq(Region)
  BY DEF Startup, BlockInv, TypeOK, Call, Region
<1>2. Booting /\ Divided = 0 /\ UNCHANGED <<frames, freeArea, chunks, held>>
  BY <1>1 DEF Booting, Divided, Startup
<1>3. CASE Conflicts(call.idx) # {}
  <2>1. call' = At("startup", Past(call.idx), 0) /\ early' = early
    BY <1>3 DEF Startup
  <2>2. call' \in Call /\ call'.at = "startup"
    BY <1>1, <1>3, <2>1, PastFacts, CallValues, Constants
  <2>3. LoopOK' /\ BootOK'
    BY <1>1, <1>2, <2>2 DEF BlockInv, LoopOK, BootOK, Looping, Booting
  <2>4. InHand' = {} /\ Divided' = Divided
    BY <1>2, <2>2 DEF InHand, Divided, Looping
  <2> QED BY <1>1, <1>2, <2>1, <2>2, <2>3, <2>4, BootStep
<1>4. CASE Conflicts(call.idx) = {}
  <2>1. call' = At("fill", 0, 0) /\ early' = Append(early, ArrayRegion(call.idx))
    BY <1>4 DEF Startup, ArrayRegion
  <2>2. call' \in Call /\ call'.at = "fill" /\ call'.idx = 0
    BY <2>1, CallValues, Constants
  <2>3. LoopOK' /\ BootOK'
    BY <1>1, <1>2, <2>2, Constants DEF BlockInv, LoopOK, BootOK, Looping, Booting
  <2>4. InHand' = {} /\ Divided' = Divided
    BY <1>2, <2>2 DEF InHand, Divided, Looping
  <2>5. early' \in Seq(Region)
    BY <1>1, <2>1, ArrayRegionFacts
  <2> QED BY <1>1, <1>2, <2>2, <2>3, <2>4, <2>5, BootStep
<1> QED BY <1>3, <1>4

\* No room for frame_array: nothing else happens.
LEMMA HaltInv == ASSUME BlockInv, Halt PROVE BlockInv'
<1>1. /\ call.at = "startup" /\ call' = At("halted", 0, 0) /\ early \in Seq(Region)
      /\ UNCHANGED <<frames, freeArea, chunks, early, held>>
  BY DEF Halt, BlockInv, TypeOK, Region
<1>2. call' \in Call /\ call'.at = "halted"
  BY <1>1, CallValues, Constants
<1>3. LoopOK' /\ BootOK'
  BY <1>1, <1>2 DEF BlockInv, LoopOK, BootOK, Looping, Booting
<1>4. Booting /\ InHand' = {} /\ Divided' = Divided
  BY <1>1, <1>2 DEF InHand, Divided, Looping, Booting
<1> QED BY <1>1, <1>2, <1>3, <1>4, BootStep

\* The block that step 7 adds.
FillEffect(i, o) ==
  /\ i \in Frames /\ o \in Orders /\ i + Size[o] <= FrameCount
  /\ o \in Fitting(i) /\ \A y \in Fitting(i) : y <= o
  /\ frames' = [frames EXCEPT ![i] = FreeFrame(o)]
  /\ freeArea' = ListAdd(freeArea, i, o)
  /\ call' = At("fill", i + Size[o], 0)

\* What Fill does while pages are left.
LEMMA FillEffects ==
  ASSUME BlockInv, Fill, call.idx < FrameCount
  PROVE  \E o \in Orders : FillEffect(call.idx, o)
<1> DEFINE i == call.idx
           o == CHOOSE x \in Fitting(i) : \A y \in Fitting(i) : y <= x
<1>1. i \in Nat /\ i \in Frames
  BY Constants DEF BlockInv, TypeOK, Call, Frames
<1>2. 0 \in Fitting(i)
  <2>1. i % 1 = 0
    BY <1>1
  <2> QED BY <1>1, <2>1, Constants DEF Fitting
<1>3. Fitting(i) \in SUBSET Orders
  BY DEF Fitting
<1>4. o \in Fitting(i) /\ \A y \in Fitting(i) : y <= o
  BY <1>2, <1>3, Largest
<1>5. /\ frames' = [frames EXCEPT ![i] = FreeFrame(o)]
      /\ freeArea' = ListAdd(freeArea, i, o)
      /\ call' = At("fill", i + Size[o], 0)
  BY DEF Fill
<1> HIDE DEF o
<1> QED BY <1>1, <1>4, <1>5 DEF FillEffect, Fitting

\* mm_init makes the next block.
LEMMA FillInv == ASSUME BlockInv, Fill PROVE BlockInv'
<1>1. /\ call.at = "fill" /\ call \in Call /\ call.idx \in Nat /\ call.idx <= FrameCount
      /\ frames \in FrameArray /\ freeArea \in Area /\ early \in Seq(Region)
      /\ UNCHANGED <<chunks, early, held>>
  BY DEF Fill, BlockInv, TypeOK, Call, Region, FrameArray, Area, LoopOK
<1>2. Booting /\ InHand = {} /\ Divided = call.idx /\ held = {}
      /\ (\A p \in Pools : chunks[p] = <<>>) /\ \A f \in Frames : frames[f].pool = NoPool
  BY <1>1 DEF Booting, InHand, Looping, Divided, BlockInv, BootOK
<1>3. CASE call.idx < FrameCount
  <2> DEFINE i == call.idx
  <2>1. PICK o \in Orders : FillEffect(i, o)
    BY <1>3, FillEffects
  <2>2. /\ i \in Frames /\ i \in Nat /\ i + Size[o] <= FrameCount
        /\ Size[o] \in Nat /\ Size[o] >= 1
        /\ frames' = [frames EXCEPT ![i] = FreeFrame(o)]
        /\ freeArea' = ListAdd(freeArea, i, o)
        /\ call' = At("fill", i + Size[o], 0)
    BY <1>1, <2>1, SizePositive DEF FillEffect
  <2>3. /\ FreeFrame(o) \in Frame /\ FreeFrame(o).order = o /\ FreeFrame(o).listed
        /\ ~FreeFrame(o).used /\ FreeFrame(o).pool = NoPool /\ o # -1
    BY FrameValues
  <2>4. /\ frames' \in FrameArray /\ frames'[i] = FreeFrame(o)
        /\ \A f \in Frames : f # i => frames'[f] = frames[f]
        /\ \A f : f # i => frames'[f] = frames[f]
    BY <1>1, <2>2, <2>3 DEF FrameArray
  <2>5. call' \in Call /\ call'.at = "fill" /\ call'.idx = i + Size[o]
    BY <1>1, <2>2, CallValues, Constants
  <2> HIDE DEF i
  <2>6. ~Live(frames, InHand, i)
    <3>1. ASSUME Live(frames, InHand, i) PROVE FALSE
      <4>1. End(frames, i) \in Nat /\ i < End(frames, i)
        BY <1>1, <3>1, LiveTypes
      <4>2. End(frames, i) <= i
        BY <1>2, <3>1 DEF BlockInv, Tiles, i
      <4> QED BY <2>2, <4>1, <4>2
    <3> QED BY <3>1
  <2>7. ~frames[i].listed /\ (frames[i].used => frames[i].order = -1)
    BY <2>2, <2>6, Constants DEF Live, BlockInv, Metadata
  <2>8. /\ freeArea' \in Area /\ AllDistinct(freeArea')
        /\ \A x \in Orders, f \in Frames :
             Lists(freeArea', x, f) <=> Lists(freeArea, x, f) \/ (x = o /\ f = i)
    <3>1. AllDistinct(freeArea) /\ ~Lists(freeArea, o, i)
      BY <2>2, <2>7 DEF BlockInv, ListsOK
    <3> QED BY <1>1, <2>2, <3>1, ListAddFacts
  <2>9. TypeOK'
    BY <1>1, <2>4, <2>5, <2>8 DEF BlockInv, TypeOK, FrameArray, Area
  <2>10. Metadata'
    BY <2>3, <2>4 DEF BlockInv, Metadata
  <2>11. ListsOK'
    BY <2>3, <2>4, <2>7, <2>8 DEF BlockInv, ListsOK
  <2>12. LoopOK'
    BY <2>2, <2>5 DEF LoopOK, Looping
  <2>13. HeldOK' /\ PoolsOK' /\ BootOK'
    BY <1>1, <1>2, <2>3, <2>4, <2>5 DEF HeldOK, PoolsOK, BootOK, Booting
  <2>14. InHand' = {} /\ Divided' = i + Size[o]
    BY <2>5 DEF InHand, Looping, Divided
  <2>15. Live(frames', {}, i) /\ End(frames', i) = i + Size[o]
    BY <2>2, <2>3, <2>4 DEF Live, End
  <2>16. Tiles(frames, {}, i)
    BY <1>2 DEF BlockInv, i
  <2>17. Tiles(frames', {}, i + Size[o])
    BY <1>1, <2>2, <2>4, <2>15, <2>16, MoreTiles
  <2> QED BY <2>9, <2>10, <2>11, <2>12, <2>13, <2>14, <2>17 DEF BlockInv
<1>4. CASE ~(call.idx < FrameCount)
  <2>1. call' = At("reserve", 1, MaxOrder) /\ UNCHANGED <<frames, freeArea>>
    BY <1>4 DEF Fill
  <2>2. call' \in Call /\ call'.at = "reserve" /\ call'.idx = 1
    BY <2>1, CallValues, Constants
  <2>3. call.idx = FrameCount
    BY <1>1, <1>4, Constants
  <2>4. InHand' = {} /\ Divided' = Divided
    BY <1>2, <2>2, <2>3 DEF InHand, Divided, Looping
  <2>5. LoopOK' /\ BootOK'
    BY <1>1, <1>2, <2>1, <2>2 DEF LoopOK, BootOK, Looping, Booting
  <2> QED BY <1>1, <1>2, <2>1, <2>2, <2>4, <2>5, BootStep
<1> QED BY <1>3, <1>4

\* What memory_reserve does with the block at page i of the list o.
ReserveWhole(i, o) ==
  /\ frames' = [frames EXCEPT ![i] = UsedFrame(o)]
  /\ freeArea' = ListDel(freeArea, i, o)

ReserveSplit(i, o, half) ==
  /\ half = i + Size[o - 1] /\ o > 0
  /\ frames' = [frames EXCEPT ![i] = FreeFrame(o - 1), ![half] = FreeFrame(o - 1)]
  /\ freeArea' = ListAdd(ListAdd(ListDel(freeArea, i, o), i, o - 1), half, o - 1)

\* It is a block of the list that the region touches.
LEMMA TouchedBlock ==
  ASSUME BlockInv, NEW o \in Orders, NEW r, Touched(o, r) # {}
  PROVE  LET n == Least(Touched(o, r))
         IN  /\ n \in 1 .. Len(freeArea[o])
             /\ Overlaps(freeArea[o][n], freeArea[o][n] + Size[o], r)
<1>1. Touched(o, r) \in SUBSET Nat
  BY DEF Touched
<1>2. Least(Touched(o, r)) \in Touched(o, r)
  BY <1>1, LeastFacts
<1> QED BY <1>2 DEF Touched

\* A turn of memory_reserve takes a block, splits one, or goes on.
LEMMA ReserveCases ==
  ASSUME BlockInv, Reserve, call.idx <= Len(early), Touched(call.order, early[call.idx]) # {}
  PROVE  LET o == call.order
             r == early[call.idx]
         IN  \E n \in 1 .. Len(freeArea[o]) :
               /\ Overlaps(freeArea[o][n], freeArea[o][n] + Size[o], r)
               /\ call' = call
               /\ \/ (Covered(freeArea[o][n], o, r) \/ o = 0) /\ ReserveWhole(freeArea[o][n], o)
                  \/ ReserveSplit(freeArea[o][n], o, freeArea[o][n] + Size[o - 1])
<1> DEFINE o == call.order
           r == early[call.idx]
           n == Least(Touched(o, r))
           i == freeArea[o][n]
<1>1. o \in Orders /\ o \in Nat /\ call.idx \in Nat
  BY Constants DEF BlockInv, TypeOK, Call
<1>2. n \in 1 .. Len(freeArea[o]) /\ Overlaps(i, i + Size[o], r)
  BY <1>1, TouchedBlock
<1>3. ReserveBlock(r, o) /\ call' = call
  <2>1. ~(call.idx > Len(early))
    BY <1>1 DEF BlockInv, TypeOK
  <2> QED BY <2>1 DEF Reserve
<1> HIDE DEF r, o
<1>4. CASE Covered(i, o, r) \/ o = 0
  <2>1. ReserveWhole(i, o)
    BY <1>3, <1>4 DEF ReserveBlock, ReserveWhole
  <2> QED BY <1>2, <1>3, <1>4, <2>1 DEF o, r
<1>5. CASE ~(Covered(i, o, r) \/ o = 0)
  <2>1. ReserveSplit(i, o, i + Size[o - 1])
    BY <1>1, <1>3, <1>5 DEF ReserveBlock, ReserveSplit
  <2> QED BY <1>2, <1>3, <2>1 DEF o, r
<1> QED BY <1>4, <1>5

\* While mm_init reserves, nobody holds or works on a block.
LEMMA ReserveTypes ==
  ASSUME BlockInv, Reserve
  PROVE  /\ call.at = "reserve" /\ call \in Call /\ call.idx \in Nat /\ call.idx >= 1
         /\ call.order \in Orders /\ call.order \in Nat
         /\ frames \in FrameArray /\ freeArea \in Area /\ early \in Seq(Region)
         /\ Booting /\ InHand = {} /\ Divided = FrameCount /\ held = {}
         /\ \A p \in Pools : chunks[p] = <<>>
         /\ \A f \in Frames : frames[f].pool = NoPool
         /\ UNCHANGED <<chunks, early, held>>
<1>1. /\ call.at = "reserve" /\ call \in Call /\ frames \in FrameArray /\ freeArea \in Area
      /\ early \in Seq(Region) /\ UNCHANGED <<chunks, early, held>>
  BY DEF Reserve, BlockInv, TypeOK, FrameArray, Area, Region
<1>2. call.idx \in Nat /\ call.idx >= 1 /\ call.order \in Orders /\ call.order \in Nat
  BY <1>1, Constants DEF BlockInv, LoopOK, Call
<1>3. Booting /\ InHand = {} /\ Divided = FrameCount
  BY <1>1 DEF Booting, InHand, Looping, Divided
<1> QED BY <1>1, <1>2, <1>3 DEF BlockInv, BootOK

\* Steps of memory_reserve that change blocks.
LEMMA ReserveStep ==
  ASSUME BlockInv, Reserve, call' = call, frames' \in FrameArray, freeArea' \in Area,
         Metadata', ListsOK', \A f \in Frames : frames'[f].pool = NoPool,
         Tiles(frames', {}, FrameCount)
  PROVE  BlockInv'
<1>1. /\ call.at = "reserve" /\ call.idx >= 1 /\ InHand = {} /\ Divided = FrameCount /\ held = {}
      /\ (\A p \in Pools : chunks[p] = <<>>) /\ UNCHANGED <<chunks, early, held>>
  BY ReserveTypes
<1>2. TypeOK'
  BY <1>1 DEF BlockInv, TypeOK, FrameArray, Area
<1>3. LoopOK' /\ BootOK' /\ HeldOK' /\ PoolsOK'
  BY <1>1 DEF LoopOK, BootOK, HeldOK, PoolsOK, Looping, Booting
<1>4. InHand' = {} /\ Divided' = FrameCount
  BY <1>1 DEF InHand, Divided, Looping
<1> QED BY <1>2, <1>3, <1>4 DEF BlockInv

\* memory_reserve takes a block as a whole.
LEMMA ReserveWholeInv ==
  ASSUME BlockInv, Reserve, call' = call, NEW o \in Orders, NEW n \in 1 .. Len(freeArea[o]),
         ReserveWhole(freeArea[o][n], o)
  PROVE  BlockInv'
<1> DEFINE i == freeArea[o][n]
<1>1. /\ i \in Frames /\ Lists(freeArea, o, i)
      /\ frames[i].listed /\ ~frames[i].used /\ frames[i].order = o
  BY OnList
<1>2. /\ frames' = [frames EXCEPT ![i] = UsedFrame(o)] /\ freeArea' = ListDel(freeArea, i, o)
  BY DEF ReserveWhole
<1> HIDE DEF i
<1>3. /\ frames \in FrameArray /\ freeArea \in Area /\ InHand = {} /\ Divided = FrameCount
      /\ \A f \in Frames : frames[f].pool = NoPool
  BY ReserveTypes
<1>4. /\ UsedFrame(o) \in Frame /\ UsedFrame(o).order = o /\ ~UsedFrame(o).listed
      /\ UsedFrame(o).used /\ UsedFrame(o).pool = NoPool /\ o # -1
  BY FrameValues
<1>5. /\ frames' \in FrameArray /\ frames'[i] = UsedFrame(o)
      /\ \A f \in Frames : f # i => frames'[f] = frames[f]
  BY <1>1, <1>2, <1>3, <1>4 DEF FrameArray
<1>6. /\ freeArea' \in Area /\ AllDistinct(freeArea')
      /\ \A x \in Orders, f \in Frames :
           Lists(freeArea', x, f) <=> Lists(freeArea, x, f) /\ ~(x = o /\ f = i)
  BY <1>1, <1>2, <1>3, ListDelFacts DEF BlockInv, ListsOK
<1>7. Metadata' /\ ListsOK'
  BY <1>1, <1>4, <1>5, <1>6 DEF BlockInv, Metadata, ListsOK
<1>8. \A f \in Frames : frames'[f].pool = NoPool
  BY <1>3, <1>4, <1>5
<1>9. \A f : Live(frames', {}, f) <=> Live(frames, {}, f)
  BY <1>1, <1>4, <1>5 DEF Live
<1>10. \A f : Live(frames, {}, f) => frames'[f].order = frames[f].order
  BY <1>1, <1>4, <1>5 DEF Live
<1>11. Tiles(frames', {}, FrameCount)
  BY <1>3, <1>5, <1>9, <1>10, SameTiles DEF BlockInv
<1> QED BY <1>5, <1>6, <1>7, <1>8, <1>11, ReserveStep

\* memory_reserve splits a block.
LEMMA ReserveSplitInv ==
  ASSUME BlockInv, Reserve, call' = call, NEW o \in Orders, NEW n \in 1 .. Len(freeArea[o]),
         ReserveSplit(freeArea[o][n], o, freeArea[o][n] + Size[o - 1])
  PROVE  BlockInv'
<1> DEFINE i == freeArea[o][n]
           l == o - 1
           j == i + Size[l]
<1>1. /\ i \in Frames /\ Lists(freeArea, o, i) /\ Live(frames, InHand, i)
      /\ frames[i].listed /\ ~frames[i].used /\ frames[i].order = o
  BY OnList
<1>2. /\ o > 0 /\ frames' = [frames EXCEPT ![i] = FreeFrame(l), ![j] = FreeFrame(l)]
      /\ freeArea' = ListAdd(ListAdd(ListDel(freeArea, i, o), i, l), j, l)
  BY DEF ReserveSplit
<1>3. /\ frames \in FrameArray /\ freeArea \in Area /\ InHand = {} /\ Divided = FrameCount
      /\ \A f \in Frames : frames[f].pool = NoPool
  BY ReserveTypes
<1>4. l \in Orders /\ l # o
  BY <1>2, Halves, Constants
<1>5. Live(frames, {}, i) /\ Tiles(frames, {}, FrameCount)
  BY <1>1, <1>3 DEF BlockInv
<1>6. j \in Frames /\ i < j /\ ~Live(frames, {}, j) /\ i # j
  <2>1. j \in Frames /\ i < j /\ ~Live(frames, {}, j)
    BY <1>1, <1>2, <1>3, <1>5, SplitPlaces, Constants
  <2>2. i \in Int /\ j \in Int
    BY <1>1, <2>1 DEF Frames
  <2> HIDE DEF i, j
  <2> QED BY <2>1, <2>2
<1>7. j = i + Size[frames[i].order - 1] /\ frames[i].order > 0 /\ frames[i].order - 1 = l
  BY <1>1, <1>2
<1> HIDE DEF i, j, l
<1>8. ~frames[j].listed /\ (frames[j].used => frames[j].order = -1)
  BY <1>6, Constants DEF Live, BlockInv, Metadata
<1>9. /\ FreeFrame(l) \in Frame /\ FreeFrame(l).order = l /\ FreeFrame(l).listed
      /\ ~FreeFrame(l).used /\ FreeFrame(l).pool = NoPool /\ l # -1
  BY <1>4, FrameValues
<1>10. /\ frames' \in FrameArray /\ frames'[i] = FreeFrame(l) /\ frames'[j] = FreeFrame(l)
       /\ \A f \in Frames : f # i /\ f # j => frames'[f] = frames[f]
  BY <1>1, <1>2, <1>3, <1>6, <1>9 DEF FrameArray
<1> DEFINE area1 == ListDel(freeArea, i, o)
           area2 == ListAdd(area1, i, l)
<1>11. /\ area1 \in Area /\ AllDistinct(area1)
       /\ \A x \in Orders, f \in Frames :
            Lists(area1, x, f) <=> Lists(freeArea, x, f) /\ ~(x = o /\ f = i)
  BY <1>1, <1>3, ListDelFacts DEF BlockInv, ListsOK
<1>12. ~Lists(area1, l, i)
  BY <1>1, <1>4, <1>11 DEF BlockInv, ListsOK
<1>13. freeArea' = ListAdd(area2, j, l)
  BY <1>2
<1> HIDE DEF area1
<1>14. /\ area2 \in Area /\ AllDistinct(area2)
       /\ \A x \in Orders, f \in Frames :
            Lists(area2, x, f) <=> Lists(area1, x, f) \/ (x = l /\ f = i)
  BY <1>1, <1>4, <1>11, <1>12, ListAddFacts
<1> HIDE DEF area2
<1>15. ~Lists(area2, l, j)
  BY <1>4, <1>6, <1>8, <1>11, <1>14 DEF BlockInv, ListsOK
<1>16. /\ freeArea' \in Area /\ AllDistinct(freeArea')
       /\ \A x \in Orders, f \in Frames :
            Lists(freeArea', x, f) <=> Lists(area2, x, f) \/ (x = l /\ f = j)
  BY <1>4, <1>6, <1>13, <1>14, <1>15, ListAddFacts
<1>17. \A x \in Orders, f \in Frames :
         Lists(freeArea', x, f) <=>
           \/ Lists(freeArea, x, f) /\ ~(x = o /\ f = i)
           \/ x = l /\ (f = i \/ f = j)
  BY <1>11, <1>14, <1>16
<1>18. Metadata'
  BY <1>4, <1>9, <1>10 DEF BlockInv, Metadata
<1>19. ListsOK'
  <2> SUFFICES ASSUME NEW x \in Orders, NEW f \in Frames
               PROVE  Lists(freeArea', x, f) <=> frames'[f].listed /\ frames'[f].order = x
    BY <1>16 DEF ListsOK
  <2>1. Lists(freeArea, x, f) <=> frames[f].listed /\ frames[f].order = x
    BY DEF BlockInv, ListsOK
  <2>2. CASE f = i
    BY <1>1, <1>4, <1>6, <1>9, <1>10, <1>17, <2>1, <2>2
  <2>3. CASE f = j
    BY <1>6, <1>8, <1>9, <1>10, <1>17, <2>1, <2>3
  <2>4. CASE f # i /\ f # j
    BY <1>10, <1>17, <2>1, <2>4
  <2> QED BY <2>2, <2>3, <2>4
<1>20. \A f \in Frames : frames'[f].pool = NoPool
  BY <1>3, <1>9, <1>10
<1>21. Split2(frames, {}, frames', {}, i, j)
  <2>1. Live(frames', {}, i) /\ Live(frames', {}, j)
    BY <1>1, <1>6, <1>9, <1>10 DEF Live
  <2>2. \A f : f # i /\ f # j => (Live(frames', {}, f) <=> Live(frames, {}, f))
    BY <1>10 DEF Live
  <2> QED BY <1>7, <1>9, <1>10, <2>1, <2>2 DEF Split2
<1>22. Tiles(frames', {}, FrameCount)
  BY <1>3, <1>5, <1>10, <1>21, SplitTiles, Constants
<1> QED BY <1>10, <1>16, <1>18, <1>19, <1>20, <1>22, ReserveStep

\* memory_reserve keeps the invariant.
LEMMA ReserveInv == ASSUME BlockInv, Reserve PROVE BlockInv'
<1>1. /\ call.at = "reserve" /\ call \in Call /\ call.idx \in Nat /\ call.idx >= 1
      /\ call.order \in Orders /\ call.order \in Nat /\ early \in Seq(Region)
      /\ Booting /\ Divided = FrameCount /\ held = {}
      /\ (\A p \in Pools : chunks[p] = <<>>) /\ (\A f \in Frames : frames[f].pool = NoPool)
      /\ UNCHANGED <<chunks, early, held>>
  BY ReserveTypes
<1>2. Len(early) \in Nat
  BY <1>1
<1>3. CASE call.idx > Len(early)
  <2>1. call' = Idle /\ UNCHANGED <<frames, freeArea>>
    BY <1>3 DEF Reserve
  <2>2. call' \in Call /\ call'.at = "idle"
    BY <2>1, CallValues, Constants DEF Idle
  <2>3. LoopOK' /\ BootOK' /\ InHand' = {} /\ Divided' = Divided
    BY <1>1, <2>2 DEF LoopOK, BootOK, Looping, Booting, InHand, Divided
  <2> QED BY <1>1, <2>1, <2>2, <2>3, BootStep
<1>4. CASE call.idx <= Len(early) /\ Touched(call.order, early[call.idx]) # {}
  <2>1. PICK n \in 1 .. Len(freeArea[call.order]) :
          /\ call' = call
          /\ \/ ReserveWhole(freeArea[call.order][n], call.order)
             \/ ReserveSplit(freeArea[call.order][n], call.order,
                             freeArea[call.order][n] + Size[call.order - 1])
    BY <1>4, ReserveCases
  <2> QED BY <1>1, <2>1, ReserveWholeInv, ReserveSplitInv
<1>5. CASE call.idx <= Len(early) /\ Touched(call.order, early[call.idx]) = {}
  <2>1. /\ call' = (IF call.order > 0
                    THEN At("reserve", call.idx, call.order - 1)
                    ELSE At("reserve", call.idx + 1, MaxOrder))
        /\ UNCHANGED <<frames, freeArea>>
    BY <1>1, <1>2, <1>5 DEF Reserve
  <2>2. call' \in Call /\ call'.at = "reserve" /\ call'.idx >= 1
    <3>1. CASE call.order > 0
      BY <1>1, <2>1, <3>1, Halves, CallValues
    <3>2. CASE ~(call.order > 0)
      BY <1>1, <2>1, <3>2, CallValues, Constants
    <3> QED BY <3>1, <3>2
  <2>3. LoopOK' /\ BootOK' /\ InHand' = {} /\ Divided' = Divided
    BY <1>1, <2>1, <2>2 DEF LoopOK, BootOK, Looping, Booting, InHand, Divided
  <2> QED BY <1>1, <2>1, <2>2, <2>3, BootStep
<1> QED BY <1>1, <1>2, <1>3, <1>4, <1>5

\* The invariant is inductive.
LEMMA BlockStep == BlockInv /\ [Next]_vars => BlockInv'
<1> SUFFICES ASSUME BlockInv, [Next]_vars PROVE BlockInv'
  OBVIOUS
<1>1. CASE Boot
  BY <1>1, StartupInv, HaltInv, StutterBlocks, FillInv, ReserveInv DEF Boot, Halted
<1>2. CASE Split
  BY <1>2, SplitInv
<1>3. CASE AllocDone
  BY <1>3, DoneInv
<1>4. CASE Allocate
  BY <1>4, AllocateInv
<1>5. CASE Free
  BY <1>5, FreeInv
<1>6. CASE Merge
  BY <1>6, MergeInv
<1>7. CASE MergeDone
  BY <1>7, MergeDoneInv
<1>8. CASE UNCHANGED vars
  BY <1>8, StutterBlocks
<1> QED BY <1>1, <1>2, <1>3, <1>4, <1>5, <1>6, <1>7, <1>8 DEF Next

\* The blocks always fill memory, lists and metadata agree, and callers hold blocks alone.
THEOREM Invariance == Spec => []BlockInv
BY InitBlocks, BlockStep, PTL DEF Spec

\* Every variable keeps its type: no list, loop or pointer leaves frame_array.
THEOREM TypeCorrect == Spec => []TypeOK
<1>1. BlockInv => TypeOK
  BY DEF BlockInv
<1> QED BY Invariance, <1>1, PTL

\* The free lists and the metadata of pages agree.
THEOREM ListsAlwaysExact == Spec => []ListsExact
<1>1. BlockInv => ListsExact
  <2> SUFFICES ASSUME BlockInv, NEW o \in Orders
               PROVE  /\ \A m, n \in 1 .. Len(freeArea[o]) : freeArea[o][m] = freeArea[o][n] => m = n
                      /\ {freeArea[o][n] : n \in 1 .. Len(freeArea[o])}
                           = {f \in Frames : frames[f].listed /\ ~frames[f].used /\ frames[f].order = o}
    BY DEF ListsExact
  <2>1. Distinct(freeArea[o])
    BY DEF BlockInv, ListsOK, AllDistinct
  <2>2. \A n \in 1 .. Len(freeArea[o]) :
          /\ freeArea[o][n] \in Frames /\ frames[freeArea[o][n]].listed
          /\ ~frames[freeArea[o][n]].used /\ frames[freeArea[o][n]].order = o
    BY OnList
  <2>3. \A f \in Frames : frames[f].listed /\ frames[f].order = o
                            => \E n \in 1 .. Len(freeArea[o]) : freeArea[o][n] = f
    BY DEF BlockInv, ListsOK, Lists, On
  <2>4. {freeArea[o][n] : n \in 1 .. Len(freeArea[o])}
          = {f \in Frames : frames[f].listed /\ ~frames[f].used /\ frames[f].order = o}
    BY <2>2, <2>3
  <2> QED BY <2>1, <2>4 DEF Distinct
<1> QED BY Invariance, <1>1, PTL

(***************************************************************************)
(* frame_array and the regions in use at boot.                             *)
(***************************************************************************)
\* All steps but that of startup_alloc record no region, and come after it.
LEMMA EarlyKept ==
  ASSUME [Next]_vars, ~Startup
  PROVE  /\ early' = early
         /\ call'.at \notin {"startup", "halted"} => call.at \notin {"startup", "halted"}
<1>1. CASE Halt
  BY <1>1 DEF Halt, At
<1>2. CASE Fill \/ Reserve
  BY <1>2 DEF Fill, Reserve
<1>3. CASE Split \/ AllocDone \/ Merge \/ MergeDone
  BY <1>3 DEF Split, AllocDone, Merge, MergeDone
<1>4. CASE Free
  BY <1>4 DEF Free, Idle, At
<1>5. CASE Allocate
  <2>1. call.at = "idle"
    BY <1>5 DEF Allocate, Idle, At
  <2>2. early' = early
    BY <1>5 DEF Allocate, AllocPages, vars
  <2> QED BY <2>1, <2>2
<1>6. CASE UNCHANGED vars
  BY <1>6 DEF vars
<1> QED BY <1>1, <1>2, <1>3, <1>4, <1>5, <1>6 DEF Next, Boot, Halted

\* startup_alloc finds a place for frame_array that no region touches, or goes on.
LEMMA StartupPlaces ==
  ASSUME BlockInv, Startup
  PROVE  \/ call'.at = "startup" /\ early' = early
         \/ /\ call.idx \in Nat /\ early \in Seq(Region)
            /\ early' = Append(early, ArrayRegion(call.idx))
            /\ \A k \in 1 .. Len(early) : ~Overlaps(call.idx, call.idx + ArrayPages, early[k])
<1>1. call \in Call /\ call.idx \in Nat /\ early \in Seq(Region)
  BY DEF BlockInv, TypeOK, Call, Region
<1>2. CASE Conflicts(call.idx) # {}
  BY <1>2 DEF Startup, At
<1>3. CASE Conflicts(call.idx) = {}
  BY <1>1, <1>3 DEF Startup, ArrayRegion, Conflicts
<1> QED BY <1>2, <1>3

\* The place of frame_array stays apart from the other regions.
LEMMA ApartStep == BlockInv /\ FrameArrayApart /\ [Next]_vars => FrameArrayApart'
<1> SUFFICES ASSUME BlockInv, FrameArrayApart, [Next]_vars PROVE FrameArrayApart'
  OBVIOUS
<1>1. CASE ~Startup
  BY <1>1, EarlyKept DEF FrameArrayApart
<1>2. CASE Startup
  <2>1. CASE call'.at = "startup"
    BY <2>1 DEF FrameArrayApart
  <2>2. CASE call'.at # "startup"
    <3> DEFINE r == ArrayRegion(call.idx)
    <3>1. /\ call.idx \in Nat /\ early \in Seq(Region) /\ early' = Append(early, r)
          /\ \A k \in 1 .. Len(early) : ~Overlaps(call.idx, call.idx + ArrayPages, early[k])
      BY <1>2, <2>2, StartupPlaces
    <3>2. r \in Region /\ FirstPage(r) = call.idx /\ EndPage(r) = call.idx + ArrayPages
      BY <3>1, ArrayRegionFacts
    <3> HIDE DEF r
    <3>3. /\ Len(early') - 1 = Len(early) /\ early'[Len(early')] = r
          /\ \A k \in 1 .. Len(early) : early'[k] = early[k]
      BY <3>1, <3>2
    <3>4. \A k \in 1 .. Len(early') - 1 :
            ~Overlaps(FirstPage(early'[Len(early')]), EndPage(early'[Len(early')]), early'[k])
      BY <3>1, <3>2, <3>3
    <3> QED BY <3>4 DEF FrameArrayApart, Overlaps, FirstPage, EndPage
  <2> QED BY <2>1, <2>2
<1> QED BY <1>1, <1>2

\* startup_alloc puts frame_array on pages that no region in use at boot touches.
THEOREM FrameArrayAlwaysApart == Spec => []FrameArrayApart
<1>1. Init => FrameArrayApart
  BY DEF Init, At, FrameArrayApart
<1>2. BlockInv /\ FrameArrayApart /\ [Next]_vars => FrameArrayApart'
  BY ApartStep
<1> QED BY <1>1, <1>2, Invariance, PTL DEF Spec

(***************************************************************************)
(* What is reserved and what is not.                                       *)
(***************************************************************************)
Working == call.at \in {"idle", "split", "merge"}
Given(f) == \E h \in held : h.page = f

\* A block in use that nobody was given: memory_reserve took it.
Kept(f) ==
  frames[f].used /\ frames[f].order # -1 /\ frames[f].pool = NoPool /\ ~Given(f)

AllReserved(f) == \A p \in Frames : f <= p /\ p < End(frames, f) => Reserved(p)
Clear(f) == \A k \in 1 .. Len(early) : ~Overlaps(f, End(frames, f), early[k])

\* memory_reserve is done with region k as far as blocks of order o are concerned.
Passed(k, o) == k < call.idx \/ (k = call.idx /\ call.order < o)

RegionsOK ==
  /\ \A f \in Frames : Kept(f) => AllReserved(f)
  /\ Working => \A f \in Frames : Live(frames, InHand, f) /\ ~Kept(f) => Clear(f)
  /\ call.at = "reserve" =>
       \A f \in Frames, k \in 1 .. Len(early) :
         frames[f].listed /\ Passed(k, frames[f].order)
           => ~Overlaps(f, End(frames, f), early[k])

\* Block f is as it was.
Stays(f) ==
  Live(frames, InHand, f) /\ End(frames', f) = End(frames, f) /\ (Kept(f)' <=> Kept(f))

\* After mm_init, every block is as it was, or new and clear of the regions.
LEMMA RegionsKept ==
  ASSUME BlockInv, RegionsOK, Working, Working', early' = early,
         \A f \in Frames : Live(frames', InHand', f) =>
           Stays(f) \/ (~Kept(f)' /\ \A k \in 1 .. Len(early) : ~Overlaps(f, End(frames', f), early[k]))
  PROVE  RegionsOK'
<1>1. ASSUME NEW f \in Frames, Kept(f)' PROVE AllReserved(f)'
  <2>1. Live(frames', InHand', f)
    BY <1>1 DEF Kept, Live
  <2>2. Stays(f)
    BY <1>1, <2>1
  <2>3. AllReserved(f) /\ End(frames', f) = End(frames, f)
    BY <1>1, <2>2 DEF Stays, RegionsOK
  <2> QED BY <2>3 DEF AllReserved, Reserved
<1>2. ASSUME NEW f \in Frames, Live(frames', InHand', f), ~Kept(f)' PROVE Clear(f)'
  <2>1. CASE Stays(f)
    <3>1. Clear(f) /\ End(frames', f) = End(frames, f)
      BY <1>2, <2>1 DEF Stays, RegionsOK
    <3> QED BY <3>1 DEF Clear
  <2>2. CASE ~Stays(f)
    BY <1>2, <2>2 DEF Clear
  <2> QED BY <2>1, <2>2
<1>3. call'.at # "reserve"
  BY DEF Working
<1> QED BY <1>1, <1>2, <1>3 DEF RegionsOK

\* A part of what is clear of a region is.
LEMMA OverlapPart ==
  ASSUME NEW r \in Region, NEW a \in Int, NEW b \in Int, NEW c \in Int, NEW d \in Int,
         a <= c, d <= b, ~Overlaps(a, b, r)
  PROVE  ~Overlaps(c, d, r)
<1>1. FirstPage(r) \in Int /\ EndPage(r) \in Int
  BY RegionPages
<1> QED BY <1>1 DEF Overlaps

\* Two neighbours that are clear of a region together are.
LEMMA OverlapUnion ==
  ASSUME NEW r \in Region, NEW a \in Int, NEW b \in Int, NEW c \in Int,
         ~Overlaps(a, b, r), ~Overlaps(b, c, r)
  PROVE  ~Overlaps(a, c, r)
<1>1. FirstPage(r) \in Int /\ EndPage(r) \in Int /\ FirstPage(r) < EndPage(r)
  BY RegionPages
<1> QED BY <1>1 DEF Overlaps

\* The blocks of the list, the block in hand and blocks of callers are clear.
LEMMA ClearBlocks ==
  ASSUME BlockInv, RegionsOK, Working, NEW f \in Frames, Live(frames, InHand, f),
         ~frames[f].used \/ frames[f].pool # NoPool \/ Given(f)
  PROVE  Clear(f)
BY DEF RegionsOK, Kept

\* What alloc_pages does with the block it takes: i of order k, to be split down to o.
TakeEffect(i, k, o, p, n) ==
  /\ i \in Frames /\ k \in Orders /\ o <= k
  /\ frames[i].listed /\ ~frames[i].used /\ frames[i].order = k /\ frames[i].pool = NoPool
  /\ frames' \in FrameArray
  /\ \A f \in Frames : f # i => frames'[f] = frames[f]
  /\ ~frames'[i].listed /\ ~frames'[i].used /\ frames'[i].order = k /\ frames'[i].pool = NoPool
  /\ call'.at = "split" /\ call'.idx = i /\ call'.order = k /\ call'.want = o
  /\ call'.pool = p /\ call'.size = n
  /\ freeArea' = ListDel(freeArea, i, k)
  /\ UNCHANGED <<chunks, early, held>>

\* What AllocPages does if there is a block.
LEMMA TakeEffects ==
  ASSUME BlockInv, NEW o \in Orders, NEW p, NEW n, AllocPages(o, p, n)
  PROVE  UNCHANGED vars \/ \E i \in Frames, k \in Orders : TakeEffect(i, k, o, p, n)
<1>1. CASE Available(o) = {}
  BY <1>1 DEF AllocPages
<1>2. CASE Available(o) # {}
  <2> DEFINE k == Least(Available(o))
             i == Head(freeArea[k])
  <2>1. k \in Orders /\ o <= k /\ i = freeArea[k][1] /\ 1 \in 1 .. Len(freeArea[k])
    BY <1>2, TakenBlock
  <2>2. /\ freeArea' = ListDel(freeArea, i, k)
        /\ frames' = [frames EXCEPT ![i].listed = FALSE]
        /\ call' = [at |-> "split", idx |-> i, order |-> k, want |-> o, pool |-> p, size |-> n]
        /\ UNCHANGED <<chunks, early, held>>
    BY <1>2 DEF AllocPages
  <2> HIDE DEF k, i
  <2>3. /\ i \in Frames /\ frames[i].listed /\ ~frames[i].used /\ frames[i].order = k
        /\ frames[i].pool = NoPool /\ frames \in FrameArray
    <3>1. frames \in FrameArray
      BY DEF BlockInv, TypeOK, FrameArray
    <3> QED BY <2>1, <3>1, OnList
  <2>4. /\ frames' \in FrameArray
        /\ \A f \in Frames : f # i => frames'[f] = frames[f]
        /\ ~frames'[i].listed /\ ~frames'[i].used /\ frames'[i].order = k
        /\ frames'[i].pool = NoPool
    BY <2>2, <2>3 DEF FrameArray, Frame
  <2>5. /\ call'.at = "split" /\ call'.idx = i /\ call'.order = k /\ call'.want = o
        /\ call'.pool = p /\ call'.size = n
    BY <2>2
  <2>6. TakeEffect(i, k, o, p, n)
    BY <2>1, <2>2, <2>3, <2>4, <2>5 DEF TakeEffect
  <2> QED BY <2>1, <2>3, <2>6
<1> QED BY <1>1, <1>2

\* What free does with the block of a caller.
FreesEffect(h, i, o) ==
  /\ h \in held /\ i = h.page /\ i \in Frames /\ o \in Orders
  /\ frames[i].used /\ ~frames[i].listed /\ frames[i].order = o /\ frames[i].pool = NoPool
  /\ frames' \in FrameArray
  /\ \A f \in Frames : f # i => frames'[f] = frames[f]
  /\ ~frames'[i].used /\ ~frames'[i].listed /\ frames'[i].order = o /\ frames'[i].pool = NoPool
  /\ call.at = "idle" /\ call'.at = "merge" /\ call'.idx = i /\ call'.order = o
  /\ held' = held \ {h} /\ UNCHANGED <<freeArea, chunks, early>>

\* What FreesBlock does.
LEMMA FreesEffects ==
  ASSUME BlockInv, NEW h \in held, FreesBlock(h)
  PROVE  FreesEffect(h, h.page, frames[h.page].order)
<1> DEFINE i == h.page
<1>1. /\ i \in Frames /\ i \in Nat /\ frames[i].order \in Orders /\ frames[i].used
      /\ ~frames[i].listed /\ frames[i] \in Frame /\ frames \in FrameArray
  BY HeldTypes DEF BlockInv, TypeOK, FrameArray
<1>2. /\ call.at = "idle" /\ frames[i].pool = NoPool /\ held' = held \ {h}
      /\ frames' = [frames EXCEPT ![i].used = FALSE]
      /\ call' = At("merge", i, frames[i].order)
      /\ UNCHANGED <<freeArea, chunks, early>>
  BY DEF FreesBlock
<1>3. call'.at = "merge" /\ call'.idx = i /\ call'.order = frames[i].order
  BY <1>1, <1>2, CallValues
<1> HIDE DEF i
<1>4. /\ frames' \in FrameArray
      /\ ~frames'[i].used /\ ~frames'[i].listed /\ frames'[i].order = frames[i].order
      /\ frames'[i].pool = NoPool
      /\ \A f \in Frames : f # i => frames'[f] = frames[f]
  BY <1>1, <1>2 DEF FrameArray, Frame
<1>5. FreesEffect(h, i, frames[i].order)
  BY <1>1, <1>2, <1>3, <1>4 DEF FreesEffect, i
<1> QED BY <1>5 DEF i

\* What the end of free_pages does with the block in hand.
ListsEffect(i, o) ==
  /\ i = call.idx /\ o = call.order /\ i \in Frames /\ o \in Orders
  /\ ~frames[i].used /\ ~frames[i].listed /\ frames[i].order = o /\ frames[i].pool = NoPool
  /\ frames' \in FrameArray
  /\ \A f \in Frames : f # i => frames'[f] = frames[f]
  /\ ~frames'[i].used /\ frames'[i].listed /\ frames'[i].order = o /\ frames'[i].pool = NoPool
  /\ call.at = "merge" /\ ~CanMerge /\ call'.at = "idle"
  /\ freeArea' = ListAdd(freeArea, i, o)
  /\ UNCHANGED <<chunks, early, held>>

\* What MergeDone does.
LEMMA ListsEffects == ASSUME BlockInv, MergeDone PROVE ListsEffect(call.idx, call.order)
<1> DEFINE i == call.idx
           o == call.order
<1>1. /\ call.at = "merge" /\ frames' = [frames EXCEPT ![i] = FreeFrame(o)] /\ ~CanMerge
      /\ freeArea' = ListAdd(freeArea, i, o) /\ call' = Idle
      /\ UNCHANGED <<chunks, early, held>>
  BY DEF MergeDone
<1>2. /\ i \in Frames /\ ~frames[i].listed /\ ~frames[i].used /\ o \in Orders
      /\ frames[i].order = o /\ frames \in FrameArray /\ frames[i].pool = NoPool
  BY <1>1 DEF BlockInv, LoopOK, Looping, TypeOK, FrameArray, Call, Metadata
<1> HIDE DEF i, o
<1>3. /\ FreeFrame(o) \in Frame /\ FreeFrame(o).order = o /\ FreeFrame(o).listed
      /\ ~FreeFrame(o).used /\ FreeFrame(o).pool = NoPool /\ o # -1
  BY <1>2, FrameValues
<1>4. /\ frames' \in FrameArray /\ frames'[i] = FreeFrame(o)
      /\ \A f \in Frames : f # i => frames'[f] = frames[f]
  BY <1>1, <1>2, <1>3 DEF FrameArray
<1>5. call'.at = "idle"
  BY <1>1 DEF Idle, At
<1>6. ListsEffect(i, o)
  BY <1>1, <1>2, <1>3, <1>4, <1>5 DEF ListsEffect, i, o
<1> QED BY <1>6 DEF i, o

\* Blocks that a step does not write stay.
LEMMA StaysUnchanged ==
  ASSUME NEW f \in Frames, frames'[f] = frames[f], Given(f)' <=> Given(f),
         Live(frames', InHand', f), f \in InHand' => f \in InHand
  PROVE  Stays(f)
BY DEF Stays, Live, End, Kept

\* alloc_pages takes a block that is clear.
LEMMA RegionsTake ==
  ASSUME BlockInv, RegionsOK, call.at = "idle", NEW i, NEW k, NEW o, NEW p, NEW n,
         TakeEffect(i, k, o, p, n)
  PROVE  RegionsOK'
<1>1. /\ i \in Frames /\ k \in Orders
      /\ frames[i].listed /\ ~frames[i].used /\ frames[i].order = k
      /\ \A f \in Frames : f # i => frames'[f] = frames[f]
      /\ ~frames'[i].used /\ frames'[i].order = k
      /\ call'.at = "split" /\ call'.idx = i /\ UNCHANGED <<early, held>>
  BY DEF TakeEffect
<1>2. InHand = {} /\ InHand' = {i} /\ Working /\ Working'
  BY <1>1 DEF InHand, Looping, Working
<1>3. ASSUME NEW f \in Frames, Live(frames', InHand', f) PROVE Stays(f)
  <2>1. CASE f = i
    BY <1>1, <1>2, <2>1, Constants DEF Stays, Live, End, Kept
  <2>2. CASE f # i
    BY <1>1, <1>2, <1>3, <2>2, StaysUnchanged DEF Given
  <2> QED BY <2>1, <2>2
<1> QED BY <1>1, <1>2, <1>3, RegionsKept

\* Halves of what is clear are.
LEMMA RegionsSplit == ASSUME BlockInv, RegionsOK, Split PROVE RegionsOK'
<1> DEFINE i == call.idx
           o == call.order - 1
           j == i + Size[o]
<1>1. SplitEffect(i, j, o) /\ call.at = "split"
  BY SplitEffects DEF Split
<1>2. j = i + Size[o] /\ o = call.order - 1 /\ i = call.idx
  OBVIOUS
<1> HIDE DEF i, j, o
<1>3. /\ i \in Frames /\ j \in Frames /\ i # j /\ o \in Orders /\ call.order > 0
      /\ frames[i].order = call.order /\ ~frames[i].listed /\ ~frames[i].used
      /\ frames'[j] = FreeFrame(o) /\ frames'[i].order = o /\ ~frames'[i].used
      /\ \A f \in Frames : f # i /\ f # j => frames'[f] = frames[f]
      /\ call'.at = "split" /\ call'.idx = i /\ UNCHANGED <<early, held>>
  BY <1>1 DEF SplitEffect
<1>4. frames'[j].order = o /\ ~frames'[j].used
  BY <1>3, FrameValues
<1>5. InHand = {i} /\ InHand' = {i} /\ Working /\ Working'
  BY <1>1, <1>2, <1>3 DEF InHand, Looping, Working
<1>6. call.order \in Orders /\ Size[call.order] = Size[o] + Size[o] /\ Size[o] \in Nat
  <2>1. call.order \in Orders
    BY DEF BlockInv, TypeOK, Call
  <2> QED BY <1>2, <1>3, <2>1, Halves, SizePositive
<1>7. End(frames, i) = i + Size[o] + Size[o] /\ End(frames', i) = j /\ End(frames', j) = j + Size[o]
  BY <1>2, <1>3, <1>4, <1>6, Constants DEF End
<1>8. Clear(i)
  <2>1. Live(frames, InHand, i)
    BY <1>3, <1>5, <1>6, Constants DEF Live
  <2> QED BY <1>3, <1>5, <2>1, ClearBlocks
<1>9. ASSUME NEW k \in 1 .. Len(early)
      PROVE  ~Overlaps(i, End(frames', i), early[k]) /\ ~Overlaps(j, End(frames', j), early[k])
  <2>1. ~Overlaps(i, End(frames, i), early[k]) /\ early[k] \in Region
    BY <1>8, EarlyTypes DEF Clear
  <2>2. i \in Int /\ j \in Int /\ End(frames, i) \in Int /\ End(frames', i) \in Int
        /\ End(frames', j) \in Int /\ i <= j /\ j <= End(frames, i)
        /\ End(frames', j) = End(frames, i)
    <3>1. i \in Int /\ j \in Int /\ Size[o] \in Nat
      BY <1>3, <1>6, Constants
    <3> QED BY <3>1, <1>2, <1>7
  <2>3. i <= i /\ End(frames', i) <= End(frames, i) /\ End(frames', j) <= End(frames, i)
    BY <1>7, <2>2
  <2> QED BY <2>1, <2>2, <2>3, OverlapPart
<1>10. ASSUME NEW f \in Frames, Live(frames', InHand', f)
       PROVE  Stays(f) \/ (~Kept(f)' /\ \A k \in 1 .. Len(early) : ~Overlaps(f, End(frames', f), early[k]))
  <2>1. CASE f = i \/ f = j
    BY <1>3, <1>4, <1>9, <2>1 DEF Kept
  <2>2. CASE f # i /\ f # j
    BY <1>3, <1>5, <1>10, <2>2, StaysUnchanged DEF Given
  <2> QED BY <2>1, <2>2
<1> QED BY <1>3, <1>5, <1>10, RegionsKept

\* The block that a caller or a pool gets was clear in the hands of alloc_pages.
LEMMA RegionsDone == ASSUME BlockInv, RegionsOK, AllocDone PROVE RegionsOK'
<1> DEFINE i == call.idx
           p == call.pool
<1>1. PICK x \in 0 .. PageSize - 1 : DoneEffect(i, p, x)
  BY DoneEffects
<1>2. /\ call.at = "split" /\ call.order = call.want /\ call'.at = "idle" /\ early' = early
      /\ i = call.idx
  BY DEF AllocDone, Idle, At
<1>3. /\ i \in Frames /\ frames[i].order = call.order /\ ~frames[i].used /\ call.order \in Orders
  BY <1>2 DEF BlockInv, LoopOK, Looping, TypeOK, Call
<1> DEFINE new == [page |-> i, off |-> x, size |-> call.size]
<1>4. new.page = i
  OBVIOUS
<1> HIDE DEF i, p, new
<1>5. /\ frames'[i].order = call.want /\ \A f \in Frames : f # i => frames'[f] = frames[f]
      /\ held' = held \cup {new}
  BY <1>1 DEF DoneEffect, new
<1>6. InHand = {i} /\ InHand' = {} /\ Working /\ Working'
  BY <1>2 DEF InHand, Looping, Working
<1>7. Clear(i) /\ End(frames', i) = End(frames, i)
  <2>1. Live(frames, InHand, i)
    BY <1>3, <1>6, Constants DEF Live
  <2> QED BY <1>2, <1>3, <1>5, <1>6, <2>1, ClearBlocks DEF End
<1>8. \A f : Given(f)' <=> Given(f) \/ f = i
  BY <1>4, <1>5 DEF Given
<1>9. ASSUME NEW f \in Frames, Live(frames', InHand', f)
      PROVE  Stays(f) \/ (~Kept(f)' /\ \A k \in 1 .. Len(early) : ~Overlaps(f, End(frames', f), early[k]))
  <2>1. CASE f = i
    BY <1>7, <1>8, <2>1 DEF Kept, Clear
  <2>2. CASE f # i
    BY <1>5, <1>6, <1>8, <1>9, <2>2, StaysUnchanged
  <2> QED BY <2>1, <2>2
<1> QED BY <1>2, <1>6, <1>9, RegionsKept

\* Chunks come from pages that are in use in any case.
LEMMA RegionsChunk ==
  ASSUME BlockInv, RegionsOK, ChunkStep,
         \A f \in Frames : frames[f].pool = NoPool => (Given(f)' <=> Given(f))
  PROVE  RegionsOK'
<1>1. call.at = "idle" /\ UNCHANGED <<frames, early, call>>
  BY DEF ChunkStep
<1>2. InHand = {} /\ InHand' = {} /\ Working /\ Working'
  BY <1>1 DEF InHand, Looping, Working
<1>3. ASSUME NEW f \in Frames, Live(frames', InHand', f) PROVE Stays(f)
  BY <1>1, <1>2, <1>3 DEF Stays, Live, End, Kept
<1> QED BY <1>1, <1>2, <1>3, RegionsKept

\* The block that a caller gives back is clear.
LEMMA RegionsFree == ASSUME BlockInv, RegionsOK, NEW h \in held, FreesBlock(h) PROVE RegionsOK'
<1> DEFINE i == h.page
<1>1. FreesEffect(h, i, frames[i].order)
  BY FreesEffects
<1>2. i = h.page
  OBVIOUS
<1> HIDE DEF i
<1>3. /\ i \in Frames /\ frames[i].order \in Orders /\ frames[i].pool = NoPool /\ frames[i].used
      /\ \A f \in Frames : f # i => frames'[f] = frames[f]
      /\ ~frames'[i].used /\ frames'[i].order = frames[i].order
      /\ call.at = "idle" /\ call'.at = "merge" /\ call'.idx = i
      /\ held' = held \ {h} /\ early' = early
  BY <1>1 DEF FreesEffect
<1>4. InHand = {} /\ InHand' = {i} /\ Working /\ Working'
  BY <1>3 DEF InHand, Looping, Working
<1>5. Clear(i) /\ End(frames', i) = End(frames, i)
  <2>1. Live(frames, InHand, i) /\ Given(i)
    BY <1>2, <1>3, Constants DEF Live, Given
  <2> QED BY <1>3, <1>4, <2>1, ClearBlocks DEF End
<1>6. \A f : f # i => (Given(f)' <=> Given(f))
  BY <1>2, <1>3 DEF Given
<1>7. ASSUME NEW f \in Frames, Live(frames', InHand', f)
      PROVE  Stays(f) \/ (~Kept(f)' /\ \A k \in 1 .. Len(early) : ~Overlaps(f, End(frames', f), early[k]))
  <2>1. CASE f = i
    BY <1>3, <1>5, <2>1 DEF Kept, Clear
  <2>2. CASE f # i
    BY <1>3, <1>4, <1>6, <1>7, <2>2, StaysUnchanged
  <2> QED BY <2>1, <2>2
<1> QED BY <1>3, <1>4, <1>7, RegionsKept

\* The union of two blocks that are clear is.
LEMMA RegionsMerge == ASSUME BlockInv, RegionsOK, Merge PROVE RegionsOK'
<1> DEFINE i == call.idx
           o == call.order
           b == BuddyOf(i, o)
<1>1. PICK lo \in Frames, hi \in Frames : MergeEffect(i, b, lo, hi, o)
  BY MergeEffects
<1>2. /\ call.at = "merge" /\ i \in Frames /\ ~frames[i].listed /\ ~frames[i].used
      /\ frames[i].order = o /\ i = call.idx
  BY DEF Merge, BlockInv, LoopOK, Looping
<1> HIDE DEF b, i, o
<1>3. /\ hi = lo + Size[o] /\ ((lo = i /\ hi = b) \/ (lo = b /\ hi = i)) /\ i # b
      /\ b \in Frames /\ o \in Orders /\ o + 1 \in Orders
      /\ frames[b].listed /\ ~frames[b].used /\ frames[b].order = o
      /\ \A f \in Frames : f # i /\ f # b => frames'[f] = frames[f]
      /\ ~frames'[i].listed /\ ~frames'[i].used /\ ~frames'[b].listed /\ ~frames'[b].used
      /\ frames'[lo].order = o + 1
      /\ call'.at = "merge" /\ call'.idx = lo /\ UNCHANGED <<early, held>>
  BY <1>1 DEF MergeEffect
<1>4. InHand = {i} /\ InHand' = {lo} /\ Working /\ Working'
  BY <1>2, <1>3 DEF InHand, Looping, Working
<1>5. Clear(lo) /\ Clear(hi)
  <2>1. Live(frames, InHand, i) /\ Live(frames, InHand, b)
    BY <1>2, <1>3, <1>4, Constants DEF Live
  <2>2. Clear(i) /\ Clear(b)
    BY <1>2, <1>3, <1>4, <2>1, ClearBlocks
  <2> QED BY <1>3, <2>2
<1>6. o \in Nat /\ Size[o + 1] = Size[o] + Size[o] /\ Size[o] \in Nat
  <2>1. o \in Nat /\ o + 1 > 0 /\ (o + 1) - 1 = o
    BY <1>3, Constants
  <2> QED BY <1>3, <2>1, Halves, SizePositive
<1>7. End(frames, lo) = hi /\ End(frames, hi) = hi + Size[o] /\ End(frames', lo) = hi + Size[o]
  BY <1>2, <1>3, <1>6, Constants DEF End
<1>8. ASSUME NEW k \in 1 .. Len(early) PROVE ~Overlaps(lo, End(frames', lo), early[k])
  <2>1. ~Overlaps(lo, hi, early[k]) /\ ~Overlaps(hi, hi + Size[o], early[k]) /\ early[k] \in Region
    BY <1>5, <1>7, EarlyTypes DEF Clear
  <2>2. lo \in Int /\ hi \in Int /\ hi + Size[o] \in Int
    BY <1>6, Constants
  <2> QED BY <1>7, <2>1, <2>2, OverlapUnion
<1>9. ASSUME NEW f \in Frames, Live(frames', InHand', f)
      PROVE  Stays(f) \/ (~Kept(f)' /\ \A k \in 1 .. Len(early) : ~Overlaps(f, End(frames', f), early[k]))
  <2>1. CASE f = lo
    BY <1>3, <1>8, <2>1 DEF Kept
  <2>2. CASE f = hi /\ f # lo
    BY <1>3, <1>4, <1>9, <2>2 DEF Live
  <2>3. CASE f # lo /\ f # hi
    BY <1>3, <1>4, <1>9, <2>3, StaysUnchanged DEF Given
  <2> QED BY <2>1, <2>2, <2>3
<1> QED BY <1>3, <1>4, <1>9, RegionsKept

\* The block in hand goes on its list.
LEMMA RegionsList == ASSUME BlockInv, RegionsOK, MergeDone PROVE RegionsOK'
<1> DEFINE i == call.idx
           o == call.order
<1>1. ListsEffect(i, o)
  BY ListsEffects
<1>2. i = call.idx
  OBVIOUS
<1> HIDE DEF i, o
<1>3. /\ i \in Frames /\ o \in Orders /\ ~frames[i].used /\ frames[i].order = o
      /\ \A f \in Frames : f # i => frames'[f] = frames[f]
      /\ ~frames'[i].used /\ frames'[i].order = o
      /\ call.at = "merge" /\ call'.at = "idle" /\ UNCHANGED <<early, held>>
  BY <1>1 DEF ListsEffect
<1>4. InHand = {i} /\ InHand' = {} /\ Working /\ Working'
  BY <1>2, <1>3 DEF InHand, Looping, Working
<1>5. ASSUME NEW f \in Frames, Live(frames', InHand', f) PROVE Stays(f)
  <2>1. CASE f = i
    BY <1>3, <1>4, <2>1, Constants DEF Stays, Live, End, Kept
  <2>2. CASE f # i
    BY <1>3, <1>4, <1>5, <2>2, StaysUnchanged DEF Given
  <2> QED BY <2>1, <2>2
<1> QED BY <1>3, <1>4, <1>5, RegionsKept

\* Before mm_init reserves blocks nobody has any.
LEMMA RegionsBefore == ASSUME BlockInv, RegionsOK, Startup \/ Halt \/ Fill PROVE RegionsOK'
<1>1. CASE Startup \/ Halt
  <2>1. /\ call'.at \in {"startup", "fill", "halted"} /\ UNCHANGED <<frames, held>>
        /\ call.at = "startup"
    BY <1>1 DEF Startup, Halt, At
  <2>2. \A f \in Frames : frames[f] = UsedFrame(-1) /\ UsedFrame(-1).order = -1
    BY <2>1 DEF BlockInv, BootOK, UsedFrame
  <2>3. \A f \in Frames : ~Kept(f)'
    BY <2>1, <2>2 DEF Kept
  <2>4. ~Working' /\ call'.at # "reserve"
    BY <2>1 DEF Working
  <2> QED BY <2>3, <2>4 DEF RegionsOK
<1>2. CASE Fill /\ call.idx < FrameCount
  <2>1. PICK o \in Orders : FillEffect(call.idx, o)
    BY <1>2, FillEffects
  <2> DEFINE i == call.idx
  <2>2. /\ i \in Frames /\ frames' = [frames EXCEPT ![i] = FreeFrame(o)]
        /\ UNCHANGED <<held, early>>
    BY <1>2, <2>1 DEF FillEffect, Fill
  <2>3. call'.at = "fill"
    BY <2>1 DEF FillEffect, At
  <2> HIDE DEF i
  <2>4. ~frames'[i].used /\ \A f \in Frames : f # i => frames'[f] = frames[f]
    BY <2>2, FrameValues DEF BlockInv, TypeOK
  <2>5. ASSUME NEW f \in Frames, Kept(f)' PROVE AllReserved(f)'
    <3>1. f # i /\ frames'[f] = frames[f]
      BY <2>4, <2>5 DEF Kept
    <3>2. Kept(f)
      BY <2>2, <2>5, <3>1 DEF Kept, Given
    <3>3. AllReserved(f)
      BY <3>2 DEF RegionsOK
    <3> QED BY <2>2, <3>1, <3>3 DEF AllReserved, End, Reserved
  <2> QED BY <2>3, <2>5 DEF RegionsOK, Working
<1>3. CASE Fill /\ ~(call.idx < FrameCount)
  <2>1. call' = At("reserve", 1, MaxOrder) /\ UNCHANGED <<frames, held, early>>
    BY <1>3 DEF Fill
  <2>2. call'.at = "reserve" /\ call'.idx = 1 /\ call'.order = MaxOrder
    BY <2>1 DEF At
  <2>3. ASSUME NEW f \in Frames, Kept(f)' PROVE AllReserved(f)'
    <3>1. Kept(f)
      BY <2>1, <2>3 DEF Kept, Given
    <3> QED BY <2>1, <3>1 DEF RegionsOK, AllReserved, End, Reserved
  <2>4. ASSUME NEW f \in Frames, frames[f].listed, NEW k \in 1 .. Len(early)
        PROVE  ~Passed(k, frames[f].order)'
    <3>1. frames[f].order \in 0 .. MaxOrder /\ MaxOrder \in Nat
      BY <2>4, Constants DEF BlockInv, Metadata, Orders
    <3> QED BY <2>1, <2>2, <3>1 DEF Passed
  <2> QED BY <2>1, <2>2, <2>3, <2>4 DEF RegionsOK, Working, Passed
<1> QED BY <1>1, <1>2, <1>3

\* Steps of memory_reserve within one region and order.
LEMMA RegionsReserveStep ==
  ASSUME BlockInv, RegionsOK, Reserve, call' = call,
         \A f \in Frames : frames'[f].used /\ frames'[f].order # -1 =>
           frames'[f] = frames[f] \/ \A p \in Frames : f <= p /\ p < End(frames', f) => Reserved(p),
         \A f \in Frames, k \in 1 .. Len(early) :
           frames'[f].listed /\ Passed(k, frames'[f].order) =>
             frames'[f] = frames[f] \/ ~Overlaps(f, End(frames', f), early[k])
  PROVE  RegionsOK'
<1>1. call.at = "reserve" /\ UNCHANGED <<held, early>>
  BY ReserveTypes
<1>2. ASSUME NEW f \in Frames, Kept(f)' PROVE AllReserved(f)'
  <2>1. CASE frames'[f] = frames[f]
    <3>1. Kept(f)
      BY <1>1, <1>2, <2>1 DEF Kept, Given
    <3> QED BY <1>1, <2>1, <3>1 DEF RegionsOK, AllReserved, End, Reserved
  <2>2. CASE frames'[f] # frames[f]
    BY <1>1, <1>2, <2>2 DEF Kept, AllReserved, Reserved
  <2> QED BY <2>1, <2>2
<1>3. ASSUME NEW f \in Frames, NEW k \in 1 .. Len(early),
             frames'[f].listed, Passed(k, frames'[f].order)
      PROVE  ~Overlaps(f, End(frames', f), early[k])
  <2>1. CASE frames'[f] = frames[f]
    BY <1>1, <1>3, <2>1 DEF RegionsOK, End
  <2>2. CASE frames'[f] # frames[f]
    BY <1>3, <2>2
  <2> QED BY <2>1, <2>2
<1>4. ~Working'
  BY <1>1 DEF Working
<1> QED BY <1>1, <1>2, <1>3, <1>4 DEF RegionsOK, Passed

\* A block that memory_reserve keeps as a whole is covered, or is one page.
LEMMA RegionsWhole ==
  ASSUME BlockInv, RegionsOK, Reserve, call' = call, call.idx <= Len(early),
         NEW n \in 1 .. Len(freeArea[call.order]),
         Overlaps(freeArea[call.order][n], freeArea[call.order][n] + Size[call.order], early[call.idx]),
         Covered(freeArea[call.order][n], call.order, early[call.idx]) \/ call.order = 0,
         ReserveWhole(freeArea[call.order][n], call.order)
  PROVE  RegionsOK'
<1> DEFINE o == call.order
           i == freeArea[o][n]
           r == early[call.idx]
<1>1. /\ o \in Orders /\ o \in Nat /\ call.idx \in 1 .. Len(early)
      /\ frames \in FrameArray
  BY ReserveTypes
<1>2. i \in Frames /\ i \in Nat /\ frames[i].listed /\ frames[i].order = o
  BY <1>1, OnList, Constants
<1>3. /\ frames' = [frames EXCEPT ![i] = UsedFrame(o)] /\ Overlaps(i, i + Size[o], r)
      /\ Covered(i, o, r) \/ o = 0
  BY DEF ReserveWhole
<1>4. r \in Region /\ FirstPage(r) \in Int /\ EndPage(r) \in Int
  BY <1>1, EarlyTypes, RegionPages
<1>5. r = early[call.idx]
  OBVIOUS
<1> HIDE DEF i, o, r
<1>6. UsedFrame(o).order = o /\ ~UsedFrame(o).listed
  BY <1>1, FrameValues
<1>7. /\ frames'[i] = UsedFrame(o) /\ \A f \in Frames : f # i => frames'[f] = frames[f]
  BY <1>1, <1>2, <1>3 DEF FrameArray
<1>8. End(frames', i) = i + Size[o] /\ Size[o] \in Nat
  BY <1>1, <1>6, <1>7, SizePositive DEF End
<1>9. ASSUME NEW p \in Frames, i <= p, p < i + Size[o] PROVE Reserved(p)
  <2>1. p \in Nat
    BY Constants
  <2>2. Overlaps(p, p + 1, r)
    <3>1. CASE Covered(i, o, r)
      BY <1>2, <1>4, <1>8, <1>9, <2>1, <3>1 DEF Covered, Overlaps
    <3>2. CASE o = 0
      <4>1. p = i /\ Size[o] = 1
        BY <1>2, <1>9, <2>1, <3>2, Constants
      <4> QED BY <1>3, <4>1
    <3> QED BY <1>3, <3>1, <3>2
  <2> QED BY <1>1, <1>5, <2>2 DEF Reserved
<1> QED BY <1>6, <1>7, <1>8, <1>9, RegionsReserveStep

\* The halves of a block that memory_reserve splits are looked at next.
LEMMA RegionsHalves ==
  ASSUME BlockInv, RegionsOK, Reserve, call' = call,
         NEW n \in 1 .. Len(freeArea[call.order]),
         ReserveSplit(freeArea[call.order][n], call.order,
                      freeArea[call.order][n] + Size[call.order - 1])
  PROVE  RegionsOK'
<1> DEFINE o == call.order
           i == freeArea[o][n]
           l == o - 1
           j == i + Size[l]
<1>1. o \in Orders /\ o \in Nat /\ frames \in FrameArray /\ call.at = "reserve" /\ call.idx \in Nat
  BY ReserveTypes
<1>2. /\ i \in Frames /\ Live(frames, InHand, i) /\ frames[i].listed /\ frames[i].order = o
  BY <1>1, OnList
<1>3. o > 0 /\ frames' = [frames EXCEPT ![i] = FreeFrame(l), ![j] = FreeFrame(l)]
  BY DEF ReserveSplit
<1>4. l \in Orders /\ l < o /\ Size[o] = Size[l] + Size[l] /\ Size[l] \in Nat
  BY <1>1, <1>3, Halves, SizePositive
<1>5. j \in Frames
  <2>1. Tiles(frames, InHand, FrameCount)
    BY <1>1 DEF BlockInv, Divided
  <2> QED BY <1>1, <1>2, <1>3, <2>1, SplitPlaces, Constants
<1>6. j = i + Size[l] /\ o = call.order
  OBVIOUS
<1> HIDE DEF i, j, l, o
<1>7. FreeFrame(l).order = l /\ ~FreeFrame(l).used
  BY <1>4, FrameValues
<1>8. /\ frames'[i] = FreeFrame(l) /\ frames'[j] = FreeFrame(l)
      /\ \A f \in Frames : f # i /\ f # j => frames'[f] = frames[f]
  BY <1>1, <1>2, <1>3, <1>5 DEF FrameArray
<1>9. ASSUME NEW k \in 1 .. Len(early), Passed(k, l)
      PROVE  ~Overlaps(i, End(frames', i), early[k]) /\ ~Overlaps(j, End(frames', j), early[k])
  <2>1. k < call.idx
    BY <1>1, <1>4, <1>6, <1>9 DEF Passed
  <2>2. ~Overlaps(i, End(frames, i), early[k])
    BY <1>1, <1>2, <2>1 DEF RegionsOK, Passed
  <2>3. early[k] \in Region
    BY EarlyTypes
  <2>4. /\ End(frames, i) = i + Size[o] /\ End(frames', i) = i + Size[l]
        /\ End(frames', j) = i + Size[l] + Size[l] /\ i \in Nat
    BY <1>2, <1>6, <1>7, <1>8, Constants DEF End
  <2>5. /\ i \in Int /\ j \in Int /\ End(frames, i) \in Int /\ End(frames', i) \in Int
        /\ End(frames', j) \in Int /\ i <= i /\ i <= j
        /\ End(frames', i) <= End(frames, i) /\ End(frames', j) <= End(frames, i)
    BY <1>4, <1>6, <2>4
  <2> QED BY <2>2, <2>3, <2>5, OverlapPart
<1> QED BY <1>7, <1>8, <1>9, RegionsReserveStep

\* memory_reserve goes on when no block of the order touches the region.
LEMMA RegionsReserve == ASSUME BlockInv, RegionsOK, Reserve PROVE RegionsOK'
<1>1. /\ call.at = "reserve" /\ call.idx \in Nat /\ call.idx >= 1
      /\ call.order \in Orders /\ call.order \in Nat /\ early \in Seq(Region)
      /\ held = {} /\ InHand = {} /\ (\A f \in Frames : frames[f].pool = NoPool)
      /\ UNCHANGED <<chunks, early, held>>
  BY ReserveTypes
<1>2. Len(early) \in Nat
  BY <1>1
<1>3. CASE call.idx > Len(early)
  <2>1. call'.at = "idle" /\ UNCHANGED frames
    BY <1>3 DEF Reserve, Idle, At
  <2>2. InHand' = {}
    BY <2>1 DEF InHand, Looping
  <2>3. ASSUME NEW f \in Frames, Kept(f)' PROVE AllReserved(f)'
    <3>1. Kept(f)
      BY <1>1, <2>1, <2>3 DEF Kept, Given
    <3> QED BY <1>1, <2>1, <3>1 DEF RegionsOK, AllReserved, End, Reserved
  <2>4. ASSUME NEW f \in Frames, Live(frames', InHand', f), ~Kept(f)' PROVE Clear(f)'
    <3>1. frames[f].listed
      BY <1>1, <2>1, <2>2, <2>4 DEF Live, Kept, Given
    <3>2. \A k \in 1 .. Len(early) : Passed(k, frames[f].order)
      BY <1>1, <1>2, <1>3 DEF Passed
    <3>3. \A k \in 1 .. Len(early) : ~Overlaps(f, End(frames, f), early[k])
      BY <1>1, <3>1, <3>2 DEF RegionsOK
    <3> QED BY <1>1, <2>1, <3>3 DEF Clear
  <2> QED BY <2>1, <2>3, <2>4 DEF RegionsOK
<1>4. CASE call.idx <= Len(early) /\ Touched(call.order, early[call.idx]) # {}
  <2>1. PICK n \in 1 .. Len(freeArea[call.order]) :
          /\ Overlaps(freeArea[call.order][n], freeArea[call.order][n] + Size[call.order],
                      early[call.idx])
          /\ call' = call
          /\ \/ /\ Covered(freeArea[call.order][n], call.order, early[call.idx]) \/ call.order = 0
                /\ ReserveWhole(freeArea[call.order][n], call.order)
             \/ ReserveSplit(freeArea[call.order][n], call.order,
                             freeArea[call.order][n] + Size[call.order - 1])
    BY <1>4, ReserveCases
  <2> QED BY <1>4, <2>1, RegionsWhole, RegionsHalves
<1>5. CASE call.idx <= Len(early) /\ Touched(call.order, early[call.idx]) = {}
  <2>1. /\ call' = (IF call.order > 0
                    THEN At("reserve", call.idx, call.order - 1)
                    ELSE At("reserve", call.idx + 1, MaxOrder))
        /\ UNCHANGED <<frames, freeArea>>
    BY <1>1, <1>2, <1>5 DEF Reserve
  <2>2. /\ call'.at = "reserve"
        /\ call.order > 0 => call'.idx = call.idx /\ call'.order = call.order - 1
        /\ call.order = 0 => call'.idx = call.idx + 1 /\ call'.order = MaxOrder
    BY <1>1, <2>1 DEF At
  <2>3. ASSUME NEW f \in Frames, frames[f].listed, frames[f].order = call.order
        PROVE  ~Overlaps(f, End(frames, f), early[call.idx])
    <3>1. Lists(freeArea, call.order, f)
      BY <1>1, <2>3 DEF BlockInv, ListsOK
    <3>2. PICK n \in 1 .. Len(freeArea[call.order]) : freeArea[call.order][n] = f
      BY <3>1 DEF Lists, On
    <3> QED BY <1>5, <2>3, <3>2 DEF Touched, End
  <2>4. ASSUME NEW f \in Frames, NEW k \in 1 .. Len(early), frames[f].listed,
               Passed(k, frames[f].order)'
        PROVE  ~Overlaps(f, End(frames, f), early[k])
    <3>1. frames[f].order \in Nat /\ frames[f].order <= MaxOrder /\ MaxOrder \in Nat
      BY <2>4, Constants DEF BlockInv, Metadata, Orders
    <3>2. Passed(k, frames[f].order) \/ (k = call.idx /\ frames[f].order = call.order)
      BY <1>1, <2>1, <2>2, <2>4, <3>1 DEF Passed
    <3> QED BY <1>1, <2>3, <2>4, <3>2 DEF RegionsOK
  <2>5. ASSUME NEW f \in Frames, Kept(f)' PROVE AllReserved(f)'
    <3>1. Kept(f)
      BY <1>1, <2>1, <2>5 DEF Kept, Given
    <3> QED BY <1>1, <2>1, <3>1 DEF RegionsOK, AllReserved, End, Reserved
  <2> QED BY <1>1, <2>1, <2>2, <2>4, <2>5 DEF RegionsOK, Working, Passed
<1> QED BY <1>1, <1>2, <1>3, <1>4, <1>5

\* Every step keeps the regions right.
LEMMA RegionsStep == BlockInv /\ RegionsOK /\ [Next]_vars => RegionsOK'
<1> SUFFICES ASSUME BlockInv, RegionsOK, [Next]_vars PROVE RegionsOK'
  OBVIOUS
<1>1. CASE UNCHANGED vars
  BY <1>1 DEF vars, RegionsOK, Kept, Given, AllReserved, End, Reserved, Working, Live, InHand,
              Looping, Clear, Passed
<1>2. CASE Boot
  BY <1>1, <1>2, RegionsBefore, RegionsReserve DEF Boot, Halted
<1>3. CASE Allocate
  <2>1. call.at = "idle"
    BY <1>3 DEF Allocate, Idle, At
  <2>2. CASE \E n \in Nat, o \in Orders, p \in Pools \cup {NoPool} :
              /\ n >= 1 /\ Fits(n, o, p) /\ (p # NoPool => o = 0 /\ chunks[p] = <<>>)
              /\ AllocPages(o, p, n)
    <3>1. PICK n \in Nat, o \in Orders, p \in Pools \cup {NoPool} : AllocPages(o, p, n)
      BY <2>2
    <3>2. UNCHANGED vars \/ \E i \in Frames, k \in Orders : TakeEffect(i, k, o, p, n)
      BY <3>1, TakeEffects
    <3> QED BY <1>1, <2>1, <3>2, RegionsTake
  <2>3. CASE \E n \in Nat, p \in Pools : PopsChunk(n, p)
    <3>1. PICK n \in Nat, p \in Pools : PopsChunk(n, p)
      BY <2>3
    <3>2. frames[Head(chunks[p]).page].pool = p /\ p # NoPool
      BY <3>1, HeadChunk, PoolSizeFacts DEF PopsChunk
    <3>3. \A f \in Frames : frames[f].pool = NoPool => (Given(f)' <=> Given(f))
      BY <3>1, <3>2 DEF PopsChunk, Given
    <3> QED BY <3>1, <3>3, RegionsChunk DEF PopsChunk
  <2> QED BY <1>3, <2>2, <2>3, AllocateCases
<1>4. CASE Free
  <2>1. CASE \E h \in held, p \in Pools : PushesChunk(h, p)
    <3>1. PICK h \in held, p \in Pools : PushesChunk(h, p)
      BY <2>1
    <3>2. frames[h.page].pool = p /\ p # NoPool
      BY <3>1, PoolSizeFacts DEF PushesChunk
    <3>3. \A f \in Frames : frames[f].pool = NoPool => (Given(f)' <=> Given(f))
      BY <3>1, <3>2 DEF PushesChunk, Given
    <3> QED BY <3>1, <3>3, RegionsChunk DEF PushesChunk
  <2>2. CASE \E h \in held : FreesBlock(h)
    BY <2>2, RegionsFree
  <2> QED BY <1>4, <2>1, <2>2, FreeCases
<1>5. CASE Split \/ AllocDone \/ Merge \/ MergeDone
  BY <1>5, RegionsSplit, RegionsDone, RegionsMerge, RegionsList
<1> QED BY <1>1, <1>2, <1>3, <1>4, <1>5 DEF Next

\* What memory_reserve took is reserved, and nothing else touches the regions.
LEMMA RegionsAlways == Spec => []RegionsOK
<1>1. Init => RegionsOK
  <2> SUFFICES ASSUME Init PROVE RegionsOK
    OBVIOUS
  <2>1. call.at = "startup" /\ \A f \in Frames : frames[f].order = -1
    BY DEF Init, At, UsedFrame
  <2> QED BY <2>1 DEF RegionsOK, Kept, Working
<1>2. BlockInv /\ RegionsOK /\ [Next]_vars => RegionsOK'
  BY RegionsStep
<1> QED BY <1>1, <1>2, Invariance, PTL DEF Spec

\* Two blocks that share a page are one.
LEMMA OneBlock ==
  ASSUME BlockInv, Working, NEW f, NEW g, NEW p \in Frames,
         Live(frames, InHand, f), Live(frames, InHand, g),
         f <= p, p < End(frames, f), g <= p, p < End(frames, g)
  PROVE  f = g
<1>1. frames \in FrameArray /\ Tiles(frames, InHand, FrameCount)
  BY DEF BlockInv, TypeOK, FrameArray, Divided, Working
<1>2. f \in Nat /\ g \in Nat /\ p \in Nat /\ End(frames, f) \in Nat /\ End(frames, g) \in Nat
  BY <1>1, LiveTypes, Constants
<1>3. ~(f < g) /\ ~(g < f)
  BY <1>1, <1>2 DEF Tiles
<1> QED BY <1>2, <1>3

\* Counting the blocks of a set that page p is in, if there is one at most.
Containing(B, p) == {b \in B : p \in PagesOf(b[1], b[2])}

\* There is one or none.
LEMMA CountBlocks ==
  ASSUME NEW B, NEW p, NEW x, p \in PagesOf(x[1], x[2]),
         \A b \in B : p \in PagesOf(b[1], b[2]) => b = x
  PROVE  Cardinality(Containing(B, p)) = IF x \in B THEN 1 ELSE 0
<1>1. CASE x \in B
  <2>1. Containing(B, p) = {x}
    BY <1>1 DEF Containing
  <2> QED BY <1>1, <2>1, FS_Singleton
<1>2. CASE x \notin B
  <2>1. Containing(B, p) = {}
    BY <1>2 DEF Containing
  <2> QED BY <1>2, <2>1, FS_EmptySet
<1> QED BY <1>1, <1>2

\* The blocks that Owners counts are live.
LEMMA CountedLive ==
  ASSUME BlockInv, Working
  PROVE  /\ \A b \in FreeBlocks : Live(frames, InHand, b[1]) /\ b = <<b[1], frames[b[1]].order>>
         /\ \A b \in HeldBlocks : Live(frames, InHand, b[1]) /\ b = <<b[1], frames[b[1]].order>>
         /\ \A b \in ChunkBlocks : Live(frames, InHand, b[1]) /\ b = <<b[1], frames[b[1]].order>>
         /\ \A b \in LoopBlocks : Live(frames, InHand, b[1]) /\ b = <<b[1], frames[b[1]].order>>
<1>1. ASSUME NEW b \in FreeBlocks
      PROVE  Live(frames, InHand, b[1]) /\ b = <<b[1], frames[b[1]].order>>
  <2>1. PICK f \in Frames, o \in Orders : b = <<f, o>> /\ frames[f].listed /\ frames[f].order = o
    BY <1>1 DEF FreeBlocks
  <2> QED BY <2>1, Constants DEF Live
<1>2. ASSUME NEW b \in HeldBlocks
      PROVE  Live(frames, InHand, b[1]) /\ b = <<b[1], frames[b[1]].order>>
  <2>1. PICK h \in held : b = <<h.page, frames[h.page].order>>
    BY <1>2 DEF HeldBlocks
  <2> QED BY <2>1, HeldTypes, Constants DEF Live
<1>3. ASSUME NEW b \in ChunkBlocks
      PROVE  Live(frames, InHand, b[1]) /\ b = <<b[1], frames[b[1]].order>>
  <2>1. PICK f \in Frames : b = <<f, 0>> /\ frames[f].pool # NoPool
    BY <1>3 DEF ChunkBlocks
  <2>2. frames[f].used /\ frames[f].order = 0
    BY <2>1 DEF BlockInv, Metadata
  <2> QED BY <2>1, <2>2 DEF Live
<1>4. ASSUME NEW b \in LoopBlocks
      PROVE  Live(frames, InHand, b[1]) /\ b = <<b[1], frames[b[1]].order>>
  <2>1. Looping /\ b = <<call.idx, call.order>>
    BY <1>4 DEF LoopBlocks, Looping
  <2>2. call.idx \in Frames /\ frames[call.idx].order = call.order /\ call.idx \in InHand
    BY <2>1 DEF BlockInv, LoopOK, InHand
  <2>3. call.order # -1
    BY Constants DEF BlockInv, TypeOK, Call
  <2> QED BY <2>1, <2>2, <2>3 DEF Live
<1> QED BY <1>1, <1>2, <1>3, <1>4

\* The block a page is in has one owner.
LEMMA OneOwner ==
  ASSUME BlockInv, RegionsOK, Working, NEW p \in Frames
  PROVE  Owners(p) = 1
<1>1. frames \in FrameArray /\ Tiles(frames, InHand, FrameCount)
  BY DEF BlockInv, TypeOK, FrameArray, Divided, Working
<1>2. p \in Nat /\ p < FrameCount
  BY Constants DEF Frames
<1>3. PICK g : Live(frames, InHand, g) /\ g <= p /\ p < End(frames, g)
  BY <1>1, <1>2 DEF Tiles
<1>4. /\ g \in Frames /\ g \in Nat /\ frames[g].order \in Orders /\ Size[frames[g].order] \in Nat
  BY <1>1, <1>3, LiveTypes
<1> DEFINE x == <<g, frames[g].order>>
<1>5. x[1] = g /\ x[2] = frames[g].order
  OBVIOUS
<1>6. p \in PagesOf(x[1], x[2])
  BY <1>2, <1>3, <1>4 DEF PagesOf, End
<1>7. ASSUME NEW b, Live(frames, InHand, b[1]), b = <<b[1], frames[b[1]].order>>,
             p \in PagesOf(b[1], b[2])
      PROVE  b = x
  <2>1. frames[b[1]].order = b[2]
    BY <1>7
  <2>2. b[1] \in Nat /\ Size[b[2]] \in Nat
    BY <1>1, <1>7, <2>1, LiveTypes
  <2>3. b[1] <= p /\ p < End(frames, b[1])
    BY <1>2, <1>7, <2>1, <2>2 DEF PagesOf, End
  <2>4. b[1] = g
    BY <1>3, <1>7, <2>3, OneBlock
  <2> QED BY <1>7, <2>4
<1> HIDE DEF x
<1> DEFINE C(B) == Cardinality(Containing(B, p))
<1>8. /\ C(FreeBlocks) = (IF x \in FreeBlocks THEN 1 ELSE 0)
      /\ C(HeldBlocks) = (IF x \in HeldBlocks THEN 1 ELSE 0)
      /\ C(ChunkBlocks) = (IF x \in ChunkBlocks THEN 1 ELSE 0)
      /\ C(LoopBlocks) = (IF x \in LoopBlocks THEN 1 ELSE 0)
  <2>1. \A b \in FreeBlocks : p \in PagesOf(b[1], b[2]) => b = x
    BY <1>7, CountedLive
  <2>2. \A b \in HeldBlocks : p \in PagesOf(b[1], b[2]) => b = x
    BY <1>7, CountedLive
  <2>3. \A b \in ChunkBlocks : p \in PagesOf(b[1], b[2]) => b = x
    BY <1>7, CountedLive
  <2>4. \A b \in LoopBlocks : p \in PagesOf(b[1], b[2]) => b = x
    BY <1>7, CountedLive
  <2>5. C(FreeBlocks) = (IF x \in FreeBlocks THEN 1 ELSE 0)
    BY <1>6, <2>1, CountBlocks
  <2>6. C(HeldBlocks) = (IF x \in HeldBlocks THEN 1 ELSE 0)
    BY <1>6, <2>2, CountBlocks
  <2>7. C(ChunkBlocks) = (IF x \in ChunkBlocks THEN 1 ELSE 0)
    BY <1>6, <2>3, CountBlocks
  <2>8. C(LoopBlocks) = (IF x \in LoopBlocks THEN 1 ELSE 0)
    BY <1>6, <2>4, CountBlocks
  <2> HIDE DEF C
  <2> QED BY <2>5, <2>6, <2>7, <2>8
<1>9. x \in FreeBlocks <=> frames[g].listed
  BY <1>4, <1>5 DEF FreeBlocks, x
<1>10. x \in HeldBlocks <=> frames[g].pool = NoPool /\ Given(g)
  <2>1. ASSUME x \in HeldBlocks PROVE frames[g].pool = NoPool /\ Given(g)
    <3>1. PICK h \in held : frames[h.page].pool = NoPool /\ x = <<h.page, frames[h.page].order>>
      BY <2>1 DEF HeldBlocks
    <3>2. h.page = g
      BY <1>5, <3>1
    <3> QED BY <3>1, <3>2 DEF Given
  <2>2. ASSUME frames[g].pool = NoPool, Given(g) PROVE x \in HeldBlocks
    BY <2>2 DEF Given, HeldBlocks, x
  <2> QED BY <2>1, <2>2
<1>11. x \in ChunkBlocks <=> frames[g].pool # NoPool
  <2>1. ASSUME x \in ChunkBlocks PROVE frames[g].pool # NoPool
    <3>1. PICK f \in Frames : frames[f].pool # NoPool /\ x = <<f, 0>>
      BY <2>1 DEF ChunkBlocks
    <3> QED BY <1>5, <3>1
  <2>2. ASSUME frames[g].pool # NoPool PROVE x \in ChunkBlocks
    <3>1. frames[g].order = 0
      BY <1>4, <2>2 DEF BlockInv, Metadata
    <3> QED BY <1>4, <2>2, <3>1 DEF ChunkBlocks, x
  <2> QED BY <2>1, <2>2
<1>12. x \in LoopBlocks <=> g \in InHand
  <2>1. Looping => frames[call.idx].order = call.order
    BY DEF BlockInv, LoopOK
  <2>2. CASE Looping
    <3>1. LoopBlocks = {<<call.idx, call.order>>} /\ InHand = {call.idx}
      BY <2>2 DEF LoopBlocks, Looping, InHand
    <3> QED BY <1>5, <2>1, <2>2, <3>1 DEF x
  <2>3. CASE ~Looping
    BY <2>3 DEF LoopBlocks, Looping, InHand
  <2> QED BY <2>2, <2>3
<1>13. Reserved(p) <=> Kept(g)
  <2>1. Kept(g) => Reserved(p)
    BY <1>3, <1>4 DEF RegionsOK, AllReserved
  <2>2. ASSUME ~Kept(g), Reserved(p) PROVE FALSE
    <3>1. PICK k \in 1 .. Len(early) : Overlaps(p, p + 1, early[k])
      BY <2>2 DEF Reserved
    <3>2. ~Overlaps(g, End(frames, g), early[k])
      BY <1>3, <1>4, <2>2 DEF RegionsOK, Clear
    <3>3. early[k] \in Region /\ g \in Int /\ End(frames, g) \in Int /\ p \in Int /\ p + 1 \in Int
          /\ p + 1 <= End(frames, g)
      BY <1>2, <1>3, <1>4, EarlyTypes DEF End
    <3> QED BY <1>3, <3>1, <3>2, <3>3, OverlapPart
  <2> QED BY <2>1, <2>2
<1>14. /\ frames[g].listed => ~frames[g].used /\ g \notin InHand /\ ~Given(g)
       /\ g \in InHand => ~frames[g].used
       /\ frames[g].pool # NoPool => frames[g].used
       /\ Given(g) => frames[g].used
       /\ frames[g].order # -1 /\ (frames[g].listed \/ frames[g].used \/ g \in InHand)
  <2>1. Given(g) => frames[g].used
    BY HeldTypes DEF Given
  <2>2. frames[g].listed => ~frames[g].used
    BY <1>4 DEF BlockInv, Metadata
  <2>3. g \in InHand => ~frames[g].used /\ ~frames[g].listed
    BY DEF InHand, BlockInv, LoopOK
  <2>4. frames[g].pool # NoPool => frames[g].used
    BY <1>4 DEF BlockInv, Metadata
  <2> QED BY <1>3, <2>1, <2>2, <2>3, <2>4 DEF Live
<1>15. C(FreeBlocks) + C(HeldBlocks) + C(ChunkBlocks) + C(LoopBlocks)
         + (IF Reserved(p) THEN 1 ELSE 0) = 1
  <2> HIDE DEF C
  <2>1. CASE frames[g].listed
    BY <1>8, <1>9, <1>10, <1>11, <1>12, <1>13, <1>14, <2>1 DEF Kept
  <2>2. CASE g \in InHand
    BY <1>8, <1>9, <1>10, <1>11, <1>12, <1>13, <1>14, <2>2 DEF Kept
  <2>3. CASE frames[g].used
    BY <1>8, <1>9, <1>10, <1>11, <1>12, <1>13, <1>14, <2>3 DEF Kept
  <2> QED BY <1>14, <2>1, <2>2, <2>3
<1> QED BY <1>15 DEF Owners, Containing

\* Once mm_init is over every page frame is in exactly one block, or reserved.
THEOREM PagesAlwaysOwned == Spec => []PagesOwned
<1>1. BlockInv /\ RegionsOK => PagesOwned
  BY OneOwner DEF PagesOwned, Working
<1> QED BY Invariance, RegionsAlways, <1>1, PTL

(***************************************************************************)
(* Chunks.                                                                 *)
(***************************************************************************)
Place(h) == [page |-> h.page, off |-> h.off]

\* Every chunk is on the list of its pool or held, and nowhere twice.
ChunksOK ==
  /\ \A p \in Pools : Distinct(chunks[p])
  /\ \A p \in Pools : \A n \in 1 .. Len(chunks[p]) : chunks[p][n].off \in Offsets(p)
  /\ \A h \in held : frames[h.page].pool # NoPool =>
       /\ h.off \in Offsets(frames[h.page].pool)
       /\ ~On(chunks[frames[h.page].pool], Place(h))
  /\ \A g, h \in held : frames[h.page].pool # NoPool /\ Place(g) = Place(h) => g = h
  /\ \A f \in Frames : frames[f].pool # NoPool =>
       \A x \in Offsets(frames[f].pool) :
         \/ On(chunks[frames[f].pool], [page |-> f, off |-> x])
         \/ \E h \in held : h.page = f /\ h.off = x

\* Steps that leave chunks alone.
LEMMA ChunksKept ==
  ASSUME BlockInv, BlockInv', ChunksOK, chunks' = chunks,
         \A f \in Frames : frames'[f].pool = frames[f].pool,
         \A h \in held' : frames[h.page].pool # NoPool => h \in held,
         \A h \in held : frames[h.page].pool # NoPool => h \in held'
  PROVE  ChunksOK'
<1>1. \A h \in held' : h.page \in Frames
  BY DEF BlockInv, TypeOK, Pointer
<1>2. \A h \in held' : frames'[h.page].pool = frames[h.page].pool
  BY <1>1
<1>3. \A h \in held' : frames'[h.page].pool # NoPool =>
        /\ h.off \in Offsets(frames'[h.page].pool)
        /\ ~On(chunks'[frames'[h.page].pool], Place(h))
  BY <1>2 DEF ChunksOK
<1>4. ASSUME NEW g \in held', NEW h \in held', frames'[h.page].pool # NoPool, Place(g) = Place(h)
      PROVE  g = h
  <2>1. g.page = h.page
    BY <1>4 DEF Place
  <2>2. frames[h.page].pool # NoPool /\ g \in held /\ h \in held
    BY <1>2, <1>4, <2>1
  <2> QED BY <1>4, <2>2 DEF ChunksOK
<1>5. ASSUME NEW f \in Frames, frames'[f].pool # NoPool, NEW x \in Offsets(frames'[f].pool)
      PROVE  \/ On(chunks'[frames'[f].pool], [page |-> f, off |-> x])
             \/ \E h \in held' : h.page = f /\ h.off = x
  <2>1. frames'[f].pool = frames[f].pool /\ frames[f].pool # NoPool
    BY <1>5
  <2>2. \/ On(chunks[frames[f].pool], [page |-> f, off |-> x])
        \/ \E h \in held : h.page = f /\ h.off = x
    BY <1>5, <2>1 DEF ChunksOK
  <2> QED BY <2>1, <2>2
<1>6. \A p \in Pools : Distinct(chunks'[p])
  BY DEF ChunksOK
<1>7. \A p \in Pools : \A n \in 1 .. Len(chunks'[p]) : chunks'[p][n].off \in Offsets(p)
  BY DEF ChunksOK
<1> QED BY <1>3, <1>4, <1>5, <1>6, <1>7 DEF ChunksOK, Place

\* An entry is what its page and offset say.
LEMMA ListedChunk ==
  ASSUME BlockInv, NEW p \in Pools, NEW c, On(chunks[p], c)
  PROVE  c \in Chunk /\ c = Place(c) /\ frames[c.page].pool = p /\ c.page \in Frames
<1>1. PICK n \in 1 .. Len(chunks[p]) : chunks[p][n] = c
  BY DEF On
<1>2. c \in Chunk /\ c.page \in Frames
  BY <1>1, ChunkTypes
<1>3. frames[c.page].pool = p
  BY <1>1 DEF BlockInv, PoolsOK
<1>4. c = [page |-> c.page, off |-> c.off]
  BY <1>2 DEF Chunk
<1> QED BY <1>2, <1>3, <1>4 DEF Place

\* alloc_chunk moves the head of a list to the caller.
LEMMA ChunksPop ==
  ASSUME BlockInv, BlockInv', ChunksOK, NEW z \in Nat, NEW p \in Pools, PopsChunk(z, p)
  PROVE  ChunksOK'
<1> DEFINE c == Head(chunks[p])
           new == [page |-> c.page, off |-> c.off, size |-> z]
<1>1. /\ chunks[p] \in Seq(Chunk) /\ c \in Chunk /\ chunks[p] # <<>> /\ Distinct(chunks[p])
      /\ frames[c.page].pool = p /\ 1 \in 1 .. Len(chunks[p]) /\ c = chunks[p][1]
  BY HeadChunk DEF PopsChunk, ChunksOK
<1>2. /\ Distinct(Tail(chunks[p]))
      /\ \A x : On(Tail(chunks[p]), x) <=> x # c /\ On(chunks[p], x)
      /\ \A n \in 1 .. Len(Tail(chunks[p])) :
           n + 1 \in 1 .. Len(chunks[p]) /\ Tail(chunks[p])[n] = chunks[p][n + 1]
  BY <1>1, TailFacts
<1>3. /\ UNCHANGED frames /\ held' = held \cup {new}
      /\ chunks' = [chunks EXCEPT ![p] = Tail(chunks[p])]
  BY DEF PopsChunk, ChunkStep
<1>4. new.page = c.page /\ new.off = c.off /\ Place(new) = Place(c)
  BY DEF Place
<1>5. On(chunks[p], c) /\ c.off \in Offsets(p) /\ p # NoPool
  BY <1>1, PoolSizeFacts DEF On, ChunksOK
<1>6. c = Place(c) /\ c.page \in Frames
  BY <1>5, ListedChunk
<1> HIDE DEF c, new
<1>7. chunks \in [Pools -> Seq(Chunk)]
  BY DEF BlockInv, TypeOK, Chunk
<1>8. chunks'[p] = Tail(chunks[p]) /\ \A r \in Pools : r # p => chunks'[r] = chunks[r]
  BY <1>3, <1>7
<1>9. \A r \in Pools : \A x : On(chunks'[r], x) <=> On(chunks[r], x) /\ ~(r = p /\ x = c)
  BY <1>2, <1>8
<1>10. \A r \in Pools : Distinct(chunks'[r])
  BY <1>2, <1>8 DEF ChunksOK
<1>11. ASSUME NEW r \in Pools, NEW n \in 1 .. Len(chunks'[r])
       PROVE  chunks'[r][n].off \in Offsets(r)
  <2>1. CASE r = p
    <3>1. n + 1 \in 1 .. Len(chunks[p]) /\ chunks'[r][n] = chunks[p][n + 1]
      BY <1>2, <1>8, <2>1
    <3> QED BY <2>1, <3>1 DEF ChunksOK
  <2>2. CASE r # p
    BY <1>8, <2>2 DEF ChunksOK
  <2> QED BY <2>1, <2>2
<1>12. ASSUME NEW h \in held', frames[h.page].pool # NoPool
       PROVE  /\ h.off \in Offsets(frames[h.page].pool)
              /\ ~On(chunks'[frames[h.page].pool], Place(h))
  <2>1. CASE h = new
    BY <1>1, <1>4, <1>5, <1>6, <1>9, <2>1
  <2>2. CASE h \in held
    <3>1. frames[h.page].pool \in Pools
      BY <1>12, <2>2, HeldTypes
    <3> QED BY <1>9, <1>12, <2>2, <3>1 DEF ChunksOK
  <2> QED BY <1>3, <2>1, <2>2
<1>13. ASSUME NEW h \in held, Place(h) = Place(new) PROVE FALSE
  <2>1. h.page = c.page /\ Place(h) = c
    BY <1>4, <1>6, <1>13 DEF Place
  <2> QED BY <1>1, <1>5, <1>13, <2>1 DEF ChunksOK
<1>14. ASSUME NEW g \in held', NEW h \in held', frames[h.page].pool # NoPool, Place(g) = Place(h)
       PROVE  g = h
  <2>1. CASE g = new \/ h = new
    BY <1>3, <1>13, <1>14, <2>1
  <2>2. CASE g \in held /\ h \in held
    BY <1>14, <2>2 DEF ChunksOK
  <2> QED BY <1>3, <2>1, <2>2
<1>15. ASSUME NEW f \in Frames, frames[f].pool # NoPool, NEW x \in Offsets(frames[f].pool)
       PROVE  \/ On(chunks'[frames[f].pool], [page |-> f, off |-> x])
              \/ \E h \in held' : h.page = f /\ h.off = x
  <2> DEFINE d == [page |-> f, off |-> x]
  <2>1. frames[f].pool \in Pools
    BY <1>15 DEF BlockInv, TypeOK, Frame
  <2>2. On(chunks[frames[f].pool], d) \/ \E h \in held : h.page = f /\ h.off = x
    BY <1>15 DEF ChunksOK
  <2>3. d.page = f /\ d.off = x
    OBVIOUS
  <2>4. ASSUME d = c PROVE new.page = f /\ new.off = x
    BY <1>4, <2>3, <2>4
  <2> HIDE DEF d
  <2>5. CASE d = c
    BY <1>3, <2>4, <2>5
  <2>6. CASE d # c
    BY <1>3, <1>9, <2>1, <2>2, <2>6 DEF d
  <2> QED BY <2>5, <2>6 DEF d
<1> QED BY <1>3, <1>10, <1>11, <1>12, <1>14, <1>15 DEF ChunksOK, Place

\* free puts the chunk of the caller on the list.
LEMMA ChunksPush ==
  ASSUME BlockInv, BlockInv', ChunksOK, NEW h \in held, NEW p \in Pools, PushesChunk(h, p)
  PROVE  ChunksOK'
<1> DEFINE c == Place(h)
           u == <<c>> \o chunks[p]
<1>1. /\ c \in Chunk /\ c.page = h.page /\ c.off = h.off /\ chunks \in [Pools -> Seq(Chunk)]
      /\ h.page \in Frames
  BY HeldTypes DEF Chunk, Place, BlockInv, TypeOK
<1>2. /\ UNCHANGED frames /\ frames[h.page].pool = p /\ p # NoPool /\ held' = held \ {h}
      /\ chunks' = [chunks EXCEPT ![p] = u]
  BY PoolSizeFacts DEF PushesChunk, ChunkStep, Place
<1>3. c.off \in Offsets(p) /\ ~On(chunks[p], c) /\ Distinct(chunks[p])
  BY <1>1, <1>2 DEF ChunksOK
<1>4. chunks[p] \in Seq(Chunk)
  BY <1>1
<1> HIDE DEF c
<1>5. u \in Seq(Chunk) /\ Distinct(u) /\ \A x : On(u, x) <=> x = c \/ On(chunks[p], x)
  BY <1>1, <1>3, <1>4, AddHead
<1> HIDE DEF u
<1>6. chunks'[p] = u /\ \A r \in Pools : r # p => chunks'[r] = chunks[r]
  BY <1>1, <1>2
<1>7. \A r \in Pools : \A x : On(chunks'[r], x) <=> On(chunks[r], x) \/ (r = p /\ x = c)
  BY <1>5, <1>6
<1>8. \A r \in Pools : Distinct(chunks'[r])
  BY <1>5, <1>6 DEF ChunksOK
<1>9. ASSUME NEW r \in Pools, NEW n \in 1 .. Len(chunks'[r])
      PROVE  chunks'[r][n].off \in Offsets(r)
  <2> DEFINE e == chunks'[r][n]
  <2>1. On(chunks'[r], e)
    BY DEF On
  <2> HIDE DEF e
  <2>2. CASE r = p /\ e = c
    BY <1>3, <2>2 DEF e
  <2>3. CASE On(chunks[r], e)
    <3>1. PICK m \in 1 .. Len(chunks[r]) : chunks[r][m] = e
      BY <2>3 DEF On
    <3> QED BY <3>1 DEF ChunksOK, e
  <2> QED BY <1>7, <2>1, <2>2, <2>3
<1>10. ASSUME NEW g \in held', frames[g.page].pool # NoPool
       PROVE  /\ g.off \in Offsets(frames[g.page].pool)
              /\ ~On(chunks'[frames[g.page].pool], Place(g))
  <2>1. g \in held /\ g # h
    BY <1>2
  <2>2. Place(g) # c
    BY <1>2, <2>1 DEF ChunksOK, c
  <2>3. frames[g.page].pool \in Pools
    BY <1>10, <2>1, HeldTypes
  <2> QED BY <1>7, <1>10, <2>1, <2>2, <2>3 DEF ChunksOK
<1>11. \A g, k \in held' : frames[k.page].pool # NoPool /\ Place(g) = Place(k) => g = k
  BY <1>2 DEF ChunksOK
<1>12. ASSUME NEW f \in Frames, frames[f].pool # NoPool, NEW x \in Offsets(frames[f].pool)
       PROVE  \/ On(chunks'[frames[f].pool], [page |-> f, off |-> x])
              \/ \E g \in held' : g.page = f /\ g.off = x
  <2>1. frames[f].pool \in Pools
    BY <1>12 DEF BlockInv, TypeOK, Frame
  <2>2. \/ On(chunks[frames[f].pool], [page |-> f, off |-> x])
        \/ \E g \in held : g.page = f /\ g.off = x
    BY <1>12 DEF ChunksOK
  <2>3. CASE On(chunks[frames[f].pool], [page |-> f, off |-> x])
    BY <1>7, <2>1, <2>3
  <2>4. CASE \E g \in held : g.page = f /\ g.off = x
    <3>1. PICK g \in held : g.page = f /\ g.off = x
      BY <2>4
    <3>2. CASE g = h
      <4>1. [page |-> f, off |-> x] = c /\ frames[f].pool = p
        BY <1>2, <3>1, <3>2 DEF c, Place
      <4> QED BY <1>7, <4>1
    <3>3. CASE g # h
      BY <1>2, <3>1, <3>3
    <3> QED BY <3>2, <3>3
  <2> QED BY <2>2, <2>3, <2>4
<1> QED BY <1>2, <1>8, <1>9, <1>10, <1>11, <1>12 DEF ChunksOK, Place

\* A page that becomes chunks: all of them are new.
LEMMA ChunksRefill ==
  ASSUME BlockInv, BlockInv', ChunksOK, AllocDone, call.pool # NoPool
  PROVE  ChunksOK'
<1> DEFINE i == call.idx
           p == call.pool
<1>1. PICK x \in 0 .. PageSize - 1 : DoneEffect(i, p, x)
  BY DoneEffects
<1>2. call.at = "split" /\ i = call.idx
  BY DEF AllocDone
<1>3. /\ i \in Frames /\ p \in Pools /\ chunks[p] = <<>> /\ ~frames[i].used
      /\ chunks \in [Pools -> Seq(Chunk)]
  BY <1>2 DEF BlockInv, TypeOK, Call, LoopOK, Looping, Chunk
<1> DEFINE new == [page |-> i, off |-> x, size |-> call.size]
<1>4. new.page = i /\ new.off = x
  OBVIOUS
<1>5. /\ frames'[i].pool = p /\ p # NoPool
      /\ \A f \in Frames : f # i => frames'[f] = frames[f]
      /\ held' = held \cup {new} /\ x = Head(PageChunks(i, p)).off
      /\ chunks' = [chunks EXCEPT ![p] = Refilled(i, p)]
  BY <1>1 DEF DoneEffect
<1> HIDE DEF i, p, new
<1> DEFINE u == Refilled(i, p)
<1>6. /\ Distinct(u) /\ u \in Seq(Chunk)
      /\ \A n \in 1 .. Len(u) : u[n].page = i /\ u[n].off \in Offsets(p)
      /\ x \in Offsets(p)
      /\ \A y \in Offsets(p) : On(u, [page |-> i, off |-> y]) <=> y # x
  BY <1>3, <1>5, RefilledFacts
<1> HIDE DEF u
<1>7. chunks'[p] = u /\ \A r \in Pools : r # p => chunks'[r] = chunks[r]
  BY <1>3, <1>5, <1>6 DEF u
<1>8. frames[i].pool = NoPool /\ \A h \in held : h.page # i /\ h.page \in Frames
  BY <1>3, HeldTypes DEF BlockInv, Metadata
<1>9. \A y : ~On(chunks[p], y)
  BY <1>3 DEF On
<1>10. \A r \in Pools : Distinct(chunks'[r])
  BY <1>6, <1>7 DEF ChunksOK
<1>11. \A r \in Pools : \A n \in 1 .. Len(chunks'[r]) : chunks'[r][n].off \in Offsets(r)
  BY <1>6, <1>7 DEF ChunksOK
<1>12. ASSUME NEW y, On(u, y) PROVE y.page = i
  BY <1>6, <1>12 DEF On
<1>13. ASSUME NEW h \in held', frames'[h.page].pool # NoPool
       PROVE  /\ h.off \in Offsets(frames'[h.page].pool)
              /\ ~On(chunks'[frames'[h.page].pool], Place(h))
  <2>1. CASE h = new
    <3>1. Place(h) = [page |-> i, off |-> x] /\ h.page = i /\ h.off = x
      BY <1>4, <2>1 DEF Place
    <3> QED BY <1>5, <1>6, <1>7, <3>1
  <2>2. CASE h \in held
    <3>1. frames'[h.page] = frames[h.page] /\ frames[h.page].pool \in Pools /\ h.page # i
      BY <1>5, <1>8, <1>13, <2>2, HeldTypes
    <3>2. h.off \in Offsets(frames[h.page].pool) /\ ~On(chunks[frames[h.page].pool], Place(h))
      BY <1>13, <2>2, <3>1 DEF ChunksOK
    <3>3. Place(h).page = h.page
      BY DEF Place
    <3>4. ~On(u, Place(h))
      BY <1>12, <3>1, <3>3
    <3> QED BY <1>7, <3>1, <3>2, <3>4
  <2> QED BY <1>5, <2>1, <2>2
<1>14. ASSUME NEW g \in held', NEW h \in held', frames'[h.page].pool # NoPool, Place(g) = Place(h)
       PROVE  g = h
  <2>1. g.page = h.page
    BY <1>14 DEF Place
  <2>2. CASE h.page = i
    BY <1>5, <1>8, <2>1, <2>2
  <2>3. CASE h.page # i
    <3>1. g \in held /\ h \in held
      BY <1>4, <1>5, <2>1, <2>3
    <3>2. frames'[h.page] = frames[h.page]
      BY <1>5, <1>8, <3>1
    <3> QED BY <1>14, <3>1, <3>2 DEF ChunksOK
  <2> QED BY <2>2, <2>3
<1>15. ASSUME NEW f \in Frames, frames'[f].pool # NoPool, NEW y \in Offsets(frames'[f].pool)
       PROVE  \/ On(chunks'[frames'[f].pool], [page |-> f, off |-> y])
              \/ \E h \in held' : h.page = f /\ h.off = y
  <2>1. CASE f = i
    <3>1. CASE y = x
      BY <1>4, <1>5, <2>1, <3>1
    <3>2. CASE y # x
      BY <1>5, <1>6, <1>7, <1>15, <2>1, <3>2
    <3> QED BY <3>1, <3>2
  <2>2. CASE f # i
    <3>1. frames'[f] = frames[f] /\ frames[f].pool \in Pools
      BY <1>5, <1>15, <2>2 DEF BlockInv, TypeOK, Frame
    <3>2. \/ On(chunks[frames[f].pool], [page |-> f, off |-> y])
          \/ \E h \in held : h.page = f /\ h.off = y
      BY <1>15, <3>1 DEF ChunksOK
    <3>3. \/ frames[f].pool # p /\ On(chunks[frames[f].pool], [page |-> f, off |-> y])
          \/ \E h \in held : h.page = f /\ h.off = y
      BY <1>9, <3>2
    <3> QED BY <1>5, <1>7, <3>1, <3>3
  <2> QED BY <2>1, <2>2
<1> QED BY <1>10, <1>11, <1>13, <1>14, <1>15 DEF ChunksOK, Place

\* mm_init gives out no chunks.
LEMMA ChunksBoot == ASSUME BlockInv, BlockInv', ChunksOK, Boot PROVE ChunksOK'
<1>1. Booting /\ held = {} /\ UNCHANGED <<chunks, held>>
  <2>1. Booting /\ UNCHANGED <<chunks, held>>
    BY DEF Boot, Startup, Halt, Halted, Fill, Reserve, Booting, vars
  <2> QED BY <2>1 DEF BlockInv, BootOK
<1>2. \A f \in Frames : frames[f].pool = NoPool
  BY <1>1 DEF BlockInv, BootOK
<1>3. CASE Booting'
  <2>1. \A f \in Frames : frames'[f].pool = NoPool
    BY <1>3 DEF BlockInv, BootOK
  <2> QED BY <1>1, <1>2, <2>1, ChunksKept
<1>4. CASE ~Booting'
  <2>1. UNCHANGED frames
    BY <1>1, <1>4 DEF Boot, Startup, Halt, Halted, Fill, Reserve, Booting, At, vars
  <2> QED BY <1>1, <2>1, ChunksKept
<1> QED BY <1>3, <1>4

\* The loops of alloc_pages and free_pages write no page of chunks.
LEMMA ChunksLoops ==
  ASSUME BlockInv, BlockInv', ChunksOK, Split \/ Merge \/ MergeDone
  PROVE  ChunksOK'
<1>1. CASE Split
  <2>1. PICK i, j, o : SplitEffect(i, j, o)
    BY <1>1, SplitEffects
  <2>2. o \in Orders /\ frames'[j] = FreeFrame(o) /\ frames[j].pool = NoPool
    BY <2>1 DEF SplitEffect
  <2>3. frames'[j].pool = frames[j].pool
    BY <2>2, FrameValues
  <2>4. \A f \in Frames : frames'[f].pool = frames[f].pool
    BY <2>1, <2>3 DEF SplitEffect
  <2> QED BY <2>1, <2>4, ChunksKept DEF SplitEffect
<1>2. CASE Merge
  <2>1. PICK i, b, lo, hi, o : MergeEffect(i, b, lo, hi, o)
    BY <1>2, MergeEffects
  <2>2. \A f \in Frames : frames'[f].pool = frames[f].pool
    BY <2>1 DEF MergeEffect
  <2> QED BY <2>1, <2>2, ChunksKept DEF MergeEffect
<1>3. CASE MergeDone
  <2>1. PICK i, o : ListsEffect(i, o)
    BY <1>3, ListsEffects
  <2>2. \A f \in Frames : frames'[f].pool = frames[f].pool
    BY <2>1 DEF ListsEffect
  <2> QED BY <2>1, <2>2, ChunksKept DEF ListsEffect
<1> QED BY <1>1, <1>2, <1>3

\* alloc_pages returns to its caller.
LEMMA ChunksGiven ==
  ASSUME BlockInv, BlockInv', ChunksOK, AllocDone, call.pool = NoPool
  PROVE  ChunksOK'
<1>1. PICK x \in 0 .. PageSize - 1 : DoneEffect(call.idx, call.pool, x)
  BY DoneEffects
<1> DEFINE i == call.idx
           new == [page |-> i, off |-> x, size |-> call.size]
<1>2. i \in Frames /\ frames[i].pool = NoPool
  BY DEF AllocDone, BlockInv, LoopOK, Looping, Metadata
<1>3. new.page = i
  OBVIOUS
<1>4. /\ frames'[i].pool = NoPool /\ (\A f \in Frames : f # i => frames'[f] = frames[f])
      /\ held' = held \cup {new} /\ chunks' = chunks
  BY <1>1 DEF DoneEffect
<1> HIDE DEF i, new
<1>5. \A f \in Frames : frames'[f].pool = frames[f].pool
  BY <1>2, <1>4
<1>6. \A h \in held' : frames[h.page].pool # NoPool => h \in held
  BY <1>2, <1>3, <1>4
<1> QED BY <1>4, <1>5, <1>6, ChunksKept

\* free of a block takes no chunk from anybody.
LEMMA ChunksFree ==
  ASSUME BlockInv, BlockInv', ChunksOK, NEW h \in held, FreesBlock(h)
  PROVE  ChunksOK'
<1>1. PICK i, o : FreesEffect(h, i, o)
  BY FreesEffects
<1>2. \A f \in Frames : frames'[f].pool = frames[f].pool
  BY <1>1 DEF FreesEffect
<1>3. frames[h.page].pool = NoPool /\ held' = held \ {h} /\ chunks' = chunks
  BY <1>1 DEF FreesEffect
<1> QED BY <1>2, <1>3, ChunksKept

\* Every step keeps the chunks.
LEMMA ChunksStep == BlockInv /\ ChunksOK /\ [Next]_vars => ChunksOK'
<1> SUFFICES ASSUME BlockInv, ChunksOK, [Next]_vars PROVE ChunksOK'
  OBVIOUS
<1>1. BlockInv'
  BY BlockStep
<1>2. CASE UNCHANGED vars
  BY <1>1, <1>2, ChunksKept DEF vars
<1>3. CASE Boot
  BY <1>1, <1>3, ChunksBoot
<1>4. CASE Allocate
  <2>1. CASE \E n \in Nat, o \in Orders, p \in Pools \cup {NoPool} :
              /\ n >= 1 /\ Fits(n, o, p) /\ (p # NoPool => o = 0 /\ chunks[p] = <<>>)
              /\ AllocPages(o, p, n)
    <3>1. PICK n \in Nat, o \in Orders, p \in Pools \cup {NoPool} : AllocPages(o, p, n)
      BY <2>1
    <3>2. UNCHANGED vars \/ \E i \in Frames, k \in Orders : TakeEffect(i, k, o, p, n)
      BY <3>1, TakeEffects
    <3>3. ASSUME NEW i \in Frames, NEW k \in Orders, TakeEffect(i, k, o, p, n) PROVE ChunksOK'
      <4>1. \A f \in Frames : frames'[f].pool = frames[f].pool
        BY <3>3 DEF TakeEffect
      <4> QED BY <1>1, <3>3, <4>1, ChunksKept DEF TakeEffect
    <3> QED BY <1>2, <3>2, <3>3
  <2>2. CASE \E n \in Nat, p \in Pools : PopsChunk(n, p)
    BY <1>1, <2>2, ChunksPop
  <2> QED BY <1>4, <2>1, <2>2, AllocateCases
<1>5. CASE Free
  BY <1>1, <1>5, FreeCases, ChunksPush, ChunksFree
<1>6. CASE AllocDone
  BY <1>1, <1>6, ChunksRefill, ChunksGiven
<1>7. CASE Split \/ Merge \/ MergeDone
  BY <1>1, <1>7, ChunksLoops
<1> QED BY <1>2, <1>3, <1>4, <1>5, <1>6, <1>7 DEF Next

\* Chunks are neither lost nor doubled.
LEMMA ChunksAlways == Spec => []ChunksOK
<1>1. Init => ChunksOK
  <2> SUFFICES ASSUME Init PROVE ChunksOK
    OBVIOUS
  <2>1. /\ held = {} /\ (\A p \in Pools : chunks[p] = <<>>)
        /\ \A f \in Frames : frames[f].pool = NoPool
    BY DEF Init, UsedFrame
  <2> QED BY <2>1 DEF ChunksOK, Distinct
<1>2. BlockInv /\ ChunksOK /\ [Next]_vars => ChunksOK'
  BY ChunksStep
<1> QED BY <1>1, <1>2, Invariance, PTL DEF Spec

\* Where a list has a chunk, and who holds the chunk of a page at an offset.
ListedAt(q, c) == {n \in 1 .. Len(q) : q[n] = c}
HoldersOf(f, x) == {h \in held : h.page = f /\ h.off = x}

\* There is one place in the list or one holder.
LEMMA OneChunk ==
  ASSUME BlockInv, ChunksOK, NEW f \in Frames, frames[f].pool # NoPool,
         NEW x \in Offsets(frames[f].pool), NEW c, c = [page |-> f, off |-> x]
  PROVE  Cardinality(ListedAt(chunks[frames[f].pool], c)) + Cardinality(HoldersOf(f, x)) = 1
<1> DEFINE p == frames[f].pool
           q == chunks[p]
<1>1. p \in Pools
  BY DEF BlockInv, TypeOK, Frame
<1>2. Distinct(q) /\ (On(q, c) \/ \E h \in held : h.page = f /\ h.off = x)
  BY <1>1 DEF ChunksOK
<1>3. \A h \in HoldersOf(f, x) : Place(h) = c /\ ~On(q, c)
  BY DEF HoldersOf, ChunksOK, Place
<1>4. CASE On(q, c)
  <2>1. PICK n \in 1 .. Len(q) : q[n] = c
    BY <1>4 DEF On
  <2>2. ListedAt(q, c) = {n}
    BY <1>2, <2>1 DEF ListedAt, Distinct
  <2>3. HoldersOf(f, x) = {}
    BY <1>3, <1>4
  <2>4. Cardinality(ListedAt(q, c)) = 1
    BY <2>2, FS_Singleton
  <2>5. Cardinality(HoldersOf(f, x)) = 0
    BY <2>3, FS_EmptySet
  <2> QED BY <2>4, <2>5
<1>5. CASE ~On(q, c)
  <2>1. PICK h \in held : h.page = f /\ h.off = x
    BY <1>2, <1>5
  <2>2. h \in HoldersOf(f, x) /\ Place(h) = c
    BY <2>1 DEF HoldersOf, Place
  <2>3. \A g \in HoldersOf(f, x) : g = h
    BY <1>3, <2>1, <2>2 DEF ChunksOK, HoldersOf
  <2>4. HoldersOf(f, x) = {h}
    BY <2>2, <2>3
  <2>5. ListedAt(q, c) = {}
    BY <1>5 DEF ListedAt, On
  <2>6. Cardinality(ListedAt(q, c)) = 0
    BY <2>5, FS_EmptySet
  <2>7. Cardinality(HoldersOf(f, x)) = 1
    BY <2>4, FS_Singleton
  <2> QED BY <2>6, <2>7
<1> QED BY <1>4, <1>5

\* Every chunk of a page of a pool, refill_chunk_pool's k-th, is on the list of that
\* pool or in the hands of one caller, once, whatever the pools and requests are.
THEOREM ChunksAlwaysOnce == Spec => []ChunksOnce
<1>1. ASSUME BlockInv, ChunksOK, NEW f \in Frames, frames[f].pool # NoPool,
             NEW k \in 1 .. PageSize \div PoolSizes[frames[f].pool]
      PROVE  LET c == [page |-> f, off |-> (k - 1) * PoolSizes[frames[f].pool]]
                 list == chunks[frames[f].pool]
             IN  Cardinality({n \in 1 .. Len(list) : list[n] = c})
                   + Cardinality({h \in held : h.page = f /\ h.off = c.off}) = 1
  <2> DEFINE x == (k - 1) * PoolSizes[frames[f].pool]
             c == [page |-> f, off |-> x]
  <2>1. x \in Offsets(frames[f].pool) /\ c.off = x
    BY DEF Offsets
  <2> HIDE DEF x
  <2>2. Cardinality(ListedAt(chunks[frames[f].pool], c)) + Cardinality(HoldersOf(f, x)) = 1
    BY <1>1, <2>1, OneChunk
  <2>3. Cardinality(ListedAt(chunks[frames[f].pool], c)) + Cardinality(HoldersOf(f, c.off)) = 1
    BY <2>1, <2>2
  <2> QED BY <2>3 DEF ListedAt, HoldersOf, x
<1>2. BlockInv /\ ChunksOK => ChunksOnce
  BY <1>1 DEF ChunksOnce
<1> QED BY Invariance, ChunksAlways, <1>2, PTL

(***************************************************************************)
(* The refinement of Heap.                                                 *)
(***************************************************************************)
RegionBytes(k) == [start |-> early[k].from, end |-> early[k].from + early[k].size]

\* What callers hold lies in memory, is large enough, apart, and off the regions.
AllApart ==
  /\ \A h \in held :
       /\ Extent(h).start \in Nat /\ Extent(h).end \in Nat /\ Extent(h).start < Extent(h).end
       /\ Extent(h).end <= FrameCount * PageSize
       /\ Extent(h).size <= Extent(h).end - Extent(h).start
  /\ \A g, h \in held : g # h => Promised!Apart(Extent(g), Extent(h))
  /\ \A h \in held, k \in 1 .. Len(early) : Promised!Apart(Extent(h), RegionBytes(k))

\* Bytes of pages in order are in order.
LEMMA PageOrder ==
  ASSUME NEW a \in Int, NEW b \in Int, a <= b
  PROVE  a * PageSize \in Int /\ b * PageSize \in Int /\ a * PageSize <= b * PageSize
<1>1. PageSize \in Nat /\ PageSize > 0
  BY Constants
<1> QED BY <1>1

\* Somebody holds a block or chunk only once mm_init is over.
LEMMA HeldLive ==
  ASSUME BlockInv, NEW h \in held
  PROVE  /\ Working /\ Live(frames, InHand, h.page) /\ h.page \in Nat
         /\ End(frames, h.page) \in Nat /\ End(frames, h.page) <= FrameCount
         /\ Tiles(frames, InHand, FrameCount)
<1>1. Working
  BY DEF BlockInv, BootOK, Booting, Working, TypeOK, Call
<1>2. h.page \in Frames /\ frames[h.page].used /\ frames[h.page].order \in Orders
  BY HeldTypes
<1>3. frames[h.page].order # -1
  BY <1>2, Constants
<1>4. Live(frames, InHand, h.page)
  BY <1>2, <1>3 DEF Live
<1>5. frames \in FrameArray /\ Tiles(frames, InHand, FrameCount)
  BY <1>1 DEF BlockInv, TypeOK, FrameArray, Divided, Working
<1>6. h.page \in Nat /\ End(frames, h.page) \in Nat
  BY <1>4, <1>5, LiveTypes
<1> QED BY <1>1, <1>4, <1>5, <1>6 DEF Tiles

\* The bytes of a pointer lie within its block, and are as many as were asked for.
LEMMA ExtentFacts ==
  ASSUME BlockInv, ChunksOK, NEW h \in held
  PROVE  /\ Extent(h).start \in Nat /\ Extent(h).end \in Nat /\ Extent(h).start < Extent(h).end
         /\ h.page * PageSize \in Nat /\ End(frames, h.page) * PageSize \in Nat
         /\ h.page * PageSize <= Extent(h).start
         /\ Extent(h).end <= End(frames, h.page) * PageSize
         /\ Extent(h).size <= Extent(h).end - Extent(h).start
         /\ Extent(h).start = h.page * PageSize + h.off
         /\ frames[h.page].pool # NoPool =>
              Extent(h).end = h.page * PageSize + h.off + PoolSizes[frames[h.page].pool]
<1> DEFINE i == h.page
           o == frames[i].order
           p == frames[i].pool
           e == Extent(h)
<1>1. /\ i \in Nat /\ h.off \in Nat /\ h.size \in Nat /\ o \in Orders
      /\ p \in Pools \cup {NoPool} /\ i \in Frames
  BY HeldTypes, Constants
<1>2. PageSize \in Nat /\ PageSize > 0 /\ Size[o] \in Nat /\ Size[o] >= 1
  BY <1>1, Constants, SizePositive
<1>3. i * PageSize \in Nat /\ End(frames, i) * PageSize = i * PageSize + Size[o] * PageSize
      /\ Size[o] * PageSize \in Nat /\ Size[o] * PageSize >= PageSize
  BY <1>1, <1>2 DEF End
<1>4. Fits(h.size, o, p)
  BY DEF BlockInv, HeldOK
<1>5. CASE p = NoPool
  <2>1. h.off = 0
    BY <1>5 DEF BlockInv, HeldOK
  <2>2. e.start = i * PageSize + h.off /\ e.end = i * PageSize + h.off + Size[o] * PageSize
        /\ e.size = h.size
    BY <1>5 DEF Extent
  <2> HIDE DEF e
  <2>3. h.size <= Size[o] * PageSize
    BY <1>4, <1>5 DEF Fits
  <2> HIDE DEF i, o, p
  <2>4. e.start = i * PageSize /\ e.end = i * PageSize + Size[o] * PageSize
    BY <1>3, <2>1, <2>2
  <2> QED BY <1>1, <1>2, <1>3, <1>5, <2>1, <2>2, <2>3, <2>4 DEF e, i, o, p
<1>6. CASE p # NoPool
  <2>1. p \in Pools /\ h.off \in Offsets(p) /\ o = 0 /\ h.size <= PoolSizes[p]
    BY <1>1, <1>4, <1>6 DEF ChunksOK, Fits, BlockInv, Metadata
  <2>2. PICK k \in 1 .. PageSize \div PoolSizes[p] : h.off = (k - 1) * PoolSizes[p]
    BY <2>1 DEF Offsets
  <2>3. h.off + PoolSizes[p] <= PageSize /\ PoolSizes[p] \in Nat /\ PoolSizes[p] >= 1
    BY <2>1, <2>2, OffsetFacts, PoolSizeFacts
  <2>4. e.start = i * PageSize + h.off /\ e.end = i * PageSize + h.off + PoolSizes[p]
        /\ e.size = h.size
    BY <1>6 DEF Extent
  <2> HIDE DEF e, i, o, p
  <2> QED BY <1>1, <1>2, <1>3, <1>6, <2>1, <2>3, <2>4 DEF e, i, o, p
<1> QED BY <1>5, <1>6

\* Two pointers stand for different bytes.
LEMMA HeldApart ==
  ASSUME BlockInv, ChunksOK, NEW g \in held, NEW h \in held, g # h
  PROVE  Extent(g).end <= Extent(h).start \/ Extent(h).end <= Extent(g).start
<1>1. ASSUME NEW a \in held, NEW b \in held, a.page < b.page
      PROVE  Extent(a).end <= Extent(b).start
  <2>1. End(frames, a.page) <= b.page /\ b.page \in Nat /\ End(frames, a.page) \in Nat
    BY <1>1, HeldLive DEF Tiles
  <2>2. End(frames, a.page) * PageSize <= b.page * PageSize
    BY <2>1, PageOrder
  <2>3. /\ Extent(a).end <= End(frames, a.page) * PageSize /\ Extent(a).end \in Nat
        /\ b.page * PageSize <= Extent(b).start /\ Extent(b).start \in Nat
        /\ End(frames, a.page) * PageSize \in Nat /\ b.page * PageSize \in Nat
    BY ExtentFacts
  <2> QED BY <2>2, <2>3
<1>2. CASE g.page = h.page
  <2> DEFINE i == g.page
             p == frames[i].pool
             s == PoolSizes[p]
  <2>1. p # NoPool
    BY <1>2 DEF BlockInv, HeldOK
  <2>2. p \in Pools /\ g.off \in Offsets(p) /\ h.off \in Offsets(p) /\ i \in Nat
    BY <1>2, <2>1, HeldTypes DEF ChunksOK
  <2>3. Place(g) # Place(h)
    BY <1>2, <2>1 DEF ChunksOK
  <2>4. g.off # h.off
    BY <1>2, <2>3 DEF Place
  <2>5. PICK k \in 1 .. PageSize \div s : g.off = (k - 1) * s
    BY <2>2 DEF Offsets
  <2>6. PICK m \in 1 .. PageSize \div s : h.off = (m - 1) * s
    BY <2>2 DEF Offsets
  <2>7. /\ Extent(g).start = i * PageSize + g.off /\ Extent(g).end = i * PageSize + g.off + s
        /\ Extent(h).start = i * PageSize + h.off /\ Extent(h).end = i * PageSize + h.off + s
    BY <1>2, <2>1, ExtentFacts
  <2>8. /\ k < m => g.off + s <= h.off
        /\ m < k => h.off + s <= g.off
    BY <2>2, <2>5, <2>6, OffsetFacts
  <2>9. k < m \/ m < k
    <3>1. k # m
      BY <2>4, <2>5, <2>6
    <3>2. k \in Int /\ m \in Int
      OBVIOUS
    <3> QED BY <3>1, <3>2
  <2>10. i * PageSize \in Nat /\ g.off \in Nat /\ h.off \in Nat /\ s \in Nat
    BY <2>2, HeldTypes, ExtentFacts, PoolSizeFacts
  <2> HIDE DEF i, p, s
  <2> QED BY <2>7, <2>8, <2>9, <2>10
<1>3. CASE g.page # h.page
  <2>1. g.page \in Nat /\ h.page \in Nat
    BY HeldTypes
  <2> QED BY <1>1, <1>3, <2>1
<1> QED BY <1>2, <1>3

\* A pointer stands for no byte of a region.
LEMMA HeldOffRegions ==
  ASSUME BlockInv, RegionsOK, ChunksOK, NEW h \in held, NEW k \in 1 .. Len(early)
  PROVE  \/ Extent(h).end <= early[k].from
         \/ early[k].from + early[k].size <= Extent(h).start
<1> DEFINE r == early[k]
           i == h.page
<1>1. r \in Region
  <2>1. early \in Seq(Region)
    BY DEF BlockInv, TypeOK, Region
  <2> QED BY <2>1
<1>2. /\ FirstPage(r) \in Int /\ EndPage(r) \in Int /\ r.from \in Int /\ r.size \in Nat
      /\ PageSize * FirstPage(r) <= r.from /\ r.from + r.size <= PageSize * EndPage(r)
  BY <1>1, RegionPages DEF Region
<1>3. /\ Working /\ Live(frames, InHand, i) /\ i \in Nat /\ End(frames, i) \in Nat
      /\ i \in Frames
  BY HeldLive, HeldTypes
<1>4. ~Kept(i)
  BY DEF Kept, Given
<1>5. ~Overlaps(i, End(frames, i), r)
  BY <1>3, <1>4 DEF RegionsOK, Clear
<1>6. /\ Extent(h).start \in Nat /\ Extent(h).end \in Nat
      /\ i * PageSize \in Nat /\ End(frames, i) * PageSize \in Nat
      /\ i * PageSize <= Extent(h).start /\ Extent(h).end <= End(frames, i) * PageSize
  BY ExtentFacts
<1>7. EndPage(r) <= i \/ End(frames, i) <= FirstPage(r)
  BY <1>2, <1>3, <1>5 DEF Overlaps
<1>8. PageSize \in Nat
  BY Constants
<1> HIDE DEF r, i
<1>9. /\ PageSize * FirstPage(r) = FirstPage(r) * PageSize
      /\ PageSize * EndPage(r) = EndPage(r) * PageSize
  BY <1>2, <1>8
<1>10. CASE EndPage(r) <= i
  <2>1. EndPage(r) * PageSize <= i * PageSize /\ EndPage(r) * PageSize \in Int
    BY <1>2, <1>3, <1>10, PageOrder
  <2>2. r.from + r.size <= Extent(h).start
    BY <1>2, <1>6, <1>9, <2>1
  <2> QED BY <2>2 DEF r
<1>11. CASE End(frames, i) <= FirstPage(r)
  <2>1. End(frames, i) * PageSize <= FirstPage(r) * PageSize /\ FirstPage(r) * PageSize \in Int
    BY <1>2, <1>3, <1>11, PageOrder
  <2>2. Extent(h).end <= r.from
    BY <1>2, <1>6, <1>9, <2>1
  <2> QED BY <2>2 DEF r
<1> QED BY <1>7, <1>10, <1>11

\* Together.
LEMMA AllApartAlways == Spec => []AllApart
<1>1. ASSUME BlockInv, RegionsOK, ChunksOK PROVE AllApart
  <2>1. ASSUME NEW h \in held
        PROVE  /\ Extent(h).start \in Nat /\ Extent(h).end \in Nat
               /\ Extent(h).start < Extent(h).end
               /\ Extent(h).end <= FrameCount * PageSize
               /\ Extent(h).size <= Extent(h).end - Extent(h).start
    <3>1. End(frames, h.page) <= FrameCount /\ End(frames, h.page) \in Nat
      BY <1>1, HeldLive
    <3>2. /\ End(frames, h.page) * PageSize <= FrameCount * PageSize
          /\ FrameCount * PageSize \in Int
      BY <3>1, PageOrder, Constants
    <3>3. /\ Extent(h).start \in Nat /\ Extent(h).end \in Nat
          /\ Extent(h).start < Extent(h).end
          /\ Extent(h).end <= End(frames, h.page) * PageSize
          /\ End(frames, h.page) * PageSize \in Nat
          /\ Extent(h).size <= Extent(h).end - Extent(h).start
      BY <1>1, ExtentFacts
    <3> QED BY <3>2, <3>3
  <2>2. \A g, h \in held : g # h => Promised!Apart(Extent(g), Extent(h))
    BY <1>1, HeldApart DEF Promised!Apart
  <2>3. \A h \in held, k \in 1 .. Len(early) : Promised!Apart(Extent(h), RegionBytes(k))
    BY <1>1, HeldOffRegions DEF Promised!Apart, RegionBytes
  <2> QED BY <2>1, <2>2, <2>3 DEF AllApart
<1>2. BlockInv /\ RegionsOK /\ ChunksOK => AllApart
  BY <1>1
<1> QED BY <1>2, Invariance, RegionsAlways, ChunksAlways, PTL

\* The two variables of Heap.
GivenSet == {Extent(h) : h \in held}
ReservedSet ==
  {[start |-> early[i].from, end |-> early[i].from + early[i].size] : i \in 1 .. Len(early)}

HeapStep == [Promised!Next]_(Promised!vars)

\* Metadata that matters to the bytes of a pointer.
LEMMA ExtentKept ==
  ASSUME NEW h, frames'[h.page].pool = frames[h.page].pool,
         frames'[h.page].order = frames[h.page].order
  PROVE  Extent(h)' = Extent(h)
BY DEF Extent

\* Steps that give out nothing, take nothing back and leave what callers hold alone.
LEMMA HeapStutters ==
  ASSUME held' = held, early' = early,
         \A h \in held : frames'[h.page].pool = frames[h.page].pool
                           /\ frames'[h.page].order = frames[h.page].order
  PROVE  HeapStep
<1>1. \A h \in held : Extent(h)' = Extent(h)
  BY ExtentKept
<1>2. GivenSet' = GivenSet /\ ReservedSet' = ReservedSet
  BY <1>1 DEF GivenSet, ReservedSet
<1> QED BY <1>2 DEF HeapStep, Promised!vars, GivenSet, ReservedSet

\* Steps that give something out.
LEMMA HeapGives ==
  ASSUME AllApart', NEW new, held' = held \cup {new}, early' = early,
         \A h \in held : Extent(h)' = Extent(h)
  PROVE  HeapStep
<1> DEFINE x == Extent(new)'
<1>1. GivenSet' = GivenSet \cup {x}
  BY DEF GivenSet
<1>2. ReservedSet' = ReservedSet
  BY DEF ReservedSet
<1>3. CASE x \in GivenSet
  <2>1. GivenSet' = GivenSet
    BY <1>1, <1>3
  <2> QED BY <1>2, <2>1 DEF HeapStep, Promised!vars, GivenSet, ReservedSet
<1>4. CASE x \notin GivenSet
  <2>1. /\ 0 <= x.start /\ x.end <= FrameCount * PageSize /\ x.size <= x.end - x.start
    <3>1. new \in held'
      OBVIOUS
    <3> QED BY <3>1 DEF AllApart
  <2>2. ASSUME NEW y \in GivenSet PROVE Promised!Apart(x, y)
    <3>1. PICK h \in held : y = Extent(h)
      BY <2>2 DEF GivenSet
    <3>2. h # new /\ h \in held' /\ new \in held' /\ y = Extent(h)'
      BY <1>4, <3>1
    <3> QED BY <3>2 DEF AllApart
  <2>3. ASSUME NEW y \in ReservedSet PROVE Promised!Apart(x, y)
    <3>1. PICK k \in 1 .. Len(early) : y = RegionBytes(k)
      BY <2>3 DEF ReservedSet, RegionBytes
    <3>2. k \in 1 .. Len(early') /\ y = RegionBytes(k)' /\ new \in held'
      BY <3>1 DEF RegionBytes
    <3> QED BY <3>2 DEF AllApart
  <2> HIDE DEF x
  <2>4. x \in GivenSet' \ GivenSet
    BY <1>1, <1>4
  <2>5. \A y \in GivenSet \cup ReservedSet : Promised!Apart(x, y)
    BY <2>2, <2>3
  <2>6. Promised!Alloc
    BY <1>1, <1>2, <2>1, <2>4, <2>5 DEF Promised!Alloc, GivenSet, ReservedSet
  <2> QED BY <2>6 DEF HeapStep, Promised!Next
<1> QED BY <1>3, <1>4

\* Steps that take something back.
LEMMA HeapTakesBack ==
  ASSUME AllApart, NEW h \in held, held' = held \ {h}, early' = early,
         \A g \in held' : Extent(g)' = Extent(g)
  PROVE  HeapStep
<1> DEFINE x == Extent(h)
<1>1. ASSUME NEW g \in held, g # h PROVE Extent(g) # x
  <2>1. Promised!Apart(Extent(g), x)
    BY <1>1 DEF AllApart
  <2>2. x.start \in Nat /\ x.end \in Nat /\ x.start < x.end
    BY DEF AllApart
  <2> HIDE DEF x
  <2> QED BY <2>1, <2>2 DEF Promised!Apart
<1>2. GivenSet' = GivenSet \ {x} /\ x \in GivenSet
  BY <1>1 DEF GivenSet
<1>3. ReservedSet' = ReservedSet
  BY DEF ReservedSet
<1> HIDE DEF x
<1>4. Promised!Free
  BY <1>2, <1>3 DEF Promised!Free, GivenSet, ReservedSet
<1> QED BY <1>4 DEF HeapStep, Promised!Next

\* mm_init records regions and gives out nothing.
LEMMA HeapBoot == ASSUME BlockInv, Boot PROVE HeapStep
<1>1. held = {} /\ held' = held
  <2>1. Booting /\ held' = held
    BY DEF Boot, Startup, Halt, Halted, Fill, Reserve, Booting, vars
  <2> QED BY <2>1 DEF BlockInv, BootOK
<1>2. CASE early' = early
  BY <1>1, <1>2, HeapStutters
<1>3. CASE early' # early
  <2>1. Startup /\ call'.at # "startup"
    BY <1>3 DEF Boot, Startup, Halt, Halted, Fill, Reserve, At, vars
  <2>2. early \in Seq(Region) /\ early' = Append(early, ArrayRegion(call.idx))
    BY <2>1, StartupPlaces
  <2>3. \A k \in 1 .. Len(early) : k \in 1 .. Len(early') /\ early'[k] = early[k]
    BY <2>2
  <2>4. ReservedSet \subseteq ReservedSet'
    BY <2>3 DEF ReservedSet
  <2>5. GivenSet = {} /\ GivenSet' = {}
    BY <1>1 DEF GivenSet
  <2>6. Promised!Reserve
    BY <2>4, <2>5 DEF Promised!Reserve, GivenSet, ReservedSet
  <2> QED BY <2>6 DEF HeapStep, Promised!Next
<1> QED BY <1>2, <1>3

\* The loops of alloc_pages and free_pages write no block that somebody holds.
LEMMA HeapLoops == ASSUME BlockInv, Split \/ Merge \/ MergeDone PROVE HeapStep
<1>1. CASE Split
  <2>1. PICK i, j, o : SplitEffect(i, j, o)
    BY <1>1, SplitEffects
  <2>2. \A h \in held : h.page # i /\ h.page # j /\ h.page \in Frames
    BY <2>1, HeldTypes, HeldLive DEF SplitEffect
  <2> QED BY <2>1, <2>2, HeapStutters DEF SplitEffect
<1>2. CASE Merge
  <2>1. PICK i, b, lo, hi, o : MergeEffect(i, b, lo, hi, o)
    BY <1>2, MergeEffects
  <2>2. i \in InHand /\ ~frames[i].used
    BY <1>2, <2>1 DEF Merge, MergeEffect, InHand, Looping, BlockInv, LoopOK
  <2>3. \A h \in held : h.page # i /\ h.page # b /\ h.page \in Frames
    BY <2>1, <2>2, HeldTypes DEF MergeEffect
  <2> QED BY <2>1, <2>3, HeapStutters DEF MergeEffect
<1>3. CASE MergeDone
  <2>1. PICK i, o : ListsEffect(i, o)
    BY <1>3, ListsEffects
  <2>2. \A h \in held : h.page # i /\ h.page \in Frames
    BY <2>1, HeldTypes DEF ListsEffect
  <2> QED BY <2>1, <2>2, HeapStutters DEF ListsEffect
<1> QED BY <1>1, <1>2, <1>3

\* alloc_pages gives out a block nobody holds, or a chunk of it.
LEMMA HeapAllocates == ASSUME BlockInv, AllApart', AllocDone PROVE HeapStep
<1>1. PICK x \in 0 .. PageSize - 1 : DoneEffect(call.idx, call.pool, x)
  BY DoneEffects
<1>2. ~frames[call.idx].used /\ early' = early
  BY DEF AllocDone, BlockInv, LoopOK, Looping
<1>3. \A h \in held : h.page # call.idx /\ h.page \in Frames
  BY <1>2, HeldTypes
<1>4. \A h \in held : frames'[h.page] = frames[h.page]
  BY <1>1, <1>3 DEF DoneEffect
<1>5. \A h \in held : Extent(h)' = Extent(h)
  BY <1>4, ExtentKept
<1>6. held' = held \cup {[page |-> call.idx, off |-> x, size |-> call.size]}
  BY <1>1 DEF DoneEffect
<1> QED BY <1>2, <1>5, <1>6, HeapGives

\* free takes back what the caller holds.
LEMMA HeapFrees == ASSUME BlockInv, AllApart, Free PROVE HeapStep
<1>1. CASE \E h \in held, p \in Pools : PushesChunk(h, p)
  <2>1. PICK h \in held, p \in Pools : PushesChunk(h, p)
    BY <1>1
  <2>2. held' = held \ {h} /\ UNCHANGED <<frames, early>>
    BY <2>1 DEF PushesChunk, ChunkStep
  <2>3. \A g \in held' : Extent(g)' = Extent(g)
    BY <2>2, ExtentKept
  <2> QED BY <2>2, <2>3, HeapTakesBack
<1>2. CASE \E h \in held : FreesBlock(h)
  <2>1. PICK h \in held : FreesBlock(h)
    BY <1>2
  <2>2. FreesEffect(h, h.page, frames[h.page].order)
    BY <2>1, FreesEffects
  <2>3. held' = held \ {h} /\ early' = early /\ frames[h.page].pool = NoPool
    BY <2>2 DEF FreesEffect
  <2>4. \A g \in held' : g.page # h.page /\ g.page \in Frames
    BY <2>3, HeldTypes DEF BlockInv, HeldOK
  <2>5. \A g \in held' : frames'[g.page] = frames[g.page]
    BY <2>2, <2>4 DEF FreesEffect
  <2>6. \A g \in held' : Extent(g)' = Extent(g)
    BY <2>5, ExtentKept
  <2> QED BY <2>3, <2>6, HeapTakesBack
<1> QED BY <1>1, <1>2, FreeCases

\* Every step of mm.c is one of Heap, or none.
LEMMA HeapSimulated == BlockInv /\ AllApart /\ AllApart' /\ [Next]_vars => HeapStep
<1> SUFFICES ASSUME BlockInv, AllApart, AllApart', [Next]_vars PROVE HeapStep
  OBVIOUS
<1>1. CASE UNCHANGED vars
  BY <1>1, HeapStutters DEF vars
<1>2. CASE Allocate
  <2>1. CASE \E n \in Nat, o \in Orders, p \in Pools \cup {NoPool} :
              /\ n >= 1 /\ Fits(n, o, p) /\ (p # NoPool => o = 0 /\ chunks[p] = <<>>)
              /\ AllocPages(o, p, n)
    <3>1. PICK n \in Nat, o \in Orders, p \in Pools \cup {NoPool} : AllocPages(o, p, n)
      BY <2>1
    <3>2. UNCHANGED vars \/ \E i \in Frames, k \in Orders : TakeEffect(i, k, o, p, n)
      BY <3>1, TakeEffects
    <3>3. ASSUME NEW i \in Frames, NEW k \in Orders, TakeEffect(i, k, o, p, n) PROVE HeapStep
      <4>1. \A h \in held : h.page # i /\ h.page \in Frames
        BY <3>3, HeldTypes DEF TakeEffect
      <4> QED BY <3>3, <4>1, HeapStutters DEF TakeEffect
    <3> QED BY <1>1, <3>2, <3>3
  <2>2. CASE \E n \in Nat, p \in Pools : PopsChunk(n, p)
    <3>1. PICK n \in Nat, p \in Pools : PopsChunk(n, p)
      BY <2>2
    <3>2. /\ held' = held \cup {[page |-> Head(chunks[p]).page, off |-> Head(chunks[p]).off,
                                 size |-> n]}
          /\ UNCHANGED <<frames, early>>
      BY <3>1 DEF PopsChunk, ChunkStep
    <3>3. \A h \in held : Extent(h)' = Extent(h)
      BY <3>2, ExtentKept
    <3> QED BY <3>2, <3>3, HeapGives
  <2> QED BY <1>2, <2>1, <2>2, AllocateCases
<1>3. CASE Boot
  BY <1>3, HeapBoot
<1>4. CASE Free
  BY <1>4, HeapFrees
<1>5. CASE AllocDone
  BY <1>5, HeapAllocates
<1>6. CASE Split \/ Merge \/ MergeDone
  BY <1>6, HeapLoops
<1> QED BY <1>1, <1>2, <1>3, <1>4, <1>5, <1>6 DEF Next

\* mm.c implements Heap: whatever the memory, the regions in use at boot and the
\* requests, what allocate returns lies in memory, is large enough, off the regions,
\* and apart from everything given out and not freed.
THEOREM AllocatorIsHeap == Spec => IsHeap
<1>1. Init => Promised!Init
  <2>1. Init => GivenSet = {}
    BY DEF Init, GivenSet
  <2> QED BY <2>1 DEF Promised!Init, GivenSet
<1>2. BlockInv /\ AllApart /\ AllApart' /\ [Next]_vars => [Promised!Next]_(Promised!vars)
  BY HeapSimulated DEF HeapStep
<1> QED BY <1>1, <1>2, Invariance, AllApartAlways, PTL DEF Spec, IsHeap, Promised!Spec

(***************************************************************************)
(* Merging.                                                                *)
(***************************************************************************)
\* Multiples of a size are as far apart as their factors.
LEMMA Multiples ==
  ASSUME NEW s \in Nat, s >= 1, NEW a \in Int, NEW b \in Int
  PROVE  /\ a * s \in Int /\ b * s \in Int
         /\ a * s <= b * s <=> a <= b
         /\ a * s < b * s <=> a < b
         /\ (a + 1) * s = a * s + s
         /\ (2 * a) * s = a * (2 * s)
<1>1. a * s \in Int /\ b * s \in Int
  OBVIOUS
<1>2. a <= b => a * s <= b * s
  OBVIOUS
<1>3. a < b => a * s < b * s
  OBVIOUS
<1>4. b <= a => b * s <= a * s
  OBVIOUS
<1>5. b < a => b * s < a * s
  OBVIOUS
<1>6. (a + 1) * s = a * s + s /\ (2 * a) * s = a * (2 * s)
  OBVIOUS
<1> QED BY <1>1, <1>2, <1>3, <1>4, <1>5, <1>6

\* A block of order o may begin at page f.
Aligned(f, o) == \E q \in Nat : f = q * Size[o]

\* A number is even or odd.
LEMMA EvenOrOdd ==
  ASSUME NEW q \in Nat
  PROVE  \/ q % 2 = 0 /\ \E c \in Nat : q = 2 * c
         \/ q % 2 # 0 /\ \E c \in Nat : q = 2 * c + 1
<1>1. q = 2 * (q \div 2) + (q % 2) /\ q % 2 \in 0 .. 1 /\ q \div 2 \in Nat
  OBVIOUS
<1> QED BY <1>1

\* f and its buddy are the two halves, in one order or the other, of the same block.
LeftHalf(c, o) == (2 * c) * Size[o]
RightHalf(c, o) == (2 * c + 1) * Size[o]

\* What the exclusive or with 1 << order does to the page of a block.
LEMMA BuddyHalf ==
  ASSUME NEW f \in Nat, NEW o \in Orders, Aligned(f, o)
  PROVE  \E c \in Nat : \/ f = LeftHalf(c, o) /\ BuddyOf(f, o) = RightHalf(c, o)
                        \/ f = RightHalf(c, o) /\ BuddyOf(f, o) = LeftHalf(c, o)
<1> DEFINE s == Size[o]
<1>1. s \in Nat /\ s >= 1
  BY SizePositive
<1> HIDE DEF s
<1>2. PICK q \in Nat : f = q * s
  BY DEF Aligned, s
<1>3. f \div s = q
  <2>1. s * q = f /\ s > 0
    BY <1>1, <1>2
  <2> QED BY <1>1, <2>1, DivUnique
<1>4. CASE q % 2 = 0
  <2>1. PICK c \in Nat : q = 2 * c
    BY <1>4, EvenOrOdd
  <2>2. (2 * c + 1) * s = (2 * c) * s + s
    BY <1>1
  <2>3. BuddyOf(f, o) = f + s
    BY <1>3, <1>4 DEF BuddyOf, s
  <2> QED BY <1>2, <2>1, <2>2, <2>3 DEF LeftHalf, RightHalf, s
<1>5. CASE q % 2 # 0
  <2>1. PICK c \in Nat : q = 2 * c + 1
    BY <1>5, EvenOrOdd
  <2>2. (2 * c + 1) * s = (2 * c) * s + s /\ (2 * c) * s \in Int
    BY <1>1
  <2>3. BuddyOf(f, o) = f - s
    BY <1>3, <1>5 DEF BuddyOf, s
  <2>4. f - s = (2 * c) * s
    BY <1>1, <1>2, <2>1, <2>2
  <2> QED BY <1>2, <2>1, <2>3, <2>4 DEF LeftHalf, RightHalf, s
<1> QED BY <1>4, <1>5

\* The halves of a block of the order above.
LEMMA HalvesAligned ==
  ASSUME NEW c \in Nat, NEW o \in Orders
  PROVE  /\ LeftHalf(c, o) \in Nat /\ RightHalf(c, o) = LeftHalf(c, o) + Size[o]
         /\ RightHalf(c, o) \in Nat /\ LeftHalf(c, o) < RightHalf(c, o)
         /\ Aligned(LeftHalf(c, o), o) /\ Aligned(RightHalf(c, o), o)
         /\ o + 1 \in Orders => /\ LeftHalf(c, o) = c * Size[o + 1] /\ Aligned(LeftHalf(c, o), o + 1)
                                /\ Size[o + 1] = 2 * Size[o]
<1>1. Size[o] \in Nat /\ Size[o] >= 1 /\ 2 * c \in Nat /\ 2 * c + 1 \in Nat
  BY SizePositive
<1>2. /\ (2 * c + 1) * Size[o] = (2 * c) * Size[o] + Size[o] /\ (2 * c) * Size[o] \in Nat
      /\ (2 * c) * Size[o] = c * (2 * Size[o])
  <2> DEFINE s == Size[o]
  <2> HIDE DEF s
  <2>1. s \in Nat => /\ (2 * c + 1) * s = (2 * c) * s + s /\ (2 * c) * s \in Nat
                     /\ (2 * c) * s = c * (2 * s)
    OBVIOUS
  <2> QED BY <1>1, <2>1 DEF s
<1>3. o + 1 \in Orders => Size[o + 1] = 2 * Size[o]
  <2>1. ASSUME o + 1 \in Orders PROVE o \in 0 .. MaxOrder - 1
    BY <2>1, BuddyAssumption DEF Orders
  <2> QED BY <2>1, BuddyAssumption
<1>4. Aligned(LeftHalf(c, o), o) /\ Aligned(RightHalf(c, o), o)
  BY <1>1 DEF Aligned, LeftHalf, RightHalf
<1>5. LeftHalf(c, o) \in Nat /\ RightHalf(c, o) = LeftHalf(c, o) + Size[o]
  BY <1>2 DEF LeftHalf, RightHalf
<1>6. o + 1 \in Orders => LeftHalf(c, o) = c * Size[o + 1]
  BY <1>2, <1>3 DEF LeftHalf
<1>7. RightHalf(c, o) \in Nat /\ LeftHalf(c, o) < RightHalf(c, o)
  <2> HIDE DEF LeftHalf, RightHalf
  <2> QED BY <1>1, <1>5
<1>8. o + 1 \in Orders => Aligned(LeftHalf(c, o), o + 1)
  BY <1>6 DEF Aligned
<1> QED BY <1>3, <1>4, <1>5, <1>6, <1>7, <1>8

\* A left half is no right half.
LEMMA HalvesDiffer ==
  ASSUME NEW c \in Nat, NEW d \in Nat, NEW o \in Orders
  PROVE  /\ LeftHalf(c, o) # RightHalf(d, o)
         /\ LeftHalf(c, o) = LeftHalf(d, o) => c = d
         /\ RightHalf(c, o) = RightHalf(d, o) => c = d
<1> DEFINE s == Size[o]
<1>1. s \in Nat /\ s >= 1
  BY SizePositive
<1> HIDE DEF s
<1>2. \A a, b \in Int : a * s = b * s => a = b
  <2> SUFFICES ASSUME NEW a \in Int, NEW b \in Int, a * s = b * s PROVE a = b
    OBVIOUS
  <2>1. a * s <= b * s /\ b * s <= a * s
    <3>1. a * s \in Int
      BY <1>1
    <3> QED BY <3>1
  <2>2. a <= b /\ b <= a
    BY <1>1, <2>1, Multiples
  <2> QED BY <2>2
<1>3. 2 * c # 2 * d + 1 /\ (2 * c = 2 * d => c = d) /\ (2 * c + 1 = 2 * d + 1 => c = d)
  OBVIOUS
<1>4. 2 * c \in Int /\ 2 * d \in Int /\ 2 * c + 1 \in Int /\ 2 * d + 1 \in Int
  OBVIOUS
<1> QED BY <1>2, <1>3, <1>4 DEF LeftHalf, RightHalf, s

\* The buddy of the buddy.
LEMMA BuddyBack ==
  ASSUME NEW f \in Nat, NEW o \in Orders, Aligned(f, o)
  PROVE  BuddyOf(f, o) \in Nat /\ Aligned(BuddyOf(f, o), o) /\ BuddyOf(BuddyOf(f, o), o) = f
<1> DEFINE b == BuddyOf(f, o)
<1>1. PICK c \in Nat : \/ f = LeftHalf(c, o) /\ b = RightHalf(c, o)
                       \/ f = RightHalf(c, o) /\ b = LeftHalf(c, o)
  BY BuddyHalf
<1> HIDE DEF b
<1>2. b \in Nat /\ Aligned(b, o)
  BY <1>1, HalvesAligned
<1>3. PICK d \in Nat : \/ b = LeftHalf(d, o) /\ BuddyOf(b, o) = RightHalf(d, o)
                       \/ b = RightHalf(d, o) /\ BuddyOf(b, o) = LeftHalf(d, o)
  BY <1>2, BuddyHalf
<1>4. BuddyOf(b, o) = f
  <2>1. CASE f = LeftHalf(c, o) /\ b = RightHalf(c, o)
    <3>1. b = RightHalf(d, o) /\ BuddyOf(b, o) = LeftHalf(d, o) /\ c = d
      BY <1>3, <2>1, HalvesDiffer
    <3> QED BY <2>1, <3>1
  <2>2. CASE f = RightHalf(c, o) /\ b = LeftHalf(c, o)
    <3>1. b = LeftHalf(d, o) /\ BuddyOf(b, o) = RightHalf(d, o) /\ c = d
      BY <1>3, <2>2, HalvesDiffer
    <3> QED BY <2>2, <3>1
  <2> QED BY <1>1, <2>1, <2>2
<1> QED BY <1>2, <1>4 DEF b

\* Sizes divide larger sizes.
LEMMA SizesDivide ==
  ASSUME NEW m \in Orders, NEW n \in Orders, m <= n
  PROVE  \E d \in Nat : d >= 1 /\ Size[n] = d * Size[m]
<1> DEFINE S == {k \in Orders : m <= k /\ ~\E d \in Nat : d >= 1 /\ Size[k] = d * Size[m]}
<1>1. ASSUME S # {} PROVE FALSE
  <2>1. S \in SUBSET Nat
    BY Constants
  <2>2. PICK k \in S : \A y \in S : k <= y
    BY <1>1, <2>1, LeastNatural
  <2>3. k \in Orders /\ m <= k /\ (~\E d \in Nat : d >= 1 /\ Size[k] = d * Size[m])
        /\ k \in Nat /\ m \in Nat /\ Size[m] \in Nat
    BY <2>1, <2>2, Constants, SizePositive
  <2>4. k # m
    <3>1. Size[m] = 1 * Size[m]
      BY <2>3
    <3> QED BY <2>3, <3>1
  <2>5. k > 0 /\ m <= k - 1
    BY <2>3, <2>4
  <2>6. k - 1 \in Orders /\ Size[k] = Size[k - 1] + Size[k - 1]
    BY <2>3, <2>5, Halves
  <2>7. k - 1 \notin S
    BY <2>2, <2>3
  <2>8. PICK d \in Nat : d >= 1 /\ Size[k - 1] = d * Size[m]
    BY <2>5, <2>6, <2>7
  <2>9. Size[k] = (2 * d) * Size[m] /\ 2 * d \in Nat /\ 2 * d >= 1
    <3> DEFINE s == Size[m]
    <3>1. s \in Nat
      BY <2>3
    <3> HIDE DEF s
    <3>2. d * s + d * s = (2 * d) * s
      BY <3>1
    <3> QED BY <2>6, <2>8, <3>2 DEF s
  <2> QED BY <2>3, <2>9
<1> QED BY <1>1

\* Two free buddies that free_pages would have merged.
Buddies(f, g) ==
  /\ f \in Frames /\ g \in Frames /\ frames[f].listed /\ frames[g].listed
  /\ frames[f].order < MaxOrder /\ frames[g].order = frames[f].order
  /\ g = BuddyOf(f, frames[f].order)

Touches(f, r) == Overlaps(f, End(frames, f), r)

AllAligned == \A f \in Frames : frames[f].order \in Orders => Aligned(f, frames[f].order)

\* Blocks begin where their size allows. There are no two free buddies: step 7 makes
\* none, and those that memory_reserve makes touch the region it is about.
MergedOK ==
  /\ AllAligned
  /\ call.at = "fill" =>
       \A f \in Frames, c \in Nat :
         frames[f].listed /\ frames[f].order < MaxOrder /\ f = LeftHalf(c, frames[f].order)
           => FrameCount < f + 2 * Size[frames[f].order]
  /\ call.at = "reserve" =>
       \A f, g : Buddies(f, g) =>
         /\ call.idx <= Len(early)
         /\ Touches(f, early[call.idx]) \/ Touches(g, early[call.idx])
  /\ Working => \A f, g : ~Buddies(f, g)

\* The order of a free block.
LEMMA ListedOrder ==
  ASSUME BlockInv, NEW f \in Frames, frames[f].listed
  PROVE  frames[f].order \in Orders /\ f \in Nat
BY Constants DEF BlockInv, Metadata

\* Buddies are buddies of each other.
LEMMA BuddiesBack ==
  ASSUME BlockInv, AllAligned, NEW f, NEW g, Buddies(f, g)
  PROVE  /\ f = BuddyOf(g, frames[g].order) /\ frames[f].order \in Orders
         /\ f \in Nat /\ g \in Nat /\ Aligned(f, frames[f].order)
<1>1. /\ f \in Frames /\ g \in Frames /\ frames[f].listed /\ frames[g].listed
      /\ frames[g].order = frames[f].order /\ g = BuddyOf(f, frames[f].order)
  BY DEF Buddies
<1>2. frames[f].order \in Orders /\ f \in Nat /\ Aligned(f, frames[f].order)
  BY <1>1, ListedOrder DEF AllAligned
<1> QED BY <1>1, <1>2, BuddyBack

\* Steps of the allocator that change no page.
LEMMA MergedKept ==
  ASSUME MergedOK, Working, Working', UNCHANGED frames
  PROVE  MergedOK'
<1>1. AllAligned'
  BY DEF MergedOK, AllAligned
<1>2. \A f, g : Buddies(f, g)' <=> Buddies(f, g)
  BY DEF Buddies
<1>3. call'.at # "fill" /\ call'.at # "reserve"
  BY DEF Working
<1> QED BY <1>1, <1>2, <1>3 DEF MergedOK

\* Steps of the allocator that put at most block x on a list.
LEMMA MergedList ==
  ASSUME BlockInv, BlockInv', MergedOK, Working, Working', NEW x \in Frames,
         \A f \in Frames : \/ frames'[f].order = frames[f].order
                           \/ Aligned(f, frames'[f].order),
         \A f \in Frames : f # x /\ frames'[f].listed
                             => frames[f].listed /\ frames'[f].order = frames[f].order,
         \A g : ~(Buddies(x, g)')
  PROVE  MergedOK'
<1>1. AllAligned'
  BY DEF MergedOK, AllAligned
<1>2. ASSUME NEW f, NEW g, Buddies(f, g)' PROVE FALSE
  <2>1. CASE f = x
    BY <1>2, <2>1
  <2>2. CASE g = x
    <3>1. /\ f \in Frames /\ g \in Frames /\ frames'[f].listed /\ frames'[g].listed
          /\ frames'[f].order < MaxOrder /\ frames'[g].order = frames'[f].order
          /\ g = BuddyOf(f, frames'[f].order)
      BY <1>2 DEF Buddies
    <3>2. frames'[f].order \in Orders /\ f \in Nat
      BY <3>1, Constants DEF BlockInv, Metadata
    <3>3. Aligned(f, frames'[f].order)
      BY <1>1, <3>1, <3>2 DEF AllAligned
    <3>4. f = BuddyOf(g, frames'[g].order)
      BY <3>1, <3>2, <3>3, BuddyBack
    <3>5. Buddies(g, f)'
      BY <3>1, <3>4 DEF Buddies
    <3> QED BY <2>2, <3>5
  <2>3. CASE f # x /\ g # x
    <3>1. /\ f \in Frames /\ g \in Frames /\ frames'[f].listed /\ frames'[g].listed
          /\ frames'[f].order < MaxOrder /\ frames'[g].order = frames'[f].order
          /\ g = BuddyOf(f, frames'[f].order)
      BY <1>2 DEF Buddies
    <3>2. Buddies(f, g)
      BY <2>3, <3>1 DEF Buddies
    <3> QED BY <3>2 DEF MergedOK
  <2> QED BY <2>1, <2>2, <2>3
<1>3. call'.at # "fill" /\ call'.at # "reserve"
  BY DEF Working
<1> QED BY <1>1, <1>2, <1>3 DEF MergedOK

\* alloc_pages takes a block off its list.
LEMMA MergedTake ==
  ASSUME BlockInv, BlockInv', MergedOK, call.at = "idle",
         NEW i, NEW k, NEW o, NEW p, NEW n, TakeEffect(i, k, o, p, n)
  PROVE  MergedOK'
<1>1. /\ i \in Frames /\ (\A f \in Frames : f # i => frames'[f] = frames[f])
      /\ ~frames'[i].listed /\ frames'[i].order = frames[i].order /\ call'.at = "split"
  BY DEF TakeEffect
<1>2. \A f \in Frames : frames'[f].order = frames[f].order
  BY <1>1
<1>3. \A g : ~(Buddies(i, g)')
  BY <1>1 DEF Buddies
<1>4. Working /\ Working'
  BY <1>1 DEF Working
<1> QED BY <1>1, <1>2, <1>3, <1>4, MergedList

\* The half that goes back is the buddy of the one in hand.
LEMMA MergedSplit == ASSUME BlockInv, BlockInv', MergedOK, Split PROVE MergedOK'
<1>1. PICK i, j, o : SplitEffect(i, j, o)
  BY SplitEffects
<1>2. /\ i \in Frames /\ i \in Nat /\ j \in Frames /\ j \in Nat /\ o \in Orders /\ o \in Nat
      /\ j = i + Size[o] /\ frames[i].order = o + 1
  <2>1. /\ i \in Frames /\ j \in Frames /\ o \in Orders /\ j = i + Size[o]
        /\ frames[i].order = call.order /\ o = call.order - 1
    BY <1>1 DEF SplitEffect
  <2>2. call.order \in Nat
    BY Constants DEF BlockInv, TypeOK, Call
  <2> QED BY <2>1, <2>2, Constants
<1>3. /\ frames'[j] = FreeFrame(o) /\ frames'[i].order = o /\ ~frames'[i].listed /\ i # j
      /\ (\A f \in Frames : f # i /\ f # j => frames'[f] = frames[f])
      /\ call'.at = "split" /\ call.at = "split"
  BY <1>1 DEF SplitEffect, Split
<1>4. frames'[j].order = o
  BY <1>2, <1>3, FrameValues
<1>5. o + 1 \in Orders
  BY <1>1, <1>2 DEF SplitEffect, Split, BlockInv, TypeOK, Call
<1>6. PICK c \in Nat : i = c * Size[o + 1]
  BY <1>2, <1>5 DEF MergedOK, AllAligned, Aligned
<1>7. i = LeftHalf(c, o) /\ j = RightHalf(c, o) /\ Aligned(i, o) /\ Aligned(j, o)
  <2>1. /\ LeftHalf(c, o) = c * Size[o + 1] /\ RightHalf(c, o) = LeftHalf(c, o) + Size[o]
        /\ Aligned(LeftHalf(c, o), o) /\ Aligned(RightHalf(c, o), o)
    BY <1>2, <1>5, HalvesAligned
  <2>2. i = LeftHalf(c, o)
    BY <1>6, <2>1
  <2>3. j = RightHalf(c, o)
    BY <1>2, <2>1, <2>2
  <2> QED BY <2>1, <2>2, <2>3
<1>8. BuddyOf(j, o) = i
  BY <1>2, <1>7, BuddyHalf, HalvesDiffer
<1>9. \A g : ~(Buddies(j, g)')
  BY <1>3, <1>4, <1>8 DEF Buddies
<1>10. \A f \in Frames : frames'[f].order = frames[f].order \/ Aligned(f, frames'[f].order)
  BY <1>3, <1>4, <1>7
<1>11. \A f \in Frames : f # j /\ frames'[f].listed
                           => frames[f].listed /\ frames'[f].order = frames[f].order
  BY <1>3
<1>12. Working /\ Working'
  BY <1>3 DEF Working
<1> QED BY <1>2, <1>9, <1>10, <1>11, <1>12, MergedList

\* The union of two buddies begins at the first of them.
LEMMA MergedMerge == ASSUME BlockInv, BlockInv', MergedOK, Merge PROVE MergedOK'
<1>1. PICK i, b, lo, hi, o : MergeEffect(i, b, lo, hi, o)
  BY MergeEffects
<1>2. frames[i].order = o /\ call.at = "merge"
  BY <1>1 DEF Merge, BlockInv, LoopOK, Looping, MergeEffect
<1>3. b = BuddyOf(i, o)
  BY <1>1 DEF MergeEffect
<1>4. /\ hi = lo + Size[o] /\ ((lo = i /\ hi = b) \/ (lo = b /\ hi = i)) /\ i # b
      /\ b \in Frames /\ o \in Orders /\ o + 1 \in Orders /\ i \in Frames
      /\ (\A f \in Frames : f # i /\ f # b => frames'[f] = frames[f])
      /\ ~frames'[i].listed /\ ~frames'[b].listed
      /\ frames'[lo].order = o + 1 /\ frames'[hi].order = frames[hi].order
      /\ call'.at = "merge"
  BY <1>1 DEF MergeEffect
<1>5. i \in Nat /\ Aligned(i, o) /\ Size[o] \in Nat /\ Size[o] >= 1 /\ b \in Nat
  BY <1>2, <1>4, Constants, SizePositive DEF MergedOK, AllAligned
<1>6. PICK c \in Nat : \/ i = LeftHalf(c, o) /\ b = RightHalf(c, o)
                       \/ i = RightHalf(c, o) /\ b = LeftHalf(c, o)
  BY <1>3, <1>4, <1>5, BuddyHalf
<1>7. LeftHalf(c, o) < RightHalf(c, o) /\ Aligned(LeftHalf(c, o), o + 1)
      /\ LeftHalf(c, o) \in Nat /\ RightHalf(c, o) \in Nat
  BY <1>4, HalvesAligned
<1>8. lo < hi
  BY <1>4, <1>5
<1>9. Aligned(lo, o + 1)
  BY <1>4, <1>5, <1>6, <1>7, <1>8
<1>10. \A f \in Frames : frames'[f].order = frames[f].order \/ Aligned(f, frames'[f].order)
  BY <1>4, <1>9
<1>11. \A f \in Frames : f # i /\ frames'[f].listed
                           => frames[f].listed /\ frames'[f].order = frames[f].order
  BY <1>4
<1>12. \A g : ~(Buddies(i, g)')
  BY <1>4 DEF Buddies
<1>13. Working /\ Working'
  BY <1>2, <1>4 DEF Working
<1> QED BY <1>4, <1>10, <1>11, <1>12, <1>13, MergedList

\* free_pages ends when there is no buddy to merge with.
LEMMA MergedDone == ASSUME BlockInv, BlockInv', MergedOK, MergeDone PROVE MergedOK'
<1>1. PICK i, o : ListsEffect(i, o)
  BY ListsEffects
<1>2. /\ i = call.idx /\ o = call.order /\ i \in Frames /\ o \in Orders /\ frames[i].order = o /\ frames'[i].order = o
      /\ (\A f \in Frames : f # i => frames'[f] = frames[f])
      /\ call.at = "merge" /\ call'.at = "idle" /\ ~CanMerge
      /\ ~frames[i].listed
  BY <1>1 DEF ListsEffect
<1>3. ASSUME NEW g, Buddies(i, g)' PROVE FALSE
  <2>1. /\ g \in Frames /\ frames'[g].listed /\ o < MaxOrder /\ frames'[g].order = o
        /\ g = BuddyOf(i, o)
    BY <1>2, <1>3 DEF Buddies
  <2>2. ~Mergeable(g, o)
    BY <1>2, <2>1 DEF CanMerge
  <2>3. i \in Nat /\ Size[o] \in Nat /\ Size[o] >= 1
    BY <1>2, Constants, SizePositive
  <2>4. g # i
    <3>1. g = i + Size[o] \/ g = i - Size[o]
      BY <1>2, <2>1, <2>3, BuddyPlace
    <3> QED BY <2>3, <3>1
  <2>5. frames[g].listed /\ frames[g].order = o
    BY <1>2, <2>1, <2>4
  <2>6. ~frames[g].used /\ g < FrameCount
    BY <2>1, <2>5, Constants DEF BlockInv, Metadata, Frames
  <2> QED BY <2>2, <2>5, <2>6 DEF Mergeable
<1>4. \A f \in Frames : frames'[f].order = frames[f].order
  BY <1>2
<1>5. \A f \in Frames : f # i /\ frames'[f].listed
                          => frames[f].listed /\ frames'[f].order = frames[f].order
  BY <1>2
<1>6. Working /\ Working'
  BY <1>2 DEF Working
<1> QED BY <1>2, <1>3, <1>4, <1>5, <1>6, MergedList

\* Blocks that are given out or come back are on no list.
LEMMA MergedUse ==
  ASSUME BlockInv, BlockInv', MergedOK, AllocDone \/ \E h \in held : FreesBlock(h)
  PROVE  MergedOK'
<1>1. CASE AllocDone
  <2>1. PICK x \in 0 .. PageSize - 1 : DoneEffect(call.idx, call.pool, x)
    BY <1>1, DoneEffects
  <2>2. /\ call.at = "split" /\ call'.at = "idle" /\ call.idx \in Frames
        /\ frames[call.idx].order = call.want
    BY <1>1 DEF AllocDone, Idle, At, BlockInv, LoopOK, Looping
  <2> PICK i \in Frames : i = call.idx
    BY <2>2
  <2>3. /\ ~frames'[i].listed /\ frames'[i].order = call.want
        /\ \A f \in Frames : f # i => frames'[f] = frames[f]
    BY <2>1 DEF DoneEffect
  <2>4. \A f \in Frames : frames'[f].order = frames[f].order
    BY <2>2, <2>3
  <2>5. \A g : ~(Buddies(i, g)')
    BY <2>3 DEF Buddies
  <2>6. Working /\ Working'
    BY <2>2 DEF Working
  <2> QED BY <2>2, <2>3, <2>4, <2>5, <2>6, MergedList
<1>2. CASE \E h \in held : FreesBlock(h)
  <2>1. PICK h \in held : FreesBlock(h)
    BY <1>2
  <2>2. PICK i, o : FreesEffect(h, i, o)
    BY <2>1, FreesEffects
  <2>3. /\ i \in Frames /\ call.at = "idle" /\ call'.at = "merge" /\ ~frames'[i].listed
        /\ \A f \in Frames : f # i => frames'[f] = frames[f]
    BY <2>2 DEF FreesEffect
  <2>4. \A f \in Frames : frames'[f].order = frames[f].order
    BY <2>2 DEF FreesEffect
  <2>5. \A g : ~(Buddies(i, g)')
    BY <2>3 DEF Buddies
  <2>6. Working /\ Working'
    BY <2>3 DEF Working
  <2> QED BY <2>3, <2>4, <2>5, <2>6, MergedList
<1> QED BY <1>1, <1>2

\* A multiple leaves no rest.
LEMMA ModMultiple ==
  ASSUME NEW d \in Nat, d > 0, NEW c \in Nat
  PROVE  (c * d) % d = 0
<1> DEFINE x == c * d
<1>1. x \in Nat /\ d * c = x
  OBVIOUS
<1> HIDE DEF x
<1>2. x \div d = c
  BY <1>1, DivUnique
<1>3. x % d = x - d * (x \div d)
  BY <1>1
<1> QED BY <1>1, <1>2, <1>3 DEF x

\* And what leaves no rest is a multiple.
LEMMA ModAligned ==
  ASSUME NEW f \in Nat, NEW o \in Orders, f % Size[o] = 0
  PROVE  Aligned(f, o)
<1> DEFINE s == Size[o]
<1>1. s \in Nat /\ s > 0 /\ f % s = 0
  BY SizePositive
<1> HIDE DEF s
<1>2. f = s * (f \div s) /\ f \div s \in Nat
  BY <1>1
<1>3. f = (f \div s) * s
  BY <1>1, <1>2
<1> QED BY <1>2, <1>3 DEF Aligned, s

\* Before memory is divided nothing is listed.
LEMMA MergedStartup ==
  ASSUME BlockInv, MergedOK, Startup \/ Halt \/ Halted
  PROVE  MergedOK'
<1>1. /\ call.at \in {"startup", "halted"} /\ call'.at \in {"startup", "fill", "halted"}
      /\ UNCHANGED frames
  BY DEF Startup, Halt, Halted, At, vars
<1>2. \A f \in Frames : frames[f] = UsedFrame(-1)
  BY <1>1 DEF BlockInv, BootOK
<1>3. \A f \in Frames : ~frames'[f].listed
  BY <1>1, <1>2 DEF UsedFrame
<1>4. AllAligned'
  BY <1>1 DEF MergedOK, AllAligned
<1> QED BY <1>1, <1>3, <1>4 DEF MergedOK, Working

\* Step 7 lists the largest block that fits, and so never the first of two halves of
\* a block that fits as well.
LEMMA MergedFill ==
  ASSUME BlockInv, MergedOK, Fill, call.idx < FrameCount
  PROVE  MergedOK'
<1>1. PICK i, o : FillEffect(i, o)
  BY FillEffects
<1>2. /\ i \in Frames /\ o \in Orders /\ i + Size[o] <= FrameCount
      /\ o \in Fitting(i) /\ (\A y \in Fitting(i) : y <= o)
      /\ frames' = [frames EXCEPT ![i] = FreeFrame(o)] /\ call'.at = "fill"
      /\ frames \in FrameArray /\ call.at = "fill"
  BY <1>1 DEF FillEffect, At, Fill, BlockInv, TypeOK, FrameArray
<1>3. i \in Nat /\ o \in Nat /\ i % Size[o] = 0 /\ Size[o] \in Nat /\ Size[o] >= 1
  BY <1>2, Constants, SizePositive DEF Fitting
<1>4. frames'[i] = FreeFrame(o) /\ \A f \in Frames : f # i => frames'[f] = frames[f]
  BY <1>2 DEF FrameArray
<1>5. frames'[i].order = o
  BY <1>2, <1>4, FrameValues
<1>6. Aligned(i, o)
  BY <1>2, <1>3, ModAligned
<1>7. AllAligned'
  BY <1>4, <1>5, <1>6 DEF MergedOK, AllAligned
<1>8. ASSUME NEW c \in Nat, o < MaxOrder, i = LeftHalf(c, o), i + 2 * Size[o] <= FrameCount
      PROVE  FALSE
  <2>1. o + 1 \in Orders
    BY <1>3, <1>8, Constants DEF Orders
  <2>2. i = c * Size[o + 1] /\ Size[o + 1] = 2 * Size[o]
    BY <1>2, <1>8, <2>1, HalvesAligned
  <2>3. Size[o + 1] \in Nat /\ Size[o + 1] > 0
    BY <2>1, SizePositive
  <2>4. i % Size[o + 1] = 0
    BY <2>2, <2>3, ModMultiple
  <2>5. o + 1 \in Fitting(i)
    BY <1>8, <2>1, <2>2, <2>4 DEF Fitting
  <2> QED BY <1>2, <1>3, <2>5
<1>9. ASSUME NEW f \in Frames, NEW c \in Nat, frames'[f].listed, frames'[f].order < MaxOrder,
             f = LeftHalf(c, frames'[f].order)
      PROVE  FrameCount < f + 2 * Size[frames'[f].order]
  <2>1. CASE f = i
    <3>1. i + 2 * Size[o] \in Nat /\ FrameCount \in Nat
      BY <1>3, Constants
    <3>2. ~(i + 2 * Size[o] <= FrameCount)
      BY <1>5, <1>8, <1>9, <2>1
    <3> QED BY <1>5, <2>1, <3>1, <3>2
  <2>2. CASE f # i
    BY <1>2, <1>4, <1>9, <2>2 DEF MergedOK
  <2> QED BY <2>1, <2>2
<1> QED BY <1>2, <1>7, <1>9 DEF MergedOK, Working

\* When step 7 is done there are no two free buddies.
LEMMA MergedFilled ==
  ASSUME BlockInv, MergedOK, Fill, ~(call.idx < FrameCount)
  PROVE  MergedOK'
<1>1. call.at = "fill" /\ UNCHANGED frames /\ call'.at = "reserve"
  BY DEF Fill, At
<1>2. Divided = call.idx /\ call.idx <= FrameCount /\ Tiles(frames, InHand, call.idx)
  BY <1>1 DEF Divided, BlockInv, LoopOK
<1>3. ASSUME NEW e \in Frames, NEW d \in Frames, frames[e].listed, frames[d].listed,
             frames[e].order = frames[d].order, frames[e].order < MaxOrder,
             NEW c \in Nat, e = LeftHalf(c, frames[e].order), d = RightHalf(c, frames[e].order)
      PROVE  FALSE
  <2> DEFINE o == frames[e].order
  <2>1. o \in Orders /\ e \in Nat /\ o # -1
    BY <1>3, ListedOrder, Constants
  <2>2. FrameCount < e + 2 * Size[o]
    BY <1>1, <1>3 DEF MergedOK
  <2>3. Live(frames, InHand, d)
    BY <1>3, <2>1 DEF Live
  <2>4. d + Size[o] <= call.idx
    BY <1>2, <1>3, <2>3 DEF Tiles, End
  <2>5. d = e + Size[o] /\ Size[o] \in Nat /\ call.idx \in Nat /\ FrameCount \in Nat
    BY <1>3, <2>1, HalvesAligned, SizePositive, Constants DEF BlockInv, TypeOK, Call
  <2> HIDE DEF o
  <2> QED BY <1>2, <2>1, <2>2, <2>4, <2>5
<1>4. ASSUME NEW f, NEW g, Buddies(f, g) PROVE FALSE
  <2>1. /\ f \in Frames /\ g \in Frames /\ frames[f].listed /\ frames[g].listed
        /\ frames[f].order < MaxOrder /\ frames[g].order = frames[f].order
        /\ g = BuddyOf(f, frames[f].order)
    BY <1>4 DEF Buddies
  <2>2. frames[f].order \in Orders /\ f \in Nat /\ Aligned(f, frames[f].order)
    BY <2>1, ListedOrder DEF MergedOK, AllAligned
  <2>3. PICK c \in Nat : \/ f = LeftHalf(c, frames[f].order) /\ g = RightHalf(c, frames[f].order)
                         \/ f = RightHalf(c, frames[f].order) /\ g = LeftHalf(c, frames[f].order)
    BY <2>1, <2>2, BuddyHalf
  <2> QED BY <1>3, <2>1, <2>3
<1>5. \A f, g : ~(Buddies(f, g)')
  BY <1>1, <1>4 DEF Buddies
<1>6. AllAligned'
  BY <1>1 DEF MergedOK, AllAligned
<1> QED BY <1>1, <1>5, <1>6 DEF MergedOK, Working

\* A block that memory_reserve takes as a whole is on no list.
LEMMA MergedWhole ==
  ASSUME BlockInv, MergedOK, Reserve, call' = call,
         NEW n \in 1 .. Len(freeArea[call.order]),
         ReserveWhole(freeArea[call.order][n], call.order)
  PROVE  MergedOK'
<1>1. PICK o \in Orders : o = call.order
  BY ReserveTypes
<1>2. PICK i \in Frames : i = freeArea[o][n] /\ frames[i].order = o
  BY <1>1, OnList
<1>3. /\ frames' = [frames EXCEPT ![i] = UsedFrame(o)] /\ frames \in FrameArray
      /\ call.at = "reserve" /\ early' = early
  BY <1>1, <1>2, ReserveTypes DEF ReserveWhole
<1>4. frames'[i] = UsedFrame(o) /\ \A f \in Frames : f # i => frames'[f] = frames[f]
  BY <1>3 DEF FrameArray
<1>5. frames'[i].order = o /\ ~frames'[i].listed
  BY <1>4, FrameValues
<1>6. AllAligned'
  BY <1>2, <1>4, <1>5 DEF MergedOK, AllAligned
<1>7. ASSUME NEW f, NEW g, Buddies(f, g)'
      PROVE  /\ call.idx <= Len(early)
             /\ Touches(f, early[call.idx])' \/ Touches(g, early[call.idx])'
  <2>1. /\ f \in Frames /\ g \in Frames /\ frames'[f].listed /\ frames'[g].listed
        /\ frames'[f].order < MaxOrder /\ frames'[g].order = frames'[f].order
        /\ g = BuddyOf(f, frames'[f].order)
    BY <1>7 DEF Buddies
  <2>2. frames'[f] = frames[f] /\ frames'[g] = frames[g]
    BY <1>4, <1>5, <2>1
  <2>3. Buddies(f, g)
    BY <2>1, <2>2 DEF Buddies
  <2>4. call.idx <= Len(early) /\ (Touches(f, early[call.idx]) \/ Touches(g, early[call.idx]))
    BY <1>3, <2>3 DEF MergedOK
  <2>5. End(frames', f) = End(frames, f) /\ End(frames', g) = End(frames, g)
    BY <2>2 DEF End
  <2> QED BY <1>3, <2>4, <2>5 DEF Touches, Overlaps, FirstPage, EndPage
<1> QED BY <1>3, <1>6, <1>7 DEF MergedOK, Working

\* The halves of a block that memory_reserve splits are each other's buddies, and one
\* of them touches the region, as the block did.
LEMMA MergedHalves ==
  ASSUME BlockInv, BlockInv', MergedOK, Reserve, call' = call, call.idx <= Len(early),
         NEW n \in 1 .. Len(freeArea[call.order]),
         Overlaps(freeArea[call.order][n], freeArea[call.order][n] + Size[call.order], early[call.idx]),
         ReserveSplit(freeArea[call.order][n], call.order,
                      freeArea[call.order][n] + Size[call.order - 1])
  PROVE  MergedOK'
<1>1. PICK o \in Orders : o = call.order
  BY ReserveTypes
<1>2. PICK i \in Frames : i = freeArea[o][n] /\ frames[i].order = o
                            /\ Live(frames, InHand, i)
  BY <1>1, OnList
<1>3. /\ o > 0 /\ frames \in FrameArray /\ call.at = "reserve" /\ early' = early
      /\ InHand = {} /\ call.idx \in 1 .. Len(early)
  BY <1>1, ReserveTypes DEF ReserveSplit
<1>4. PICK l \in Orders : l = o - 1
  BY <1>3, Halves
<1>5. /\ Size[o] = Size[l] + Size[l] /\ Size[l] \in Nat /\ Size[l] >= 1 /\ l + 1 = o
      /\ i \in Nat /\ o \in Nat
  BY <1>3, <1>4, Halves, SizePositive, Constants
<1>6. PICK j \in Frames : j = i + Size[l]
  <2>1. Tiles(frames, InHand, FrameCount)
    BY <1>3 DEF BlockInv, Divided
  <2>2. frames[i].order > 0 /\ frames[i].order - 1 = l /\ FrameCount \in Nat /\ FrameCount <= FrameCount
    BY <1>2, <1>3, <1>4, Constants
  <2>3. i + Size[frames[i].order - 1] \in Frames
    BY <1>2, <1>3, <2>1, <2>2, SplitPlaces
  <2> QED BY <2>2, <2>3
<1>7. frames' = [frames EXCEPT ![i] = FreeFrame(l), ![j] = FreeFrame(l)]
  BY <1>1, <1>2, <1>4, <1>6 DEF ReserveSplit
<1>8. /\ frames'[i] = FreeFrame(l) /\ frames'[j] = FreeFrame(l)
      /\ \A f \in Frames : f # i /\ f # j => frames'[f] = frames[f]
  BY <1>3, <1>7 DEF FrameArray
<1>9. frames'[i].order = l /\ frames'[j].order = l
  BY <1>8, FrameValues
<1>10. PICK c \in Nat : i = c * Size[o]
  BY <1>2 DEF MergedOK, AllAligned, Aligned
<1>11. i = LeftHalf(c, l) /\ j = RightHalf(c, l) /\ Aligned(i, l) /\ Aligned(j, l)
  <2>1. /\ LeftHalf(c, l) = c * Size[l + 1] /\ RightHalf(c, l) = LeftHalf(c, l) + Size[l]
        /\ Aligned(LeftHalf(c, l), l) /\ Aligned(RightHalf(c, l), l)
    BY <1>5, HalvesAligned
  <2>2. i = LeftHalf(c, l)
    BY <1>5, <1>10, <2>1
  <2>3. j = RightHalf(c, l)
    BY <1>6, <2>1, <2>2
  <2> QED BY <2>1, <2>2, <2>3
<1>12. AllAligned'
  BY <1>8, <1>9, <1>11 DEF MergedOK, AllAligned
<1>13. BuddyOf(i, l) = j /\ BuddyOf(j, l) = i /\ j \in Nat
  <2>1. j \in Nat
    BY <1>5, <1>6
  <2>2. PICK d \in Nat : \/ i = LeftHalf(d, l) /\ BuddyOf(i, l) = RightHalf(d, l)
                         \/ i = RightHalf(d, l) /\ BuddyOf(i, l) = LeftHalf(d, l)
    BY <1>5, <1>11, BuddyHalf
  <2>3. BuddyOf(i, l) = j
    BY <1>11, <2>2, HalvesDiffer
  <2>4. BuddyOf(j, l) = i
    BY <1>5, <1>11, <2>3, BuddyBack
  <2> QED BY <2>1, <2>3, <2>4
<1> DEFINE r == early[call.idx]
<1>14. Overlaps(i, End(frames', i), r) \/ Overlaps(j, End(frames', j), r)
  <2>1. r \in Region
    BY <1>3, EarlyTypes
  <2>2. Overlaps(i, i + Size[o], r)
    BY <1>1, <1>2
  <2>3. End(frames', i) = j /\ End(frames', j) = i + Size[o]
    BY <1>5, <1>6, <1>9 DEF End
  <2>4. i \in Int /\ j \in Int /\ i + Size[o] \in Int
    BY <1>5, <1>13
  <2> HIDE DEF r
  <2> QED BY <2>1, <2>2, <2>3, <2>4, OverlapUnion
<1>15. ASSUME NEW f, NEW g, Buddies(f, g)'
       PROVE  Overlaps(f, End(frames', f), r) \/ Overlaps(g, End(frames', g), r)
  <2>1. /\ f \in Frames /\ g \in Frames /\ frames'[f].listed /\ frames'[g].listed
        /\ frames'[f].order < MaxOrder /\ frames'[g].order = frames'[f].order
        /\ g = BuddyOf(f, frames'[f].order)
    BY <1>15 DEF Buddies
  <2>2. /\ frames'[f].order \in Orders /\ f \in Nat
    BY <2>1, Constants DEF BlockInv, Metadata
  <2>3. f = BuddyOf(g, frames'[g].order)
    BY <1>12, <2>1, <2>2, BuddyBack DEF AllAligned
  <2>4. CASE f \in {i, j} \/ g \in {i, j}
    <3>1. (f = i /\ g = j) \/ (f = j /\ g = i)
      BY <1>9, <1>13, <2>1, <2>3, <2>4
    <3> QED BY <1>14, <3>1
  <2>5. CASE f \notin {i, j} /\ g \notin {i, j}
    <3>1. frames'[f] = frames[f] /\ frames'[g] = frames[g]
      BY <1>8, <2>1, <2>5
    <3>2. Buddies(f, g)
      BY <2>1, <3>1 DEF Buddies
    <3>3. Touches(f, early[call.idx]) \/ Touches(g, early[call.idx])
      BY <1>3, <3>2 DEF MergedOK
    <3>4. End(frames', f) = End(frames, f) /\ End(frames', g) = End(frames, g)
      BY <3>1 DEF End
    <3> QED BY <3>3, <3>4 DEF Touches
  <2> QED BY <2>4, <2>5
<1>16. ASSUME NEW f, NEW g, Buddies(f, g)'
       PROVE  Touches(f, early[call.idx])' \/ Touches(g, early[call.idx])'
  BY <1>3, <1>15, <1>16 DEF Touches, Overlaps, FirstPage, EndPage
<1> QED BY <1>3, <1>12, <1>16 DEF MergedOK, Working

\* When memory_reserve leaves a region behind, no free block touches it any more.
LEMMA MergedReserve ==
  ASSUME BlockInv, BlockInv', RegionsOK', MergedOK, Reserve
  PROVE  MergedOK'
<1>1. /\ call.at = "reserve" /\ call.idx \in Nat /\ call.idx >= 1
      /\ call.order \in Orders /\ call.order \in Nat /\ early \in Seq(Region)
      /\ UNCHANGED <<chunks, early, held>>
  BY ReserveTypes
<1>2. Len(early) \in Nat
  BY <1>1
<1>3. CASE call.idx <= Len(early) /\ Touched(call.order, early[call.idx]) # {}
  <2>1. PICK n \in 1 .. Len(freeArea[call.order]) :
          /\ Overlaps(freeArea[call.order][n], freeArea[call.order][n] + Size[call.order],
                      early[call.idx])
          /\ call' = call
          /\ \/ /\ Covered(freeArea[call.order][n], call.order, early[call.idx]) \/ call.order = 0
                /\ ReserveWhole(freeArea[call.order][n], call.order)
             \/ ReserveSplit(freeArea[call.order][n], call.order,
                             freeArea[call.order][n] + Size[call.order - 1])
    BY <1>3, ReserveCases
  <2> QED BY <1>3, <2>1, MergedWhole, MergedHalves
<1>4. CASE ~(call.idx <= Len(early) /\ Touched(call.order, early[call.idx]) # {})
  <2>1. UNCHANGED frames
    BY <1>1, <1>2, <1>4 DEF Reserve
  <2>2. AllAligned'
    BY <2>1 DEF MergedOK, AllAligned
  <2>3. \A f, g : Buddies(f, g)' <=> Buddies(f, g)
    BY <2>1 DEF Buddies
  <2>4. CASE call.idx > Len(early)
    <3>1. call'.at = "idle"
      BY <2>4 DEF Reserve, Idle, At
    <3>2. \A f, g : ~Buddies(f, g)
      BY <1>1, <1>2, <2>4 DEF MergedOK
    <3> QED BY <2>2, <2>3, <3>1, <3>2 DEF MergedOK
  <2>5. CASE call.idx <= Len(early) /\ call.order > 0
    <3>1. call'.at = "reserve" /\ call'.idx = call.idx
      BY <1>1, <1>2, <1>4, <2>5 DEF Reserve, At
    <3>2. ASSUME NEW f, NEW g, Buddies(f, g)'
          PROVE  /\ call'.idx <= Len(early')
                 /\ Touches(f, early[call.idx])' \/ Touches(g, early[call.idx])'
      <4>1. Buddies(f, g)
        BY <2>3, <3>2
      <4>2. Touches(f, early[call.idx]) \/ Touches(g, early[call.idx])
        BY <1>1, <4>1 DEF MergedOK
      <4>3. (early[call.idx])' = early[call.idx]
        BY <1>1, <3>1
      <4> QED BY <1>1, <2>1, <2>5, <3>1, <4>2, <4>3 DEF Touches, Overlaps, End, FirstPage, EndPage
    <3> QED BY <2>2, <3>1, <3>2 DEF MergedOK, Working
  <2>6. CASE call.idx <= Len(early) /\ ~(call.order > 0)
    <3>1. call'.at = "reserve" /\ call'.idx = call.idx + 1
      BY <1>1, <1>2, <1>4, <2>6 DEF Reserve, At
    <3>2. ASSUME NEW f \in Frames, frames[f].listed PROVE ~Touches(f, early[call.idx])
      <4>1. call.idx \in 1 .. Len(early) /\ call.idx < call'.idx
        BY <1>1, <1>2, <2>6, <3>1
      <4>2. \A k \in 1 .. Len(early') :
              frames'[f].listed /\ k < call'.idx => ~Overlaps(f, End(frames', f), early'[k])
        BY <3>1 DEF RegionsOK, Passed
      <4>3. ~Overlaps(f, End(frames, f), early[call.idx])
        BY <1>1, <2>1, <3>2, <4>1, <4>2
      <4> QED BY <4>3 DEF Touches
    <3>3. \A f, g : ~Buddies(f, g)
      <4> SUFFICES ASSUME NEW f, NEW g, Buddies(f, g) PROVE FALSE
        OBVIOUS
      <4>1. Touches(f, early[call.idx]) \/ Touches(g, early[call.idx])
        BY <1>1 DEF MergedOK
      <4>2. f \in Frames /\ g \in Frames /\ frames[f].listed /\ frames[g].listed
        BY DEF Buddies
      <4> QED BY <3>2, <4>1, <4>2
    <3> QED BY <2>2, <2>3, <3>1, <3>3 DEF MergedOK, Working
  <2> QED BY <1>1, <1>2, <2>4, <2>5, <2>6
<1> QED BY <1>3, <1>4

\* Every step keeps free blocks merged.
LEMMA MergedStep == BlockInv /\ BlockInv' /\ RegionsOK' /\ MergedOK /\ [Next]_vars => MergedOK'
<1> SUFFICES ASSUME BlockInv, BlockInv', RegionsOK', MergedOK, [Next]_vars PROVE MergedOK'
  OBVIOUS
<1>1. CASE UNCHANGED vars
  BY <1>1 DEF vars, MergedOK, AllAligned, Buddies, Touches, End, Working, Overlaps,
              FirstPage, EndPage
<1>2. CASE Boot
  BY <1>2, MergedStartup, MergedFill, MergedFilled, MergedReserve DEF Boot
<1>3. CASE Allocate
  <2>1. call.at = "idle"
    BY <1>3 DEF Allocate, Idle, At
  <2>2. CASE \E n \in Nat, o \in Orders, p \in Pools \cup {NoPool} :
              /\ n >= 1 /\ Fits(n, o, p) /\ (p # NoPool => o = 0 /\ chunks[p] = <<>>)
              /\ AllocPages(o, p, n)
    <3>1. PICK n \in Nat, o \in Orders, p \in Pools \cup {NoPool} : AllocPages(o, p, n)
      BY <2>2
    <3>2. UNCHANGED vars \/ \E i \in Frames, k \in Orders : TakeEffect(i, k, o, p, n)
      BY <3>1, TakeEffects
    <3> QED BY <1>1, <2>1, <3>2, MergedTake
  <2>3. CASE \E n \in Nat, p \in Pools : PopsChunk(n, p)
    <3>1. UNCHANGED <<frames, call>>
      BY <2>3 DEF PopsChunk, ChunkStep
    <3> QED BY <2>1, <3>1, MergedKept DEF Working
  <2> QED BY <1>3, <2>2, <2>3, AllocateCases
<1>4. CASE Free
  <2>1. CASE \E h \in held, p \in Pools : PushesChunk(h, p)
    <3>1. UNCHANGED <<frames, call>> /\ call.at = "idle"
      BY <2>1 DEF PushesChunk, ChunkStep
    <3> QED BY <3>1, MergedKept DEF Working
  <2>2. CASE \E h \in held : FreesBlock(h)
    BY <2>2, MergedUse
  <2> QED BY <1>4, <2>1, <2>2, FreeCases
<1>5. CASE Split \/ AllocDone \/ Merge \/ MergeDone
  BY <1>5, MergedSplit, MergedUse, MergedMerge, MergedDone
<1> QED BY <1>1, <1>2, <1>3, <1>4, <1>5 DEF Next

\* After mm_init there are never two free buddies outside the loop of free_pages.
LEMMA MergedAlways == Spec => []MergedOK
<1>1. Init => MergedOK
  <2> SUFFICES ASSUME Init PROVE MergedOK
    OBVIOUS
  <2>1. call.at = "startup" /\ \A f \in Frames : frames[f].order = -1
    BY DEF Init, At, UsedFrame
  <2> QED BY <2>1, Constants DEF MergedOK, AllAligned, Working
<1>2. BlockInv /\ BlockInv' /\ RegionsOK' /\ MergedOK /\ [Next]_vars => MergedOK'
  BY MergedStep
<1> QED BY <1>1, <1>2, Invariance, RegionsAlways, PTL DEF Spec

\* A block that shares a page with a run of a larger aligned size lies in it.
LEMMA Within ==
  ASSUME NEW o \in Orders, NEW k \in Orders, k <= o,
         NEW i \in Nat, Aligned(i, o), NEW a \in Nat, Aligned(a, k),
         NEW p \in Nat, i <= p, p < i + Size[o], a <= p, p < a + Size[k]
  PROVE  i <= a /\ a + Size[k] <= i + Size[o]
<1> DEFINE s == Size[k]
           n == Size[o]
<1>1. s \in Nat /\ s >= 1 /\ n \in Nat
  BY SizePositive
<1>2. PICK d \in Nat : d >= 1 /\ n = d * s
  BY SizesDivide
<1>3. PICK t \in Nat : i = t * n
  BY DEF Aligned
<1>4. PICK x \in Nat : a = x * s
  BY DEF Aligned
<1>5. i <= p /\ p < i + n /\ a <= p /\ p < a + s
  OBVIOUS
<1> HIDE DEF s, n
<1> DEFINE y == t * d
<1>6. y \in Nat /\ i = y * s /\ i + n = (y + d) * s
  BY <1>1, <1>2, <1>3
<1> HIDE DEF y
<1>7. x * s < (y + d) * s /\ y * s < (x + 1) * s
  <2>1. (x + 1) * s = x * s + s
    BY <1>1
  <2> QED BY <1>1, <1>4, <1>5, <1>6, <2>1
<1>8. x < y + d /\ y < x + 1
  BY <1>1, <1>6, <1>7, Multiples
<1>9. x + 1 <= y + d /\ y <= x
  BY <1>6, <1>8
<1>10. (x + 1) * s <= (y + d) * s /\ y * s <= x * s
  BY <1>1, <1>6, <1>9, Multiples
<1>11. (x + 1) * s = x * s + s
  BY <1>1
<1> QED BY <1>4, <1>6, <1>10, <1>11 DEF s, n

\* A page in a block of a list.
LEMMA InFreeBlock ==
  ASSUME BlockInv, MergedOK, NEW p, \E b \in FreeBlocks : p \in PagesOf(b[1], b[2])
  PROVE  \E g \in Frames, k \in Orders :
           /\ frames[g].listed /\ frames[g].order = k /\ g <= p /\ p < g + Size[k]
           /\ g \in Nat /\ Aligned(g, k)
<1>1. PICK b \in FreeBlocks : p \in PagesOf(b[1], b[2])
  OBVIOUS
<1>2. PICK g \in Frames, k \in Orders : b = <<g, k>>
  BY DEF FreeBlocks
<1>3. frames[g].listed /\ frames[g].order = k
  BY <1>1, <1>2 DEF FreeBlocks
<1>4. g \in Nat /\ Size[k] \in Nat
  BY Constants, SizePositive
<1>5. p \in g .. g + Size[k] - 1
  BY <1>1, <1>2 DEF PagesOf
<1>6. Aligned(g, k)
  BY <1>3 DEF MergedOK, AllAligned
<1> QED BY <1>3, <1>4, <1>5, <1>6

\* If all lists from o up are empty, every free block is smaller.
LEMMA FreeSmaller ==
  ASSUME BlockInv, NEW o \in Orders, Available(o) = {}, NEW f \in Frames, frames[f].listed
  PROVE  frames[f].order < o
<1> DEFINE k == frames[f].order
<1>1. k \in Orders /\ k \in Nat /\ o \in Nat
  BY ListedOrder, Constants
<1>2. Lists(freeArea, k, f)
  BY <1>1 DEF BlockInv, ListsOK
<1>3. freeArea[k] # <<>>
  BY <1>2 DEF Lists, On
<1>4. ~(o <= k)
  BY <1>1, <1>3 DEF Available
<1> QED BY <1>1, <1>4

\* The smallest free block in a run of free pages has a buddy in the run, which is
\* neither part of a larger free block nor split: they would have been merged.
LEMMA RunMerged ==
  ASSUME BlockInv, MergedOK, Working, NEW o \in Orders, NEW i \in Frames,
         i % Size[o] = 0, i + Size[o] <= FrameCount,
         \A f \in PagesOf(i, o) : \E b \in FreeBlocks : f \in PagesOf(b[1], b[2]),
         Available(o) = {}
  PROVE  FALSE
<1> DEFINE S == {k \in Orders : \E b \in Frames : /\ frames[b].listed /\ frames[b].order = k
                                                  /\ i <= b /\ b < i + Size[o]}
<1>1. i \in Nat /\ Size[o] \in Nat /\ Size[o] >= 1 /\ Aligned(i, o) /\ o \in Nat
  BY Constants, SizePositive, ModAligned
<1>2. \A p \in Nat : i <= p /\ p < i + Size[o] => p \in PagesOf(i, o)
  BY <1>1 DEF PagesOf
<1>3. \A f \in Frames : frames[f].listed => frames[f].order < o
  BY FreeSmaller
<1>4. S # {}
  <2>1. i \in PagesOf(i, o)
    BY <1>1, <1>2
  <2>2. PICK g \in Frames, k \in Orders :
          /\ frames[g].listed /\ frames[g].order = k /\ g <= i /\ i < g + Size[k]
          /\ g \in Nat /\ Aligned(g, k)
    BY <2>1, InFreeBlock
  <2>3. k < o /\ k \in Nat
    BY <1>3, <2>2, Constants
  <2>4. k <= o /\ i < i + Size[o]
    BY <1>1, <2>3
  <2>5. i <= g
    BY <1>1, <2>2, <2>4, Within
  <2>6. g = i
    BY <1>1, <2>2, <2>5
  <2> QED BY <2>2, <2>4, <2>6
<1>5. PICK m \in S : \A k \in S : m <= k
  <2>1. S \in SUBSET Nat
    BY Constants
  <2> QED BY <1>4, <2>1, LeastNatural
<1>6. PICK b \in Frames : /\ frames[b].listed /\ frames[b].order = m /\ i <= b
                          /\ b < i + Size[o]
  BY <1>5
<1>7. m \in Orders /\ m \in Nat /\ m < o /\ b \in Nat
  BY <1>3, <1>5, <1>6, Constants
<1>8. m + 1 \in Orders /\ m + 1 <= o /\ m < MaxOrder
  BY <1>1, <1>7, Constants DEF Orders
<1>9. Aligned(b, m)
  BY <1>6, <1>7 DEF MergedOK, AllAligned
<1> DEFINE e == BuddyOf(b, m)
<1>10. PICK c \in Nat : \/ b = LeftHalf(c, m) /\ e = RightHalf(c, m)
                        \/ b = RightHalf(c, m) /\ e = LeftHalf(c, m)
  BY <1>7, <1>9, BuddyHalf
<1> DEFINE u == LeftHalf(c, m)
<1>11. /\ u \in Nat /\ Aligned(u, m + 1) /\ Size[m + 1] = 2 * Size[m]
       /\ RightHalf(c, m) = u + Size[m] /\ Size[m] \in Nat /\ Size[m] >= 1
       /\ Size[m + 1] \in Nat
  BY <1>7, <1>8, HalvesAligned, SizePositive
<1>12. e \in Nat /\ Aligned(e, m)
  BY <1>7, <1>9, BuddyBack
<1> HIDE DEF e, u
<1>13. /\ u <= b /\ b < u + Size[m + 1] /\ u <= e /\ e < u + Size[m + 1]
  BY <1>7, <1>10, <1>11, <1>12 DEF u
<1>14. i <= u /\ u + Size[m + 1] <= i + Size[o]
  BY <1>1, <1>6, <1>7, <1>8, <1>11, <1>13, Within
<1>15. i <= e /\ e < i + Size[o]
  BY <1>1, <1>11, <1>12, <1>13, <1>14
<1>16. PICK g \in Frames, k \in Orders :
         /\ frames[g].listed /\ frames[g].order = k /\ g <= e /\ e < g + Size[k]
         /\ g \in Nat /\ Aligned(g, k)
  <2>1. e \in PagesOf(i, o)
    BY <1>2, <1>12, <1>15
  <2> QED BY <2>1, InFreeBlock
<1>17. k < o /\ k \in Nat /\ k <= o /\ Size[k] \in Nat /\ Size[k] >= 1
  BY <1>1, <1>3, <1>16, Constants, SizePositive
<1>18. i <= g /\ g + Size[k] <= i + Size[o]
  BY <1>1, <1>12, <1>15, <1>16, <1>17, Within
<1>19. m <= k
  <2>1. g < i + Size[o]
    BY <1>1, <1>16, <1>17, <1>18
  <2>2. k \in S
    BY <1>16, <1>18, <2>1
  <2> QED BY <1>5, <2>2
<1>20. CASE k = m
  <2>1. e <= g
    BY <1>7, <1>11, <1>12, <1>16, <1>20, Within
  <2>2. g = e
    BY <1>12, <1>16, <2>1
  <2>3. Buddies(b, e)
    BY <1>6, <1>8, <1>16, <1>20, <2>2 DEF Buddies, e
  <2> QED BY <2>3 DEF MergedOK
<1>21. CASE m < k
  <2>1. m + 1 <= k
    BY <1>7, <1>17, <1>21
  <2>2. g <= u /\ u + Size[m + 1] <= g + Size[k]
    BY <1>8, <1>11, <1>12, <1>13, <1>16, <2>1, Within
  <2>3. g <= b /\ b < g + Size[k]
    BY <1>7, <1>11, <1>13, <1>16, <1>17, <2>2
  <2>4. b <= b /\ b < b + Size[m]
    BY <1>7, <1>11
  <2>5. Live(frames, InHand, b) /\ Live(frames, InHand, g)
    BY <1>6, <1>7, <1>16, Constants DEF Live
  <2>6. End(frames, b) = b + Size[m] /\ End(frames, g) = g + Size[k]
    BY <1>6, <1>16 DEF End
  <2>7. b = g
    BY <2>3, <2>4, <2>5, <2>6, OneBlock
  <2> QED BY <1>6, <1>7, <1>16, <1>21, <2>7
<1> QED BY <1>7, <1>17, <1>19, <1>20, <1>21

\* free_pages merges as far as possible, in memories of every size: a request for 2^o
\* pages fails only if no aligned run of 2^o free pages exists.
THEOREM NeverFragmented == Spec => []Unfragmented
<1>1. BlockInv /\ MergedOK => Unfragmented
  <2> SUFFICES ASSUME BlockInv, MergedOK, call = Idle, NEW o \in Orders, NEW i \in Frames,
                      i % Size[o] = 0, i + Size[o] <= FrameCount,
                      \A f \in PagesOf(i, o) : \E b \in FreeBlocks : f \in PagesOf(b[1], b[2])
               PROVE  Available(o) # {}
    BY DEF Unfragmented
  <2>1. Working
    BY DEF Working, Idle, At
  <2> QED BY <2>1, RunMerged
<1> QED BY <1>1, Invariance, MergedAlways, PTL
=============================================================================
