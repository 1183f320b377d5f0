----------------------------- MODULE BootProofs -----------------------------
(***************************************************************************)
(* Proofs about Boot and the page tables of Vm, for every number of table  *)
(* entries, size of memory, set of device windows and pool of pages, and   *)
(* about the readers of Cpio and Fdt, for every archive in the newc format *)
(* and every device tree blob.                                             *)
(***************************************************************************)
EXTENDS BootProps, NatFacts, FiniteSetTheorems

(***************************************************************************)
(* The three indices of a virtual page.                                    *)
(***************************************************************************)
GibPages == Entries * Entries

LEMMA Sizes ==
  /\ Entries \in Nat /\ Entries > 1 /\ KernelBase \in Nat /\ KernelBase >= 1
  /\ KernelBase + KernelBase <= Entries
  /\ EarlyGib \in 1 .. KernelBase
  /\ GibPages \in Nat /\ GibPages > 0 /\ Entries * Entries * Entries = Entries * GibPages
<1>1. Entries \in Nat /\ Entries > 1 /\ EarlyGib \in 1 .. KernelBase
  BY VmAssumption
<1>2. KernelBase \in Nat /\ KernelBase >= 1 /\ KernelBase + KernelBase <= Entries
  BY <1>1 DEF KernelBase
<1>3. GibPages \in Nat /\ GibPages > 0 /\ Entries * Entries * Entries = Entries * GibPages
  BY <1>1 DEF GibPages
<1> QED BY <1>1, <1>2, <1>3

\* Every three indices are those of one virtual page.
LEMMA Compose ==
  ASSUME NEW a \in Index, NEW b \in Index, NEW c \in Index,
         NEW v, v = a * GibPages + (b * Entries + c)
  PROVE  v \in VPages /\ Vpn2(v) = a /\ Vpn1(v) = b /\ Vpn0(v) = c
<1> DEFINE m == a * Entries + b
           r == b * Entries + c
<1>1. Entries \in Nat /\ Entries > 1 /\ GibPages \in Nat /\ GibPages > 0
  BY Sizes
<1>2. a \in Nat /\ a <= Entries - 1 /\ b \in Nat /\ b <= Entries - 1 /\ c \in 0 .. Entries - 1
  BY <1>1 DEF Index
<1>3. b * Entries \in Nat /\ b * Entries <= (Entries - 1) * Entries
  BY <1>1, <1>2, TimesMonotone
<1>4. (Entries - 1) * Entries = GibPages - Entries
  BY <1>1 DEF GibPages
<1>5. r \in 0 .. GibPages - 1
  BY <1>1, <1>2, <1>3, <1>4
<1>6. m \in Nat /\ a * GibPages = (a * Entries) * Entries /\ a * Entries \in Nat
  BY <1>1, <1>2 DEF GibPages
<1>7. m * Entries = (a * Entries) * Entries + b * Entries
  BY <1>1, <1>2, <1>6
<1>8. v = GibPages * a + r
  BY <1>1, <1>2, <1>5
<1>9. v = Entries * m + c
  <2>1. Entries * m = m * Entries /\ m * Entries \in Nat /\ a * GibPages \in Nat
    BY <1>1, <1>2, <1>6
  <2> HIDE DEF m
  <2> QED BY <2>1, <1>2, <1>3, <1>6, <1>7
<1>10. Vpn2(v) = a
  <2> HIDE DEF r
  <2> QED BY <1>1, <1>2, <1>5, <1>8, DivModUnique DEF Vpn2, GibPages
<1>11. v \div Entries = m /\ v % Entries = c
  <2> HIDE DEF m
  <2> QED BY <1>1, <1>2, <1>6, <1>9, DivModUnique
<1>12. m = Entries * a + b
  BY <1>1, <1>2
<1>13. m % Entries = b
  <2>1. a \in Int /\ b \in 0 .. Entries - 1
    BY <1>1, <1>2
  <2> HIDE DEF m
  <2> QED BY <1>1, <1>12, <2>1, DivModUnique
<1>14. v \in VPages
  <2>1. a * GibPages \in Nat /\ a * GibPages <= (Entries - 1) * GibPages
    BY <1>1, <1>2, TimesMonotone
  <2>2. (Entries - 1) * GibPages = Entries * Entries * Entries - GibPages
    BY <1>1 DEF GibPages
  <2>3. Entries * Entries * Entries \in Nat
    BY <1>1
  <2>4. v = a * GibPages + r
    OBVIOUS
  <2> HIDE DEF r
  <2> QED BY <1>1, <1>5, <2>1, <2>2, <2>3, <2>4 DEF VPages
<1> QED BY <1>10, <1>11, <1>13, <1>14 DEF Vpn1, Vpn0

\* A virtual page is its three indices.
LEMMA Digits ==
  ASSUME NEW v \in VPages
  PROVE  /\ Vpn2(v) \in Index /\ Vpn1(v) \in Index /\ Vpn0(v) \in Index
         /\ v = Vpn2(v) * GibPages + (Vpn1(v) * Entries + Vpn0(v))
<1> DEFINE m == v \div Entries
           a == m \div Entries
           b == m % Entries
           c == v % Entries
<1>1. Entries \in Nat /\ Entries > 1 /\ GibPages \in Nat /\ GibPages > 0
      /\ Entries * Entries * Entries = Entries * GibPages
  BY Sizes
<1>2. v \in Int /\ 0 <= v /\ v < Entries * GibPages
  BY <1>1 DEF VPages
<1>3. m \in Int /\ c \in 0 .. Entries - 1 /\ v = Entries * m + c
  BY <1>1, <1>2, ModFacts, DivFacts
<1> HIDE DEF m, c
<1>4. m >= 0
  <2>1. ASSUME m <= -1 PROVE FALSE
    <3>1. m * Entries <= (-1) * Entries /\ m * Entries \in Int
      BY <1>1, <1>3, <2>1, TimesMonotone
    <3>2. Entries * m = m * Entries
      BY <1>1, <1>3
    <3> QED BY <1>1, <1>2, <1>3, <3>1, <3>2
  <2> QED BY <1>3, <2>1
<1>5. a \in Int /\ b \in 0 .. Entries - 1 /\ m = Entries * a + b
  BY <1>1, <1>3, ModFacts, DivFacts
<1> HIDE DEF a, b
<1>6. a >= 0
  <2>1. ASSUME a <= -1 PROVE FALSE
    <3>1. a * Entries <= (-1) * Entries /\ a * Entries \in Int
      BY <1>1, <1>5, <2>1, TimesMonotone
    <3>2. Entries * a = a * Entries
      BY <1>1, <1>5
    <3> QED BY <1>1, <1>3, <1>4, <1>5, <3>1, <3>2
  <2> QED BY <1>5, <2>1
<1>7. v = a * GibPages + (b * Entries + c)
  <2> QED BY <1>1, <1>3, <1>5 DEF GibPages
<1>8. a < Entries
  <2>1. ASSUME Entries <= a PROVE FALSE
    <3>1. Entries * GibPages <= a * GibPages /\ a * GibPages \in Int
      BY <1>1, <1>5, <2>1, TimesMonotone
    <3>2. b * Entries \in Nat
      BY <1>1, <1>5
    <3> QED BY <1>1, <1>2, <1>3, <1>7, <3>1, <3>2
  <2> QED BY <1>1, <1>5, <2>1
<1>9. a \in Index /\ b \in Index /\ c \in Index
  <2> QED BY <1>1, <1>3, <1>5, <1>6, <1>8 DEF Index
<1>10. Vpn2(v) = a /\ Vpn1(v) = b /\ Vpn0(v) = c
  BY <1>7, <1>9, Compose
<1> QED BY <1>7, <1>9, <1>10

(***************************************************************************)
(* The inductive invariant.                                                *)
(***************************************************************************)
Unpaged == {"start", "stack"}             \* the MMU is off
Bridged == {"paged", "high", "moved"}     \* the identity map is still there

Early == Static .. Static + EarlyGib + EarlyPtes

\* What setup_vm writes to each of the early tables.
FirstTable(p) ==
  IF p = EarlyPgd THEN EarlyPgdTable
  ELSE IF p <= Static + EarlyGib
  THEN [i \in Index |-> PmdEntry((p - Static - 1) * Entries + i)]
  ELSE IF p - Static - EarlyGib \in Windows
  THEN MmioTable(Mmio[p - Static - EarlyGib])
  ELSE EmptyTable

KernelPgd == [i \in Index |-> IF i \in LowHalf THEN None ELSE EarlyPgdTable[i]]

\* The early tables are those of setup_vm for ever, but for the identity map.
EarlyTables ==
  /\ stage \in Unpaged => satp = Bare /\ DOMAIN tables = {}
  /\ stage \notin Unpaged =>
       /\ satp = EarlyPgd /\ Early \subseteq DOMAIN tables
       /\ \A p \in Early \ {EarlyPgd} : tables[p] = FirstTable(p)
       /\ tables[EarlyPgd] = IF stage \in Bridged THEN EarlyPgdTable ELSE KernelPgd
  /\ stage # "vmtest" => DOMAIN tables \subseteq Early /\ call = Idle /\ spaces = {}

Types ==
  /\ free \subseteq Pool /\ DOMAIN tables \cap free = {}
  /\ DOMAIN tables \subseteq Early \cup Pool
  /\ spaces \subseteq DOMAIN tables \ Early
  /\ \A p \in DOMAIN tables : DOMAIN tables[p] = Index

\* The entries of the tables outside Early, but for the kernel half of each PGD.
UserEntry(p, i) == p \in DOMAIN tables \ Early /\ i \in Index /\ (p \in spaces => i < KernelBase)
Links(p, i) == UserEntry(p, i) /\ tables[p][i].is = "node"

UserEntries ==
  {None} \cup {Node(q) : q \in (DOMAIN tables \ Early) \ spaces} \cup {Leaf(q, UserProt) : q \in Pool}

\* Every address space has the kernel half.
KernelShared ==
  \A s \in spaces : \A i \in Index : i >= KernelBase => tables[s][i] = EarlyPgdTable[i]

EntriesOK == \A p \in DOMAIN tables, i \in Index : UserEntry(p, i) => tables[p][i] \in UserEntries

\* A table has one place in one table.
OneParent ==
  \A p, q \in DOMAIN tables, i, j \in Index :
    Links(p, i) /\ Links(q, j) /\ tables[p][i].to = tables[q][j].to => p = q /\ i = j

\* User tables have three levels: the leaves are in the third, and only there.
Levels ==
  /\ \A s \in spaces, i \in Index : UserEntry(s, i) => tables[s][i].is # "leaf"
  /\ \A s \in spaces, i, j \in Index : Links(s, i) => tables[tables[s][i].to][j].is # "leaf"
  /\ \A p \in DOMAIN tables \ spaces, i, j \in Index :
       Links(p, i) => tables[tables[p][i].to][j].is # "node"

Trees3 == KernelShared /\ EntriesOK /\ OneParent /\ Levels

\* The request of map_pages_to.
Request ==
  call # Idle =>
    /\ call \in [at : {"map", "done", "failed"}, pgd : spaces, va : UserVas, n : 1 .. 2,
                 pa : Pool, prot : {UserProt}, i : 0 .. 2]
    /\ call.pa .. call.pa + call.n - 1 \subseteq Pool
    /\ call.i <= call.n
    /\ call.at = "done" => call.i = call.n
    /\ call.at = "failed" => call.i < call.n

IsLow(n) == stage \in {"start", "stack", "paged"} \/ (stage = "high" /\ n # "pc")

Pointers ==
  /\ \A n \in DOMAIN ptr :
       /\ ptr[n].pa \in Pages
       /\ ptr[n].va = IF IsLow(n) THEN ptr[n].pa ELSE High(ptr[n].pa)
       /\ n \in {"pc", "stvec"} => ptr[n].pa = Text
       /\ n \in {"uart", "plic"} => InWindow(ptr[n].pa)
  /\ stage \in {"start", "stack", "paged", "high"} => DOMAIN ptr \subseteq {"pc", "sp"}

\* Nothing changes the device tree before its last reader.
TreeGiven == stage \in {"start", "stack", "uart"} \cup Bridged \cup {"dropped"} => tree \in Trees

Inv == EarlyTables /\ Types /\ Trees3 /\ Request /\ Pointers /\ TreeGiven

(***************************************************************************)
(* What the early tables map.                                              *)
(***************************************************************************)
Prot(p) == IF InWindow(p) THEN MmioProt ELSE KernelProt

\* A physical page and its address in the higher half differ in the first index.
LEMMA PageIndices ==
  ASSUME NEW p \in Pages
  PROVE  /\ p \in VPages /\ Vpn2(p) \in 0 .. EarlyGib - 1
         /\ High(p) \in VPages /\ Vpn2(High(p)) = KernelBase + Vpn2(p)
         /\ Vpn1(High(p)) = Vpn1(p) /\ Vpn0(High(p)) = Vpn0(p)
<1>1. /\ Entries \in Nat /\ Entries > 1 /\ KernelBase \in Nat /\ KernelBase >= 1
      /\ KernelBase + KernelBase <= Entries /\ EarlyGib \in 1 .. KernelBase
      /\ GibPages \in Nat /\ GibPages > 0 /\ Entries * Entries * Entries = Entries * GibPages
  BY Sizes
<1>2. p \in Int /\ 0 <= p /\ p < EarlyGib * GibPages
  <2>1. EarlyGib * Entries * Entries = EarlyGib * GibPages
    BY <1>1 DEF GibPages
  <2> QED BY <1>1, <2>1 DEF Pages
<1>3. EarlyGib * GibPages <= Entries * GibPages /\ Entries * GibPages \in Int
      /\ EarlyGib * GibPages \in Int
  BY <1>1, TimesMonotone
<1>4. p \in VPages
  BY <1>1, <1>2, <1>3 DEF VPages
<1> DEFINE a == Vpn2(p)
           r == Vpn1(p) * Entries + Vpn0(p)
<1>5. a \in Index /\ Vpn1(p) \in Index /\ Vpn0(p) \in Index /\ p = a * GibPages + r
  BY <1>4, Digits
<1>6. a \in Nat /\ r \in Nat /\ a * GibPages \in Nat
  BY <1>1, <1>5 DEF Index
<1>7. High(p) = (KernelBase + a) * GibPages + r
  <2>1. High(p) = KernelBase * GibPages + p
    BY <1>1, <1>2 DEF High, GibPages
  <2>2. (KernelBase + a) * GibPages = KernelBase * GibPages + a * GibPages
    BY <1>1, <1>6
  <2>3. KernelBase * GibPages \in Int
    BY <1>1
  <2> HIDE DEF a, r
  <2> QED BY <1>5, <1>6, <2>1, <2>2, <2>3
<1> HIDE DEF a
<1>8. a < EarlyGib
  <2>1. ASSUME EarlyGib <= a PROVE FALSE
    <3>1. EarlyGib * GibPages <= a * GibPages
      BY <1>1, <1>6, <2>1, TimesMonotone
    <3> HIDE DEF r
    <3> QED BY <1>2, <1>3, <1>5, <1>6, <3>1
  <2> QED BY <1>1, <1>6, <2>1
<1>9. KernelBase + a \in Index
  BY <1>1, <1>6, <1>8 DEF Index
<1>10. High(p) \in VPages /\ Vpn2(High(p)) = KernelBase + a /\ Vpn1(High(p)) = Vpn1(p)
       /\ Vpn0(High(p)) = Vpn0(p)
  BY <1>5, <1>7, <1>9, Compose
<1> QED BY <1>1, <1>4, <1>6, <1>8, <1>10 DEF a

\* The first index tells whether a page is in the early memory, or its image.
LEMMA IndexPages ==
  ASSUME NEW v \in VPages, NEW g \in 0 .. EarlyGib - 1
  PROVE  /\ g * GibPages + (Vpn1(v) * Entries + Vpn0(v)) \in Pages
         /\ Vpn2(v) = g => v = g * GibPages + (Vpn1(v) * Entries + Vpn0(v))
         /\ Vpn2(v) = KernelBase + g
              => v = High(g * GibPages + (Vpn1(v) * Entries + Vpn0(v)))
<1>1. /\ Entries \in Nat /\ Entries > 1 /\ KernelBase \in Nat /\ KernelBase >= 1
      /\ EarlyGib \in 1 .. KernelBase /\ KernelBase + KernelBase <= Entries
      /\ GibPages \in Nat /\ GibPages > 0
  BY Sizes
<1> DEFINE r == Vpn1(v) * Entries + Vpn0(v)
           p == g * GibPages + r
<1>2. Vpn1(v) \in Index /\ Vpn0(v) \in Index /\ v = Vpn2(v) * GibPages + r
  BY Digits
<1>3. g \in Nat /\ g + 1 <= EarlyGib
  BY <1>1
<1>4. r \in 0 .. GibPages - 1
  <2>1. Vpn1(v) \in Nat /\ Vpn1(v) <= Entries - 1 /\ Vpn0(v) \in 0 .. Entries - 1
    BY <1>1, <1>2 DEF Index
  <2>2. Vpn1(v) * Entries \in Nat /\ Vpn1(v) * Entries <= (Entries - 1) * Entries
    BY <1>1, <2>1, TimesMonotone
  <2>3. (Entries - 1) * Entries = GibPages - Entries
    BY <1>1 DEF GibPages
  <2> QED BY <1>1, <2>1, <2>2, <2>3
<1> HIDE DEF r
<1>5. p \in Nat /\ p < EarlyGib * GibPages
  <2>1. (g + 1) * GibPages <= EarlyGib * GibPages /\ EarlyGib * GibPages \in Int
    BY <1>1, <1>3, TimesMonotone
  <2>2. (g + 1) * GibPages = g * GibPages + GibPages /\ g * GibPages \in Nat
    BY <1>1, <1>3
  <2> QED BY <1>1, <1>4, <2>1, <2>2
<1>6. p \in Pages
  <2>1. EarlyGib * Entries * Entries = EarlyGib * GibPages
    BY <1>1 DEF GibPages
  <2>2. EarlyGib * GibPages \in Int
    BY <1>1
  <2> HIDE DEF p
  <2> QED BY <1>5, <2>1, <2>2 DEF Pages
<1>7. ASSUME Vpn2(v) = KernelBase + g PROVE v = High(p)
  <2>1. (KernelBase + g) * GibPages = KernelBase * GibPages + g * GibPages
    BY <1>1, <1>3
  <2>2. KernelBase * GibPages \in Int /\ g * GibPages \in Int
    BY <1>1, <1>3
  <2>3. v = KernelBase * GibPages + p
    BY <1>2, <1>4, <1>7, <2>1, <2>2
  <2>4. KernelBase * GibPages = KernelBase * Entries * Entries
    BY <1>1 DEF GibPages
  <2> QED BY <2>3, <2>4 DEF High
<1> QED BY <1>2, <1>6, <1>7 DEF r

\* Translate, for any contents of the tables.
Walk(tb, root, v) ==
  LET top == tb[root][Vpn2(v)]
      mid == tb[top.to][Vpn1(v)]
  IN  IF top.is = "none" \/ mid.is = "none" THEN None
      ELSE IF mid.is = "leaf" THEN [mid EXCEPT !.to = @ + Vpn0(v)]
      ELSE tb[mid.to][Vpn0(v)]

LEMMA TranslateIsWalk ==
  /\ \A root, v : Translate(root, v) = Walk(tables, root, v)
  /\ \A root, v : Translate(root, v)' = Walk(tables', root, v)
BY DEF Translate, Walk

\* early_pte has room for every window.
LEMMA AllWindows == DOMAIN Mmio = Windows
<1>1. Mmio \in Seq(0 .. EarlyGib * Entries - 1) /\ Len(Mmio) <= EarlyPtes /\ EarlyPtes \in Nat
  BY VmAssumption, BootAssumption
<1>2. DOMAIN Mmio = 1 .. Len(Mmio) /\ Len(Mmio) \in Nat
  BY <1>1
<1>3. \A k \in DOMAIN Mmio : k <= EarlyPtes
  BY <1>1, <1>2
<1> QED BY <1>3 DEF Windows

\* Below an entry for a gigabyte, the early tables lead to its pages in order.
LEMMA WalkEarly ==
  ASSUME NEW tb, \A q \in Early \ {EarlyPgd} : tb[q] = FirstTable(q),
         NEW g \in 0 .. EarlyGib - 1, NEW v \in VPages, NEW root,
         tb[root][Vpn2(v)] = Node(EarlyPmd(g)),
         NEW p, p = g * GibPages + (Vpn1(v) * Entries + Vpn0(v))
  PROVE  Walk(tb, root, v) = Leaf(p, Prot(p))
<1>1. /\ Entries \in Nat /\ Entries > 1 /\ EarlyGib \in Nat /\ GibPages \in Nat
      /\ EarlyPtes \in Nat /\ Static \in Nat /\ Len(Mmio) <= EarlyPtes
      /\ Mmio \in Seq(0 .. EarlyGib * Entries - 1)
  BY Sizes, VmAssumption, BootAssumption
<1> DEFINE b == Vpn1(v)
           c == Vpn0(v)
           w == g * Entries + b
<1>2. b \in Index /\ c \in Index
  BY Digits
<1>3. b \in Nat /\ c \in 0 .. Entries - 1 /\ w \in Nat
  <2>1. b \in Nat /\ c \in 0 .. Entries - 1 /\ g \in Nat
    BY <1>1, <1>2 DEF Index
  <2>2. g * Entries \in Nat
    BY <1>1, <2>1
  <2> QED BY <2>1, <2>2
<1>4. tb[EarlyPmd(g)][b] = PmdEntry(w)
  <2>1. EarlyPmd(g) \in Early \ {EarlyPgd} /\ EarlyPmd(g) <= Static + EarlyGib
        /\ EarlyPmd(g) - Static - 1 = g
    BY <1>1 DEF EarlyPmd, Early, EarlyPgd
  <2>2. FirstTable(EarlyPmd(g)) = [i \in Index |-> PmdEntry(g * Entries + i)]
    BY <2>1 DEF FirstTable
  <2> HIDE DEF b
  <2> QED BY <1>2, <2>1, <2>2
<1> HIDE DEF b, c
<1>5. p = Entries * w + c /\ p = w * Entries + c
  <2>1. w * Entries = g * GibPages + b * Entries /\ Entries * w = w * Entries
    BY <1>1, <1>3 DEF GibPages
  <2>2. g * GibPages \in Int /\ b * Entries \in Int
    BY <1>1, <1>3
  <2> HIDE DEF w
  <2> QED BY <1>3, <2>1, <2>2 DEF b, c
<1> HIDE DEF w
<1>6. p \in Pages /\ p \div Entries = w
  <2>1. p \in Pages
    BY IndexPages
  <2>2. p \div Entries = w
    <3>1. (Entries * w + c) \div Entries = w
      <4>1. Entries > 0 /\ w \in Int
        BY <1>1, <1>3
      <4> QED BY <1>1, <1>3, <4>1, DivModUnique
    <3> QED BY <1>5, <3>1
  <2> QED BY <2>1, <2>2
<1>7. InWindow(p) <=> \E k \in DOMAIN Mmio : Mmio[k] = w
  BY <1>6 DEF InWindow
<1>8. DOMAIN Mmio = Windows
  BY AllWindows
<1>9. Node(EarlyPmd(g)).is = "node" /\ Node(EarlyPmd(g)).to = EarlyPmd(g)
  BY DEF Node
<1>10. CASE InWindow(p)
  <2> DEFINE k == CHOOSE i \in Windows : Mmio[i] = w
  <2>1. k \in Windows /\ Mmio[k] = w /\ PmdEntry(w) = Node(EarlyPte(k))
    BY <1>7, <1>8, <1>10 DEF PmdEntry
  <2> HIDE DEF k
  <2>2. k \in 1 .. EarlyPtes
    BY <1>1, <2>1 DEF Windows
  <2>3. EarlyPte(k) \in Early \ {EarlyPgd} /\ ~(EarlyPte(k) <= Static + EarlyGib)
        /\ EarlyPte(k) - Static - EarlyGib = k
    BY <1>1, <2>2 DEF EarlyPte, Early, EarlyPgd
  <2>4. tb[EarlyPte(k)] = MmioTable(w)
    BY <2>1, <2>3 DEF FirstTable
  <2>5. tb[EarlyPte(k)][c] = Leaf(p, MmioProt)
    BY <1>2, <1>5, <2>4 DEF MmioTable, c
  <2>6. tb[EarlyPmd(g)][b].is = "node" /\ tb[EarlyPmd(g)][b].to = EarlyPte(k)
    BY <1>4, <2>1 DEF Node
  <2> QED BY <1>9, <1>10, <2>5, <2>6 DEF Walk, Prot, b, c
<1>11. CASE ~InWindow(p)
  <2>1. PmdEntry(w) = Leaf(w * Entries, KernelProt)
    BY <1>7, <1>8, <1>11 DEF PmdEntry
  <2>2. tb[EarlyPmd(g)][b].is = "leaf"
        /\ [tb[EarlyPmd(g)][b] EXCEPT !.to = @ + c] = Leaf(w * Entries + c, KernelProt)
    BY <1>4, <2>1 DEF Leaf
  <2> QED BY <1>5, <1>9, <1>11, <2>2 DEF Walk, Prot, b, c
<1> QED BY <1>10, <1>11

(***************************************************************************)
(* How the steps of map_pages_to and vm_create_user_pgd change user        *)
(* tables.                                                                 *)
(***************************************************************************)
LEMMA EntryFacts ==
  /\ None.is = "none"
  /\ \A p : Node(p).is = "node" /\ Node(p).to = p
  /\ \A p, prot : Leaf(p, prot).is = "leaf" /\ Leaf(p, prot).to = p
BY DEF None, Node, Leaf

LEMMA EarlyApart ==
  /\ EarlyPgd \in Early /\ Early \cap Pool = {} /\ Pool \subseteq Pages /\ Early \subseteq Pages
  /\ -1 \notin Early /\ Pages \subseteq Nat
<1>1. /\ Static \in Nat /\ EarlyGib \in Nat /\ EarlyPtes \in Nat
      /\ Static + EarlyGib + EarlyPtes \in Pages
      /\ Pool \subseteq Pages \ (Static .. Static + EarlyGib + EarlyPtes)
  BY Sizes, VmAssumption
<1>2. Early \subseteq Pages
  <2>1. EarlyGib * Entries * Entries \in Int
    BY Sizes
  <2> QED BY <1>1, <2>1 DEF Early, Pages
<1>3. Pages \subseteq Nat
  BY DEF Pages
<1> QED BY <1>1, <1>2, <1>3 DEF Early, EarlyPgd

\* An entry that is a node leads to a user table that is not a PGD.
LEMMA LinkTarget ==
  ASSUME Types, EntriesOK, NEW p \in DOMAIN tables, NEW i \in Index, Links(p, i)
  PROVE  /\ tables[p][i].to \in (DOMAIN tables \ Early) \ spaces
         /\ tables[p][i] = Node(tables[p][i].to)
         /\ \A j \in Index : UserEntry(tables[p][i].to, j)
BY EntryFacts DEF Links, EntriesOK, UserEntries, UserEntry

\* walk_create makes p a new table and links it.
Linked(from, at, p) ==
  /\ DOMAIN tables' = DOMAIN tables \cup {p}
  /\ DOMAIN tables'[p] = Index /\ \A j \in Index : tables'[p][j] = None
  /\ tables'[from][at] = Node(p)
  /\ \A q \in DOMAIN tables \ {from} : tables'[q] = tables[q]
  /\ \A q \in DOMAIN tables, j \in Index :
       /\ DOMAIN tables'[q] = Index
       /\ ~(q = from /\ j = at) => tables'[q][j] = tables[q][j]

LEMMA LinkEffect ==
  ASSUME Types, NEW from \in DOMAIN tables, NEW at \in Index, NEW p, p \notin DOMAIN tables,
         tables' = NewTable([tables EXCEPT ![from][at] = Node(p)], p, EmptyTable)
  PROVE  Linked(from, at, p)
<1>1. DOMAIN tables' = DOMAIN tables \cup {p}
  BY DEF NewTable
<1>2. DOMAIN tables'[p] = Index /\ \A j \in Index : tables'[p][j] = None
  BY DEF NewTable, EmptyTable
<1>3. ASSUME NEW q \in DOMAIN tables, NEW j \in Index
      PROVE  /\ DOMAIN tables'[q] = Index
             /\ ~(q = from /\ j = at) => tables'[q][j] = tables[q][j]
  BY DEF NewTable, Types
<1>4. tables'[from][at] = Node(p)
  BY DEF NewTable, Types
<1>5. \A q \in DOMAIN tables \ {from} : tables'[q] = tables[q]
  BY DEF NewTable
<1> QED BY <1>1, <1>2, <1>3, <1>4, <1>5 DEF Linked

\* The table `from` may be linked into: a PGD, or a table in an entry of one.
Upper(from) ==
  from \in spaces \/ \E s \in spaces, i \in Index : Links(s, i) /\ tables[s][i].to = from

LEMMA LinkTrees ==
  ASSUME Types, Trees3, NEW from \in DOMAIN tables, NEW at \in Index, UserEntry(from, at),
         tables[from][at] = None, Upper(from), NEW p \in free, Linked(from, at, p),
         free' = free \ {p}, spaces' = spaces
  PROVE  Types' /\ Trees3'
<1>1. p \in Pool /\ p \notin DOMAIN tables /\ p \notin Early /\ from # p /\ from \notin Early
      /\ p \notin spaces
  BY EarlyApart DEF Types, UserEntry
<1>2. DOMAIN tables' = DOMAIN tables \cup {p}
  BY DEF Linked
<1>3. \A j \in Index : tables'[p][j] = None
  BY DEF Linked
<1>4. ASSUME NEW q \in DOMAIN tables, NEW j \in Index
      PROVE  /\ DOMAIN tables'[q] = Index
             /\ ~(q = from /\ j = at) => tables'[q][j] = tables[q][j]
  BY DEF Linked
<1>5. tables'[from][at] = Node(p)
  BY DEF Linked
<1>6. Types'
  <2>1. DOMAIN tables'[p] = Index
    BY DEF Linked
  <2>2. \A q \in DOMAIN tables' : DOMAIN tables'[q] = Index
    BY <1>2, <1>4, <2>1
  <2> QED BY <1>1, <1>2, <2>2 DEF Types
<1>7. ASSUME NEW q \in DOMAIN tables', NEW j \in Index
      PROVE  UserEntry(q, j)' <=> q = p \/ UserEntry(q, j)
  BY <1>1, <1>2 DEF UserEntry
<1>8. ASSUME NEW q \in DOMAIN tables', NEW j \in Index
      PROVE  Links(q, j)' <=> q \in DOMAIN tables /\ (Links(q, j) \/ (q = from /\ j = at))
  BY <1>1, <1>2, <1>3, <1>4, <1>5, <1>7, EntryFacts DEF Links, UserEntry
<1>9. KernelShared'
  BY <1>1, <1>4, Sizes DEF Trees3, KernelShared, UserEntry, Types, Index
<1>10. EntriesOK'
  <2> SUFFICES ASSUME NEW q \in DOMAIN tables', NEW j \in Index, UserEntry(q, j)'
               PROVE  tables'[q][j] \in UserEntries'
    BY DEF EntriesOK
  <2>1. UserEntries \subseteq UserEntries' /\ None \in UserEntries' /\ Node(p) \in UserEntries'
    BY <1>1, <1>2 DEF UserEntries
  <2>2. CASE q = p
    BY <1>3, <2>1, <2>2
  <2>3. CASE q = from /\ j = at
    BY <1>5, <2>1, <2>3
  <2>4. CASE q # p /\ ~(q = from /\ j = at)
    BY <1>2, <1>4, <1>7, <2>1, <2>4 DEF Trees3, EntriesOK
  <2> QED BY <2>2, <2>3, <2>4
<1>11. ASSUME NEW q \in DOMAIN tables, NEW j \in Index, Links(q, j)
       PROVE  /\ tables'[q][j] = tables[q][j] /\ tables[q][j].to # p
              /\ tables[q][j].to \in DOMAIN tables \ spaces
  BY <1>1, <1>4, <1>11, LinkTarget, EntryFacts DEF Trees3, Links
<1>12. OneParent'
  <2> SUFFICES ASSUME NEW q \in DOMAIN tables', NEW r \in DOMAIN tables', NEW i \in Index,
                      NEW j \in Index, Links(q, i)', Links(r, j)',
                      tables'[q][i].to = tables'[r][j].to
               PROVE  q = r /\ i = j
    BY DEF OneParent
  <2>1. CASE q = from /\ i = at
    BY <1>5, <1>8, <1>11, <2>1, EntryFacts
  <2>2. CASE r = from /\ j = at
    BY <1>5, <1>8, <1>11, <2>2, EntryFacts
  <2>3. CASE ~(q = from /\ i = at) /\ ~(r = from /\ j = at)
    BY <1>8, <1>11, <2>3 DEF Trees3, OneParent
  <2> QED BY <2>1, <2>2, <2>3
<1>13. Levels'
  <2>1. ASSUME NEW s \in spaces', NEW i \in Index, UserEntry(s, i)' PROVE tables'[s][i].is # "leaf"
    BY <1>1, <1>4, <1>5, <1>7, <2>1, EntryFacts DEF Trees3, Levels, Types, UserEntry
  <2>2. ASSUME NEW s \in spaces', NEW i \in Index, NEW j \in Index, Links(s, i)'
        PROVE  tables'[tables'[s][i].to][j].is # "leaf"
    <3>1. s \in DOMAIN tables /\ s \in DOMAIN tables'
      BY <1>2 DEF Types
    <3>2. CASE s = from /\ i = at
      BY <1>3, <1>5, <3>2, EntryFacts
    <3>3. CASE ~(s = from /\ i = at)
      BY <1>4, <1>5, <1>8, <1>11, <2>2, <3>1, <3>3, EntryFacts DEF Trees3, Levels
    <3> QED BY <3>2, <3>3
  <2>3. ASSUME NEW q \in DOMAIN tables' \ spaces', NEW i \in Index, NEW j \in Index, Links(q, i)'
        PROVE  tables'[tables'[q][i].to][j].is # "node"
    <3>1. CASE q = from /\ i = at
      BY <1>3, <1>5, <3>1, EntryFacts
    <3>2. CASE ~(q = from /\ i = at)
      <4> DEFINE t == tables[q][i].to
      <4>1. q \in DOMAIN tables \ spaces /\ Links(q, i) /\ tables'[q][i] = tables[q][i]
            /\ t \in DOMAIN tables \ spaces
        BY <1>8, <1>11, <2>3, <3>2
      <4>2. t # from
        BY <4>1 DEF Trees3, OneParent, Types, Upper
      <4>3. tables'[t][j] = tables[t][j]
        BY <1>4, <4>1, <4>2
      <4> QED BY <4>1, <4>3 DEF Trees3, Levels
    <3> QED BY <3>1, <3>2
  <2> QED BY <2>1, <2>2, <2>3 DEF Levels
<1> QED BY <1>6, <1>9, <1>10, <1>12, <1>13 DEF Trees3

\* map_pages_to fills an entry of a table of the third level.
LEMMA LeafTrees ==
  ASSUME Types, Trees3, NEW m \in DOMAIN tables \ spaces, NEW i \in Index, Links(m, i),
         NEW q, q = tables[m][i].to, NEW k \in Index, tables[q][k].is # "leaf", NEW p \in Pool,
         free' = free, spaces' = spaces,
         tables' = [tables EXCEPT ![q][k] = Leaf(p, UserProt)]
  PROVE  Types' /\ Trees3'
<1>1. q \in (DOMAIN tables \ Early) \ spaces /\ UserEntry(q, k) /\ tables[q][k] = None
  BY LinkTarget, EntryFacts DEF Trees3, Levels, EntriesOK, UserEntries
<1>2. DOMAIN tables' = DOMAIN tables /\ tables'[q][k] = Leaf(p, UserProt)
  BY <1>1 DEF Types
<1>3. ASSUME NEW r \in DOMAIN tables, NEW j \in Index
      PROVE  /\ DOMAIN tables'[r] = Index
             /\ ~(r = q /\ j = k) => tables'[r][j] = tables[r][j]
  BY <1>1 DEF Types
<1>4. Types'
  BY <1>2, <1>3 DEF Types
<1>5. \A r, j : UserEntry(r, j)' <=> UserEntry(r, j)
  BY <1>2 DEF UserEntry
<1>6. ASSUME NEW r \in DOMAIN tables, NEW j \in Index
      PROVE  /\ Links(r, j)' <=> Links(r, j)
             /\ Links(r, j) => tables'[r][j] = tables[r][j]
  BY <1>1, <1>2, <1>3, <1>5, EntryFacts DEF Links
<1>7. KernelShared'
  BY <1>1, <1>3 DEF Trees3, KernelShared, Types
<1>8. EntriesOK'
  <2>1. UserEntries' = UserEntries /\ Leaf(p, UserProt) \in UserEntries
    BY <1>2 DEF UserEntries
  <2> QED BY <1>2, <1>3, <1>5, <2>1 DEF Trees3, EntriesOK
<1>9. OneParent'
  BY <1>2, <1>6 DEF Trees3, OneParent
<1>10. Levels'
  <2>1. ASSUME NEW s \in spaces', NEW a \in Index, UserEntry(s, a)' PROVE tables'[s][a].is # "leaf"
    BY <1>1, <1>3, <1>5, <2>1 DEF Trees3, Levels, Types
  <2>2. ASSUME NEW s \in spaces', NEW a \in Index, NEW j \in Index, Links(s, a)'
        PROVE  tables'[tables'[s][a].to][j].is # "leaf"
    <3> DEFINE t == tables[s][a].to
    <3>1. s \in spaces /\ s \in DOMAIN tables
      BY DEF Types
    <3>2. Links(s, a) /\ tables'[s][a] = tables[s][a]
      BY <1>6, <2>2, <3>1
    <3>3. t \in DOMAIN tables
      BY <3>1, <3>2, LinkTarget DEF Trees3
    <3>4. t # q
      BY <3>1, <3>2 DEF Trees3, OneParent
    <3>5. tables'[t][j] = tables[t][j]
      BY <1>3, <3>3, <3>4
    <3>6. tables[t][j].is # "leaf"
      BY <3>1, <3>2 DEF Trees3, Levels
    <3> QED BY <3>2, <3>5, <3>6
  <2>3. ASSUME NEW r \in DOMAIN tables' \ spaces', NEW a \in Index, NEW j \in Index, Links(r, a)'
        PROVE  tables'[tables'[r][a].to][j].is # "node"
    <3> DEFINE t == tables[r][a].to
    <3>1. r \in DOMAIN tables \ spaces
      BY <1>2
    <3>2. Links(r, a) /\ tables'[r][a] = tables[r][a]
      BY <1>6, <2>3, <3>1
    <3>3. t \in DOMAIN tables
      BY <3>1, <3>2, LinkTarget DEF Trees3
    <3>4. tables[t][j].is # "node"
      BY <3>1, <3>2 DEF Trees3, Levels
    <3>5. tables'[t][j].is # "node"
      <4>1. CASE t = q /\ j = k
        BY <1>2, <4>1, EntryFacts
      <4>2. CASE ~(t = q /\ j = k)
        BY <1>3, <3>3, <3>4, <4>2
      <4> QED BY <4>1, <4>2
    <3> QED BY <3>2, <3>5
  <2> QED BY <2>1, <2>2, <2>3 DEF Levels
<1> QED BY <1>4, <1>7, <1>8, <1>9, <1>10 DEF Trees3

\* vm_create_user_pgd.
LEMMA PgdTrees ==
  ASSUME Types, Trees3, NEW p \in free, free' = free \ {p}, spaces' = spaces \cup {p},
         tables[EarlyPgd] = KernelPgd, tables' = NewTable(tables, p, UserPgd)
  PROVE  Types' /\ Trees3'
<1>1. p \in Pool /\ p \notin DOMAIN tables /\ p \notin Early /\ p \notin spaces
  BY EarlyApart DEF Types
<1>2. DOMAIN tables' = DOMAIN tables \cup {p}
  BY DEF NewTable
<1>3. ASSUME NEW q \in DOMAIN tables PROVE tables'[q] = tables[q]
  BY <1>1 DEF NewTable
<1>4. DOMAIN tables'[p] = Index
      /\ \A i \in Index : tables'[p][i] = IF i >= KernelBase THEN EarlyPgdTable[i] ELSE None
  <2>1. ASSUME NEW i \in Index, i >= KernelBase PROVE i \notin LowHalf
    BY <2>1, Sizes DEF LowHalf, Index
  <2> QED BY <2>1 DEF NewTable, UserPgd, KernelPgd
<1>5. Types'
  <2>1. \A q \in DOMAIN tables' : DOMAIN tables'[q] = Index
    BY <1>2, <1>3, <1>4 DEF Types
  <2> QED BY <1>1, <1>2, <2>1 DEF Types
<1>6. ASSUME NEW j \in Index, UserEntry(p, j)' PROVE tables'[p][j] = None
  BY <1>4, <1>6, Sizes DEF UserEntry, Index
<1>7. ASSUME NEW q \in DOMAIN tables, NEW j \in Index
      PROVE  (UserEntry(q, j)' <=> UserEntry(q, j)) /\ (Links(q, j)' <=> Links(q, j))
  BY <1>1, <1>2, <1>3 DEF Links, UserEntry
<1>8. ASSUME NEW q \in DOMAIN tables', NEW j \in Index, Links(q, j)'
      PROVE  q \in DOMAIN tables /\ Links(q, j)
  BY <1>2, <1>6, <1>7, <1>8, EntryFacts DEF Links
<1>9. KernelShared'
  BY <1>3, <1>4 DEF Trees3, KernelShared, Types
<1>10. EntriesOK'
  <2> SUFFICES ASSUME NEW q \in DOMAIN tables', NEW j \in Index, UserEntry(q, j)'
               PROVE  tables'[q][j] \in UserEntries'
    BY DEF EntriesOK
  <2>1. UserEntries \subseteq UserEntries' /\ None \in UserEntries'
    BY <1>1, <1>2 DEF UserEntries, Types
  <2> QED BY <1>2, <1>3, <1>6, <1>7, <2>1 DEF Trees3, EntriesOK
<1>11. OneParent'
  BY <1>3, <1>8 DEF Trees3, OneParent
<1>12. ASSUME NEW q \in DOMAIN tables, NEW i \in Index, Links(q, i)
       PROVE  tables'[q] = tables[q] /\ tables'[tables[q][i].to] = tables[tables[q][i].to]
  BY <1>3, <1>12, LinkTarget DEF Trees3
<1>13. Levels'
  <2>1. ASSUME NEW s \in spaces', NEW i \in Index, UserEntry(s, i)' PROVE tables'[s][i].is # "leaf"
    BY <1>3, <1>6, <1>7, <2>1, EntryFacts DEF Trees3, Levels, Types
  <2>2. ASSUME NEW s \in spaces', NEW i \in Index, NEW j \in Index, Links(s, i)'
        PROVE  tables'[tables'[s][i].to][j].is # "leaf"
    <3>1. s \in DOMAIN tables'
      BY <1>2 DEF Types
    <3> QED BY <1>1, <1>8, <1>12, <2>2, <3>1 DEF Trees3, Levels
  <2>3. ASSUME NEW q \in DOMAIN tables' \ spaces', NEW i \in Index, NEW j \in Index, Links(q, i)'
        PROVE  tables'[tables'[q][i].to][j].is # "node"
    BY <1>8, <1>12, <2>3 DEF Trees3, Levels
  <2> QED BY <2>1, <2>2, <2>3 DEF Levels
<1> QED BY <1>5, <1>9, <1>10, <1>11, <1>13 DEF Trees3

(***************************************************************************)
(* The steps of map_pages_to by what they do to the tables.                *)
(***************************************************************************)
LEMMA UserIndex ==
  ASSUME NEW v \in Nat, v < High(0)
  PROVE  v \in VPages /\ Vpn2(v) < KernelBase
<1>1. /\ Entries \in Nat /\ Entries > 1 /\ KernelBase \in Nat /\ KernelBase >= 1
      /\ KernelBase + KernelBase <= Entries
      /\ GibPages \in Nat /\ GibPages > 0 /\ Entries * Entries * Entries = Entries * GibPages
  BY Sizes
<1>2. v < KernelBase * GibPages /\ KernelBase * GibPages \in Int
  <2>1. High(0) = KernelBase * GibPages /\ KernelBase * GibPages \in Int
    BY <1>1 DEF High, GibPages
  <2> QED BY <2>1
<1>3. KernelBase * GibPages <= Entries * GibPages /\ Entries * GibPages \in Int
  BY <1>1, TimesMonotone
<1>4. v \in VPages
  BY <1>1, <1>2, <1>3 DEF VPages
<1>5. /\ Vpn2(v) \in Nat /\ v >= Vpn2(v) * GibPages
  <2>1. Vpn2(v) \in Nat /\ Vpn1(v) \in Nat /\ Vpn0(v) \in Nat
    BY <1>1, <1>4, Digits DEF Index
  <2>2. v = Vpn2(v) * GibPages + (Vpn1(v) * Entries + Vpn0(v))
    BY <1>4, Digits
  <2>3. Vpn2(v) * GibPages \in Nat /\ Vpn1(v) * Entries \in Nat
    BY <1>1, <2>1
  <2> QED BY <2>1, <2>2, <2>3
<1>6. ASSUME KernelBase <= Vpn2(v) PROVE FALSE
  <2>1. KernelBase * GibPages <= Vpn2(v) * GibPages /\ Vpn2(v) * GibPages \in Int
    BY <1>1, <1>5, <1>6, TimesMonotone
  <2> QED BY <1>2, <1>5, <2>1
<1> QED BY <1>1, <1>4, <1>5, <1>6

\* The page that map_pages_to is at.
LEMMA CurFacts ==
  ASSUME Inv, Mapping
  PROVE  /\ CurVa \in VPages /\ Vpn2(CurVa) < KernelBase
         /\ Vpn2(CurVa) \in Index /\ Vpn1(CurVa) \in Index /\ Vpn0(CurVa) \in Index
         /\ call.pgd \in spaces /\ UserEntry(call.pgd, Vpn2(CurVa))
         /\ call.i \in Nat /\ call.i < call.n /\ call.n \in 1 .. 2
         /\ call.pa + call.i \in Pool /\ call.prot = UserProt
<1>1. call # Idle
  BY DEF Mapping, Idle
<1>2. /\ call \in [at : {"map", "done", "failed"}, pgd : spaces, va : UserVas, n : 1 .. 2,
                   pa : Pool, prot : {UserProt}, i : 0 .. 2]
      /\ call.pa .. call.pa + call.n - 1 \subseteq Pool
  BY <1>1 DEF Inv, Request
<1>3. /\ call.pgd \in spaces /\ call.va \in UserVas /\ call.n \in 1 .. 2 /\ call.pa \in Pool
      /\ call.prot = UserProt /\ call.i \in 0 .. 2 /\ call.i < call.n
  BY <1>2 DEF Mapping
<1>4. call.pa \in Nat
  BY <1>3, EarlyApart
<1>5. call.pa + call.i \in Pool
  <2>1. call.pa + call.i \in call.pa .. call.pa + call.n - 1
    BY <1>3, <1>4
  <2> QED BY <1>2, <2>1
<1>6. CurVa \in Nat /\ CurVa < High(0)
  <2>1. call.va \in Nat /\ call.va + 1 < High(0)
    BY <1>3, BootAssumption
  <2>2. High(0) \in Int
    BY Sizes DEF High
  <2> QED BY <1>3, <2>1, <2>2 DEF CurVa
<1>7. CurVa \in VPages /\ Vpn2(CurVa) < KernelBase
  BY <1>6, UserIndex
<1>8. Vpn2(CurVa) \in Index /\ Vpn1(CurVa) \in Index /\ Vpn0(CurVa) \in Index
  BY <1>7, Digits
<1>9. UserEntry(call.pgd, Vpn2(CurVa))
  BY <1>3, <1>7, <1>8 DEF UserEntry, Inv, Types
<1> QED BY <1>3, <1>5, <1>7, <1>8, <1>9

\* A table is linked for the page that map_pages_to is at.
LinksTable ==
  /\ \E from \in DOMAIN tables, at \in Index, p \in free :
       /\ UserEntry(from, at) /\ tables[from][at] = None /\ Upper(from)
       /\ Linked(from, at, p) /\ free' = free \ {p}
  /\ Mapping /\ call' = call

\* The page that map_pages_to is at is mapped.
Fills ==
  /\ Mapping /\ Links(call.pgd, Vpn2(CurVa)) /\ Links(Top.to, Vpn1(CurVa))
  /\ tables[Mid.to][Vpn0(CurVa)].is # "leaf"
  /\ tables' = [tables EXCEPT ![Mid.to][Vpn0(CurVa)] = Leaf(call.pa + call.i, UserProt)]
  /\ call' = [call EXCEPT !.i = @ + 1]
  /\ free' = free

\* Only the outcome is settled, or the call returns.
Settles ==
  /\ UNCHANGED <<tables, free>>
  /\ \/ Mapping /\ call' = [call EXCEPT !.at = "failed"]
     \/ call.at = "map" /\ call.i = call.n /\ call' = [call EXCEPT !.at = "done"]
     \/ call' = Idle

LEMMA LinkStep ==
  ASSUME Inv, Mapping, NEW from \in DOMAIN tables, NEW at \in Index, UserEntry(from, at),
         tables[from][at].is = "none", Upper(from), Link(from, at)
  PROVE  satp' = satp /\ spaces' = spaces /\ (LinksTable \/ Settles)
<1>1. CASE free = {}
  BY <1>1 DEF Link, Fails, Settles
<1>2. CASE free # {}
  <2>1. PICK p \in free :
          /\ free' = free \ {p}
          /\ tables' = NewTable([tables EXCEPT ![from][at] = Node(p)], p, EmptyTable)
    BY <1>2 DEF Link
  <2>2. UNCHANGED <<satp, spaces, call>>
    BY <1>2 DEF Link
  <2>3. tables[from][at] = None
    BY EntryFacts DEF Inv, Trees3, EntriesOK, UserEntries
  <2>4. p \notin DOMAIN tables
    BY DEF Inv, Types
  <2>5. Linked(from, at, p)
    BY <2>1, <2>4, LinkEffect DEF Inv
  <2> QED BY <2>1, <2>2, <2>3, <2>5 DEF LinksTable
<1> QED BY <1>1, <1>2

LEMMA MapSteps ==
  ASSUME Inv, MapStep
  PROVE  satp' = satp /\ spaces' = spaces /\ (LinksTable \/ Fills \/ Settles)
<1>1. ASSUME Mapping PROVE call.pgd \in DOMAIN tables /\ call.pgd \in spaces
  BY <1>1, CurFacts DEF Inv, Types
<1>2. ASSUME Mapping, Top.is = "node"
      PROVE  /\ Links(call.pgd, Vpn2(CurVa)) /\ Top.to \in (DOMAIN tables \ Early) \ spaces
             /\ UserEntry(Top.to, Vpn1(CurVa)) /\ Upper(Top.to)
  <2>1. Links(call.pgd, Vpn2(CurVa))
    BY <1>2, CurFacts DEF Links, Top
  <2>2. Top.to \in (DOMAIN tables \ Early) \ spaces /\ UserEntry(Top.to, Vpn1(CurVa))
    BY <1>1, <1>2, <2>1, CurFacts, LinkTarget DEF Inv, Trees3, Top
  <2>3. Upper(Top.to)
    BY <1>1, <1>2, <2>1, CurFacts DEF Upper, Top
  <2> QED BY <2>1, <2>2, <2>3
<1>3. CASE CreatePmd
  <2>1. Upper(call.pgd)
    BY <1>1, <1>3 DEF Upper, CreatePmd
  <2> QED BY <1>1, <1>3, <2>1, CurFacts, LinkStep DEF CreatePmd, Top
<1>4. CASE CreatePte
  BY <1>2, <1>4, CurFacts, LinkStep DEF CreatePte, Mid
<1>5. CASE MapPage
  <2>1. Mapping /\ Top.is = "node" /\ Mid.is # "none" /\ UNCHANGED <<satp, free, spaces>>
    BY <1>5 DEF MapPage
  <2>2. CASE Taken
    BY <1>5, <2>1, <2>2 DEF MapPage, Fails, Settles
  <2>3. CASE ~Taken
    <3>1. Mid.is = "node"
      BY <1>2, <2>1, <2>3, CurFacts, EntryFacts
      DEF Taken, Mid, Inv, Trees3, EntriesOK, UserEntries
    <3>2. Links(Top.to, Vpn1(CurVa))
      BY <1>2, <2>1, <3>1 DEF Links, Mid
    <3>3. call.prot = UserProt
      BY <2>1, CurFacts
    <3> QED BY <1>2, <1>5, <2>1, <2>3, <3>2, <3>3 DEF MapPage, Taken, Fills
  <2> QED BY <2>2, <2>3
<1>6. CASE MapDone \/ Return
  BY <1>6 DEF MapDone, Return, Settles
<1> QED BY <1>3, <1>4, <1>5, <1>6 DEF MapStep

\* What a step of map_pages_to keeps.
LEMMA MapStepTrees ==
  ASSUME Inv, spaces' = spaces, LinksTable \/ Fills \/ Settles
  PROVE  /\ Types' /\ Trees3' /\ Request'
         /\ DOMAIN tables \subseteq DOMAIN tables' /\ \A p \in Early \cap DOMAIN tables : tables'[p] = tables[p]
<1>1. CASE LinksTable
  <2>1. PICK from \in DOMAIN tables, at \in Index, p \in free :
          /\ UserEntry(from, at) /\ tables[from][at] = None /\ Upper(from)
          /\ Linked(from, at, p) /\ free' = free \ {p}
    BY <1>1 DEF LinksTable
  <2>2. Types' /\ Trees3'
    BY <2>1, LinkTrees DEF Inv
  <2>3. Request'
    BY <1>1 DEF LinksTable, Request, Inv
  <2>4. DOMAIN tables' = DOMAIN tables \cup {p}
    BY <2>1 DEF Linked
  <2>5. ASSUME NEW q \in Early \cap DOMAIN tables PROVE tables'[q] = tables[q]
    BY <2>1 DEF UserEntry, Linked
  <2> QED BY <2>2, <2>3, <2>4, <2>5
<1>2. CASE Fills
  <2>1. Mapping
    BY <1>2 DEF Fills
  <2>2. /\ Vpn2(CurVa) \in Index /\ Vpn1(CurVa) \in Index /\ Vpn0(CurVa) \in Index
        /\ call.pgd \in DOMAIN tables /\ call.pa + call.i \in Pool
    BY <2>1, CurFacts DEF Inv, Types
  <2>3. Top.to \in (DOMAIN tables \ Early) \ spaces /\ Links(Top.to, Vpn1(CurVa))
    BY <1>2, <2>2, LinkTarget DEF Fills, Top, Inv, Trees3
  <2>4. Types' /\ Trees3'
    <3> DEFINE m == Top.to
               i == Vpn1(CurVa)
               k == Vpn0(CurVa)
               q == Mid.to
               p == call.pa + call.i
    <3>1. tables' = [tables EXCEPT ![q][k] = Leaf(p, UserProt)] /\ q = tables[m][i].to
          /\ tables[q][k].is # "leaf" /\ free' = free
      BY <1>2 DEF Fills, Mid
    <3>2. m \in DOMAIN tables \ spaces /\ i \in Index /\ k \in Index /\ Links(m, i) /\ p \in Pool
      BY <2>2, <2>3
    <3>3. Types /\ Trees3
      BY DEF Inv
    <3> HIDE DEF m, i, k, q, p
    <3> QED BY <3>1, <3>2, <3>3, LeafTrees
  <2>5. Request'
    <3>1. call # Idle /\ call.at = "map"
      BY <2>1 DEF Mapping, Idle
    <3> DEFINE C == [at : {"map", "done", "failed"}, pgd : spaces, va : UserVas, n : 1 .. 2,
                     pa : Pool, prot : {UserProt}, i : 0 .. 2]
    <3>2. call \in C /\ call.pa .. call.pa + call.n - 1 \subseteq Pool
      BY <3>1 DEF Inv, Request
    <3>3. call' = [call EXCEPT !.i = @ + 1]
      BY <1>2 DEF Fills
    <3>4. call.i + 1 \in 0 .. 2 /\ call.i + 1 <= call.n
      BY <2>1, CurFacts
    <3>5. call' \in C /\ call'.at = "map" /\ call'.i = call.i + 1 /\ call'.n = call.n
          /\ call'.pa = call.pa
      BY <3>1, <3>2, <3>3, <3>4
    <3> QED BY <3>2, <3>4, <3>5 DEF Request
  <2>6. Mid.to \in DOMAIN tables \ Early
    BY <2>2, <2>3, LinkTarget DEF Mid, Inv, Trees3
  <2> QED BY <1>2, <2>4, <2>5, <2>6 DEF Fills
<1>3. CASE Settles
  <2>1. Types' /\ Trees3'
    BY <1>3 DEF Settles, Inv, Types, Trees3, KernelShared, EntriesOK, OneParent, Levels,
                UserEntry, Links, UserEntries
  <2>2. Request'
    BY <1>3 DEF Settles, Inv, Request, Mapping, Idle
  <2> QED BY <1>3, <2>1, <2>2 DEF Settles
<1> QED BY <1>1, <1>2, <1>3

(***************************************************************************)
(* The invariant is inductive.                                             *)
(***************************************************************************)
LEMMA InitInv == Init => Inv
<1> SUFFICES ASSUME Init PROVE Inv
  OBVIOUS
<1>1. /\ satp = Bare /\ DOMAIN tables = {} /\ free = {} /\ spaces = {} /\ call = Idle
      /\ stage = "start" /\ DOMAIN ptr = {"pc"} /\ ptr["pc"] = Points(Text, Text)
  BY DEF Init, VmInit
<1>2. EarlyTables
  BY <1>1 DEF EarlyTables, Unpaged
<1>3. Types
  BY <1>1 DEF Types
<1>4. Trees3
  BY <1>1 DEF Trees3, KernelShared, EntriesOK, OneParent, Levels, Links, UserEntry
<1>5. Request
  BY <1>1 DEF Request
<1>6. Pointers
  BY <1>1, BootAssumption DEF Pointers, IsLow, Points
<1>7. TreeGiven
  BY DEF Init, TreeGiven
<1> QED BY <1>2, <1>3, <1>4, <1>5, <1>6, <1>7 DEF Inv

\* The tables between the calls of setup_vm, drop_identity_map and the test.
LEMMA KeepTables ==
  ASSUME Inv, UNCHANGED <<satp, tables, spaces, call>>, free' = free \/ free' = Pool,
         free' = Pool => DOMAIN tables \subseteq Early,
         stage' \in Unpaged <=> stage \in Unpaged, stage' \in Bridged <=> stage \in Bridged,
         stage' # "vmtest" => stage # "vmtest"
  PROVE  EarlyTables' /\ Types' /\ Trees3' /\ Request'
<1>1. EarlyTables'
  BY DEF Inv, EarlyTables
<1>2. Types'
  BY EarlyApart DEF Inv, Types
<1>3. Trees3'
  BY DEF Inv, Trees3, KernelShared, EntriesOK, OneParent, Levels, UserEntry, Links, UserEntries
<1>4. Request'
  BY DEF Inv, Request
<1> QED BY <1>1, <1>2, <1>3, <1>4

\* In the boot only the early tables exist.
LEMMA OnlyEarly ==
  ASSUME DOMAIN tables' \subseteq Early, spaces' = {}, call' = Idle, free' \subseteq Pool,
         \A p \in DOMAIN tables' : DOMAIN tables'[p] = Index
  PROVE  Types' /\ Trees3' /\ Request'
<1>1. Types'
  BY EarlyApart DEF Types
<1>2. Trees3'
  BY DEF Trees3, KernelShared, EntriesOK, OneParent, Levels, UserEntry, Links
<1>3. Request'
  BY DEF Request
<1> QED BY <1>1, <1>2, <1>3

LEMMA FirstTableDomain == \A p : DOMAIN FirstTable(p) = Index /\ DOMAIN KernelPgd = Index
                                  /\ DOMAIN EarlyPgdTable = Index
BY DEF FirstTable, KernelPgd, EarlyPgdTable, MmioTable, EmptyTable

LEMMA SetupInv ==
  ASSUME Inv, CallSetupVm
  PROVE  EarlyTables' /\ Types' /\ Trees3' /\ Request'
<1>1. stage = "stack" /\ stage' = "paged" /\ call = Idle /\ spaces = {}
      /\ free' = free /\ spaces' = spaces /\ call' = call /\ satp' = EarlyPgd
  BY DEF CallSetupVm, At, SetupVm, Inv, EarlyTables, Unpaged
<1>2. tables' = [p \in Early |-> FirstTable(p)]
  BY DEF CallSetupVm, SetupVm, Early, FirstTable
<1>3. tables'[EarlyPgd] = EarlyPgdTable
  BY <1>2, EarlyApart DEF FirstTable
<1>4. EarlyTables'
  BY <1>1, <1>2, <1>3 DEF EarlyTables, Unpaged, Bridged
<1>5. \A p \in DOMAIN tables' : DOMAIN tables'[p] = Index
  BY <1>2, FirstTableDomain
<1>6. Types' /\ Trees3' /\ Request'
  BY <1>1, <1>2, <1>5, OnlyEarly DEF Inv, Types
<1> QED BY <1>4, <1>6

LEMMA DropInv ==
  ASSUME Inv, CallDropIdentityMap
  PROVE  /\ EarlyTables' /\ Types' /\ Trees3' /\ Request'
         /\ tables' = [tables EXCEPT ![EarlyPgd] = KernelPgd]
<1>1. stage = "moved" /\ stage' = "dropped" /\ UNCHANGED <<satp, free, spaces, call>>
  BY DEF CallDropIdentityMap, At, DropIdentityMap
<1>2. /\ satp = EarlyPgd /\ DOMAIN tables = Early /\ spaces = {} /\ call = Idle
      /\ \A p \in Early \ {EarlyPgd} : tables[p] = FirstTable(p)
      /\ tables[EarlyPgd] = EarlyPgdTable
  BY <1>1 DEF Inv, EarlyTables, Unpaged, Bridged
<1>3. tables' = [tables EXCEPT ![EarlyPgd] = KernelPgd]
  BY <1>2 DEF CallDropIdentityMap, DropIdentityMap, KernelPgd
<1>4. DOMAIN tables' = Early /\ tables'[EarlyPgd] = KernelPgd
      /\ \A p \in Early \ {EarlyPgd} : tables'[p] = FirstTable(p)
  BY <1>2, <1>3, EarlyApart
<1>5. EarlyTables'
  BY <1>1, <1>2, <1>4 DEF EarlyTables, Unpaged, Bridged
<1>6. \A p \in DOMAIN tables' : DOMAIN tables'[p] = Index
  BY <1>4, FirstTableDomain
<1>7. Types' /\ Trees3' /\ Request'
  BY <1>1, <1>2, <1>4, <1>6, OnlyEarly DEF Inv, Types
<1> QED BY <1>3, <1>5, <1>7

LEMMA TestEndsInv ==
  ASSUME Inv, TestEnds
  PROVE  /\ EarlyTables' /\ Types' /\ Trees3' /\ Request'
         /\ \A p \in Early : tables'[p] = tables[p]
<1>1. /\ stage = "vmtest" /\ stage' = "plic" /\ satp' = satp /\ call = Idle /\ call' = call
      /\ free' = {} /\ spaces' = {}
  BY DEF TestEnds, VmTest
<1>2. tables' = [p \in Early |-> tables[p]]
  BY DEF TestEnds, Early
<1>3. EarlyTables'
  BY <1>1, <1>2, EarlyApart DEF Inv, EarlyTables, Unpaged, Bridged
<1>4. \A p \in DOMAIN tables' : DOMAIN tables'[p] = Index
  BY <1>1, <1>2 DEF Inv, Types, EarlyTables, Unpaged
<1>5. Types' /\ Trees3' /\ Request'
  BY <1>1, <1>2, <1>4, OnlyEarly
<1> QED BY <1>2, <1>3, <1>5

\* Steps of the test that keep the early tables.
LEMMA EarlyKept ==
  ASSUME Inv, stage = "vmtest", stage' = stage, satp' = satp, DOMAIN tables \subseteq DOMAIN tables',
         \A p \in Early \cap DOMAIN tables : tables'[p] = tables[p]
  PROVE  EarlyTables'
BY EarlyApart DEF Inv, EarlyTables, Unpaged, Bridged

LEMMA CreatePgdInv ==
  ASSUME Inv, CreateUserPgd
  PROVE  EarlyTables' /\ Types' /\ Trees3' /\ Request'
<1>1. PICK p \in free : /\ free' = free \ {p} /\ spaces' = spaces \cup {p}
                        /\ tables' = NewTable(tables, p, UserPgd)
  BY DEF CreateUserPgd, VmCreateUserPgd
<1>2. stage = "vmtest" /\ stage' = stage /\ satp' = satp /\ call = Idle /\ call' = call
  BY DEF CreateUserPgd, VmCreateUserPgd, VmTest, OnlyVm
<1>3. tables[EarlyPgd] = KernelPgd
  BY <1>2 DEF Inv, EarlyTables, Unpaged, Bridged
<1>4. Types' /\ Trees3'
  BY <1>1, <1>3, PgdTrees DEF Inv
<1>5. DOMAIN tables \subseteq DOMAIN tables' /\ \A q \in Early \cap DOMAIN tables : tables'[q] = tables[q]
  BY <1>1 DEF NewTable, Inv, Types
<1>6. EarlyTables'
  BY <1>2, <1>5, EarlyKept
<1>7. Request'
  BY <1>2 DEF Request
<1> QED BY <1>4, <1>6, <1>7

LEMMA MapUserPagesInv ==
  ASSUME Inv, MapUserPages
  PROVE  EarlyTables' /\ Types' /\ Trees3' /\ Request'
<1>1. PICK pgd \in spaces, v \in UserVas, n \in 1 .. 2, p \in free :
        /\ p .. p + n - 1 \subseteq free
        /\ free' = free \ (p .. p + n - 1)
        /\ MapPagesTo(pgd, v, n, p, UserProt)
  BY DEF MapUserPages
<1>2. stage = "vmtest" /\ stage' = stage /\ UNCHANGED <<satp, tables, spaces>>
  BY DEF MapUserPages, VmTest, OnlyVm
<1>3. EarlyTables'
  BY <1>2, EarlyKept
<1>4. Types'
  BY <1>1, <1>2 DEF Inv, Types
<1>5. Trees3'
  BY <1>2 DEF Inv, Trees3, KernelShared, EntriesOK, OneParent, Levels, UserEntry, Links, UserEntries
<1>6. call' = [at |-> "map", pgd |-> pgd, va |-> v, n |-> n, pa |-> p, prot |-> UserProt, i |-> 0]
  BY <1>1 DEF MapPagesTo
<1>7. p \in Pool /\ p .. p + n - 1 \subseteq Pool
  BY <1>1 DEF Inv, Types
<1>8. Request'
  BY <1>1, <1>2, <1>6, <1>7 DEF Request
<1> QED BY <1>3, <1>4, <1>5, <1>8

(***************************************************************************)
(* The addresses in use.                                                   *)
(***************************************************************************)
LEMMA KeepPointers ==
  ASSUME Pointers, ptr' = ptr, \A n \in DOMAIN ptr : IsLow(n)' <=> IsLow(n),
         stage' \in {"start", "stack", "paged", "high"} => stage \in {"start", "stack", "paged", "high"}
  PROVE  Pointers'
BY DEF Pointers

\* Above the bridge, an address in the higher half is taken into use.
LEMMA UseHigh ==
  ASSUME Pointers, NEW name, NEW p \in Pages, Use(name, InHighHalf(p)), name \notin {"pc", "stvec"},
         name \in {"uart", "plic"} => InWindow(p),
         stage \notin {"start", "stack", "paged", "high"},
         stage' \notin {"start", "stack", "paged", "high"}
  PROVE  Pointers'
BY DEF Pointers, Use, InHighHalf, Points, IsLow

LEMMA StartPointers == ASSUME Inv, StartS PROVE Pointers'
<1> USE DEF Inv
<1>1. CASE SetStack
  BY <1>1, BootAssumption DEF SetStack, At, Use, Points, Pointers, IsLow
<1>2. CASE CallSetupVm
  BY <1>2 DEF CallSetupVm, At, Pointers, IsLow
<1>3. CASE JumpHigh
  BY <1>3, BootAssumption DEF JumpHigh, At, Use, InHighHalf, Points, Pointers, IsLow
<1>4. CASE SetStackAndStvec
  BY <1>4, BootAssumption DEF SetStackAndStvec, At, StackHigh, InHighHalf, Points, Pointers, IsLow
<1>5. CASE CallDropIdentityMap
  BY <1>5 DEF CallDropIdentityMap, At, Pointers, IsLow
<1> QED BY <1>1, <1>2, <1>3, <1>4, <1>5 DEF StartS

LEMMA KernelPointers == ASSUME Inv, StartKernel PROVE Pointers'
<1> USE DEF Inv
<1>1. CASE EnterKernel
  BY <1>1, UseHigh, BootAssumption DEF EnterKernel, At
<1>2. CASE UartInit
  <2> DEFINE base == GetUartBaseFromDtb(tree)
  <2>1. stage = "uart" /\ tree \in Trees
    BY <1>2 DEF UartInit, TreeGiven
  <2>2. CASE base = 0
    BY <1>2, <2>2 DEF UartInit, Pointers, IsLow
  <2>3. CASE base # 0
    <3>1. InWindow(base) /\ base \in Pages
      BY <2>1, <2>3, BootAssumption DEF InWindow
    <3>2. stage' = "initrd" /\ Use("uart", InHighHalf(base))
      BY <1>2, <2>3 DEF UartInit
    <3> QED BY <2>1, <3>1, <3>2, UseHigh
  <2> QED BY <2>2, <2>3
<1>3. CASE InitrdSetRange \/ MmInit \/ TestEnds
  BY <1>3 DEF InitrdSetRange, MmInit, TestEnds, VmTest, At, Pointers, IsLow
<1>4. CASE PlicInit
  BY <1>4, BootAssumption DEF PlicInit, At, InHighHalf, Points, InWindow, Pointers, IsLow
<1> QED BY <1>1, <1>2, <1>3, <1>4 DEF StartKernel

LEMMA NextInv == ASSUME Inv, [Next]_vars PROVE Inv'
<1>1. ASSUME UNCHANGED vmVars, stage' \in Unpaged <=> stage \in Unpaged,
             stage' \in Bridged <=> stage \in Bridged, stage # "vmtest", stage' # "vmtest"
      PROVE  EarlyTables' /\ Types' /\ Trees3' /\ Request'
  BY <1>1, KeepTables DEF vmVars, Inv, EarlyTables
<1>2. CASE SetStack \/ JumpHigh \/ SetStackAndStvec
  <2>1. EarlyTables' /\ Types' /\ Trees3' /\ Request'
    BY <1>1, <1>2 DEF SetStack, JumpHigh, SetStackAndStvec, At, Unpaged, Bridged
  <2>2. TreeGiven'
    BY <1>2 DEF SetStack, JumpHigh, SetStackAndStvec, At, KeepTree, Inv, TreeGiven, Bridged
  <2> QED BY <1>2, <2>1, <2>2, StartPointers DEF StartS, Inv
<1>3. CASE CallSetupVm \/ CallDropIdentityMap
  <2>1. TreeGiven'
    BY <1>3 DEF CallSetupVm, CallDropIdentityMap, At, KeepTree, Inv, TreeGiven, Bridged
  <2> QED BY <1>3, <2>1, SetupInv, DropInv, StartPointers DEF StartS, Inv
<1>4. CASE EnterKernel \/ UartInit \/ InitrdSetRange \/ PlicInit
  <2>1. EarlyTables' /\ Types' /\ Trees3' /\ Request'
    BY <1>1, <1>4 DEF EnterKernel, UartInit, InitrdSetRange, PlicInit, At, Unpaged, Bridged, vmVars
  <2>2. TreeGiven'
    BY <1>4 DEF EnterKernel, UartInit, InitrdSetRange, PlicInit, At, KeepTree, Inv, TreeGiven, Bridged
  <2> QED BY <1>4, <2>1, <2>2, KernelPointers DEF StartKernel, Inv
<1>5. CASE MmInit
  <2>1. EarlyTables' /\ Types' /\ Trees3' /\ Request'
    <3>1. UNCHANGED <<satp, tables, spaces, call>> /\ (free' = free \/ free' = Pool)
          /\ stage = "mm" /\ stage' \in {"halted", "vmtest"}
      BY <1>5 DEF MmInit
    <3>2. DOMAIN tables \subseteq Early
      BY <3>1 DEF Inv, EarlyTables
    <3> QED BY <3>1, <3>2, KeepTables DEF Unpaged, Bridged
  <2>2. TreeGiven'
    BY <1>5 DEF MmInit, TreeGiven, Bridged
  <2> QED BY <1>5, <2>1, <2>2, KernelPointers DEF StartKernel, Inv
<1>6. CASE TestEnds
  <2>1. TreeGiven'
    BY <1>6 DEF TestEnds, TreeGiven, Bridged
  <2> QED BY <1>6, <2>1, TestEndsInv, KernelPointers DEF StartKernel, Inv
<1>7. ASSUME stage = "vmtest", OnlyVm PROVE Pointers' /\ TreeGiven'
  BY <1>7, KeepPointers DEF OnlyVm, Inv, TreeGiven, IsLow, Bridged
<1>8. CASE CreateUserPgd \/ MapUserPages
  <2>1. stage = "vmtest" /\ OnlyVm
    BY <1>8 DEF CreateUserPgd, MapUserPages, VmTest
  <2> QED BY <1>7, <1>8, <2>1, CreatePgdInv, MapUserPagesInv DEF Inv
<1>9. CASE Mapper
  <2>1. stage = "vmtest" /\ OnlyVm /\ MapStep
    BY <1>9 DEF Mapper
  <2>2. satp' = satp /\ spaces' = spaces /\ (LinksTable \/ Fills \/ Settles)
    BY <2>1, MapSteps
  <2>3. /\ Types' /\ Trees3' /\ Request' /\ DOMAIN tables \subseteq DOMAIN tables'
        /\ \A p \in Early \cap DOMAIN tables : tables'[p] = tables[p]
    BY <2>2, MapStepTrees
  <2>4. EarlyTables'
    BY <2>1, <2>2, <2>3, EarlyKept DEF OnlyVm
  <2> QED BY <1>7, <2>1, <2>3, <2>4 DEF Inv
<1>10. CASE Ls \/ CatFile \/ Exec
  <2>1. stage = "shell" /\ stage' \in {"shell", "stopped"} /\ UNCHANGED <<vmVars, tree, ptr>>
    BY <1>10 DEF Ls, CatFile, Exec, Answers, At
  <2>2. EarlyTables' /\ Types' /\ Trees3' /\ Request'
    BY <1>1, <2>1 DEF Unpaged, Bridged
  <2>3. Pointers' /\ TreeGiven'
    BY <2>1, KeepPointers DEF Inv, IsLow, TreeGiven, Bridged
  <2> QED BY <2>2, <2>3 DEF Inv
<1>11. CASE UNCHANGED vars
  <2>1. UNCHANGED <<satp, tables, free, spaces, call, stage, tree, ptr>>
    BY <1>11 DEF vars, vmVars
  <2>2. EarlyTables' /\ Types' /\ Trees3' /\ Request'
    BY <2>1, KeepTables DEF Inv, Types, Unpaged, Bridged
  <2>3. Pointers' /\ TreeGiven'
    BY <2>1, KeepPointers DEF Inv, IsLow, TreeGiven
  <2> QED BY <2>2, <2>3 DEF Inv
<1>12. CASE Halted
  BY <1>11, <1>12 DEF Halted
<1> QED BY <1>2, <1>3, <1>4, <1>5, <1>6, <1>8, <1>9, <1>10, <1>11, <1>12
    DEF Next, StartS, StartKernel

LEMMA AlwaysInv == Spec => []Inv
<1>1. Inv /\ [Next]_vars => Inv'
  BY NextInv
<1> QED BY <1>1, InitInv, PTL DEF Spec

(***************************************************************************)
(* Theorems: types, and the addresses in use.                              *)
(***************************************************************************)
LEMMA WindowPages ==
  ASSUME NEW w \in 0 .. EarlyGib * Entries - 1, NEW i \in Index
  PROVE  w * Entries + i \in Pages
<1>1. Entries \in Nat /\ Entries > 1 /\ EarlyGib \in Nat /\ EarlyGib * Entries \in Nat
  BY Sizes
<1>2. w \in Nat /\ w + 1 <= EarlyGib * Entries /\ i \in 0 .. Entries - 1
  BY <1>1 DEF Index
<1>3. (w + 1) * Entries <= EarlyGib * Entries * Entries /\ EarlyGib * Entries * Entries \in Int
  BY <1>1, <1>2, TimesMonotone
<1>4. (w + 1) * Entries = w * Entries + Entries /\ w * Entries \in Nat
  BY <1>1, <1>2
<1> QED BY <1>1, <1>2, <1>3, <1>4 DEF Pages

\* Every entry of an early table is empty, leads to an early table or to memory.
LEMMA EarlyEntries ==
  ASSUME Early \subseteq DOMAIN tables, NEW p \in Early, NEW i \in Index
  PROVE  Entry(FirstTable(p)[i]) /\ Entry(EarlyPgdTable[i]) /\ Entry(KernelPgd[i])
<1>1. /\ Entries \in Nat /\ Entries > 1 /\ EarlyGib \in Nat /\ EarlyPtes \in Nat /\ Static \in Nat
      /\ i \in 0 .. Entries - 1
  BY Sizes, VmAssumption DEF Index
<1>2. Entry(None)
  BY DEF Entry
<1>3. ASSUME NEW q \in Early PROVE Entry(Node(q))
  BY EntryFacts DEF Entry
<1>4. ASSUME NEW q \in Pages, NEW prot PROVE Entry(Leaf(q, prot))
  BY EntryFacts DEF Entry
<1>5. ASSUME NEW g \in 0 .. EarlyGib - 1 PROVE EarlyPmd(g) \in Early
  BY <1>1 DEF EarlyPmd, Early
<1>6. ASSUME NEW k \in Windows
      PROVE  EarlyPte(k) \in Early /\ Mmio[k] \in 0 .. EarlyGib * Entries - 1
  <2>1. k \in 1 .. EarlyPtes /\ Mmio[k] \in 0 .. EarlyGib * Entries - 1
    BY <1>1, VmAssumption DEF Windows
  <2> QED BY <1>1, <2>1 DEF EarlyPte, Early
<1>7. Entry(EarlyPgdTable[i])
  <2>1. CASE i < EarlyGib
    BY <1>1, <1>3, <1>5, <2>1 DEF EarlyPgdTable
  <2>2. CASE ~(i < EarlyGib) /\ i - KernelBase \in 0 .. EarlyGib - 1
    BY <1>3, <1>5, <2>2 DEF EarlyPgdTable
  <2>3. CASE ~(i < EarlyGib) /\ i - KernelBase \notin 0 .. EarlyGib - 1
    BY <1>2, <2>3 DEF EarlyPgdTable
  <2> QED BY <2>1, <2>2, <2>3
<1>8. Entry(KernelPgd[i])
  BY <1>2, <1>7 DEF KernelPgd
<1>9. ASSUME NEW w \in 0 .. EarlyGib * Entries - 1 PROVE Entry(PmdEntry(w))
  <2>1. CASE \E k \in Windows : Mmio[k] = w
    <3> DEFINE k == CHOOSE j \in Windows : Mmio[j] = w
    <3>1. k \in Windows /\ PmdEntry(w) = Node(EarlyPte(k))
      BY <2>1 DEF PmdEntry
    <3> HIDE DEF k
    <3> QED BY <1>3, <1>6, <3>1
  <2>2. CASE ~ \E k \in Windows : Mmio[k] = w
    <3>1. w * Entries + 0 \in Pages
      <4>1. 0 \in Index
        BY <1>1 DEF Index
      <4> QED BY <4>1, WindowPages
    <3>2. w * Entries \in Pages
      <4>1. w \in Nat /\ w * Entries \in Nat
        BY <1>1
      <4> QED BY <3>1, <4>1
    <3>3. PmdEntry(w) = Leaf(w * Entries, KernelProt)
      BY <2>2 DEF PmdEntry
    <3> DEFINE q == w * Entries
    <3>4. q \in Pages /\ PmdEntry(w) = Leaf(q, KernelProt)
      BY <3>2, <3>3
    <3> HIDE DEF q
    <3> QED BY <1>4, <3>4
  <2> QED BY <2>1, <2>2
<1> SUFFICES Entry(FirstTable(p)[i])
  BY <1>7, <1>8
<1>10. CASE p = EarlyPgd
  BY <1>7, <1>10 DEF FirstTable
<1>11. CASE p # EarlyPgd /\ p <= Static + EarlyGib
  <2> DEFINE g == p - Static - 1
             w == g * Entries + i
  <2>1. g \in 0 .. EarlyGib - 1
    BY <1>1, <1>11 DEF Early, EarlyPgd
  <2> HIDE DEF g
  <2>2. w \in 0 .. EarlyGib * Entries - 1
    <3>1. (g + 1) * Entries <= EarlyGib * Entries /\ EarlyGib * Entries \in Int
      BY <1>1, <2>1, TimesMonotone
    <3>2. (g + 1) * Entries = g * Entries + Entries /\ g * Entries \in Nat
      BY <1>1, <2>1
    <3> QED BY <1>1, <2>1, <3>1, <3>2
  <2>3. FirstTable(p)[i] = PmdEntry(w)
    BY <1>11 DEF FirstTable, g
  <2> HIDE DEF w
  <2> QED BY <1>9, <2>2, <2>3
<1>12. CASE p # EarlyPgd /\ ~(p <= Static + EarlyGib)
  <2> DEFINE k == p - Static - EarlyGib
  <2>1. CASE k \in Windows
    <3>1. FirstTable(p)[i] = Leaf(Mmio[k] * Entries + i, MmioProt)
      BY <1>12, <2>1 DEF FirstTable, MmioTable
    <3> HIDE DEF k
    <3> DEFINE w == Mmio[k]
               q == w * Entries + i
    <3>2. w \in 0 .. EarlyGib * Entries - 1
      BY <1>6, <2>1
    <3> HIDE DEF w
    <3>3. q \in Pages
      BY <3>2, WindowPages
    <3>4. FirstTable(p)[i] = Leaf(q, MmioProt)
      BY <3>1 DEF w
    <3> HIDE DEF q
    <3> QED BY <1>4, <3>3, <3>4
  <2>2. CASE k \notin Windows
    BY <1>2, <1>12, <2>2 DEF FirstTable, EmptyTable
  <2> QED BY <2>1, <2>2
<1> QED BY <1>10, <1>11, <1>12

\* Types: what a table leads to is a table or memory, and no free page is a table
\* (walk_create and vm_create_user_pgd take theirs from alloc_pages).
THEOREM TypeCorrect == Spec => []TypeOK
<1>1. ASSUME Inv PROVE TypeOK
  <2> USE <1>1 DEF Inv
  <2>1. satp \in {Bare} \cup DOMAIN tables
    BY EarlyApart DEF EarlyTables
  <2>2. /\ DOMAIN tables \subseteq Pages /\ DOMAIN tables \cap free = {}
        /\ spaces \subseteq DOMAIN tables /\ free \subseteq Pool
    BY EarlyApart DEF Types
  <2>3. call.at \in {"idle", "map", "done", "failed"}
    BY DEF Request, Idle
  <2>4. ASSUME NEW p \in DOMAIN tables, NEW i \in Index PROVE Entry(tables[p][i])
    <3>1. Early \subseteq DOMAIN tables /\ EarlyPgd \in Early
      BY EarlyApart DEF EarlyTables
    <3>2. CASE p \in Early
      BY <3>1, <3>2, EarlyEntries DEF EarlyTables
    <3>3. CASE UserEntry(p, i)
      <4>1. tables[p][i] \in UserEntries
        BY <3>3 DEF Trees3, EntriesOK
      <4> QED BY <4>1, EntryFacts, EarlyApart DEF UserEntries, Entry
    <3>4. CASE p \in spaces /\ ~(i < KernelBase)
      <4>1. i >= KernelBase
        BY <3>4, Sizes DEF Index
      <4>2. tables[p][i] = EarlyPgdTable[i]
        BY <3>4, <4>1 DEF Trees3, KernelShared
      <4> QED BY <3>1, <4>2, EarlyEntries
    <3> QED BY <3>2, <3>3, <3>4 DEF UserEntry
  <2> QED BY <2>1, <2>2, <2>3, <2>4 DEF TypeOK
<1> QED BY <1>1, AlwaysInv, PTL

\* The two images of a page in the tables of the kernel.
LEMMA KernelWalk ==
  ASSUME NEW tb, \A q \in Early \ {EarlyPgd} : tb[q] = FirstTable(q), NEW root, NEW p \in Pages
  PROVE  /\ (\A i \in Index : i >= KernelBase => tb[root][i] = EarlyPgdTable[i])
              => Walk(tb, root, High(p)) = Leaf(p, Prot(p))
         /\ tb[root] = EarlyPgdTable => Walk(tb, root, p) = Leaf(p, Prot(p))
<1> DEFINE g == Vpn2(p)
<1>1. /\ p \in VPages /\ g \in 0 .. EarlyGib - 1
      /\ High(p) \in VPages /\ Vpn2(High(p)) = KernelBase + g
      /\ Vpn1(High(p)) = Vpn1(p) /\ Vpn0(High(p)) = Vpn0(p)
  BY PageIndices
<1>2. p = g * GibPages + (Vpn1(p) * Entries + Vpn0(p))
  BY <1>1, Digits
<1>3. EarlyGib \in 1 .. KernelBase /\ KernelBase \in Nat /\ KernelBase + KernelBase <= Entries
      /\ Entries \in Nat
  BY Sizes
<1> HIDE DEF g
<1>4. KernelBase + g \in Index /\ g \in Index
  BY <1>1, <1>3 DEF Index
<1>5. EarlyPgdTable[g] = Node(EarlyPmd(g)) /\ EarlyPgdTable[KernelBase + g] = Node(EarlyPmd(g))
  BY <1>1, <1>3, <1>4 DEF EarlyPgdTable
<1>6. ASSUME \A i \in Index : i >= KernelBase => tb[root][i] = EarlyPgdTable[i]
      PROVE  Walk(tb, root, High(p)) = Leaf(p, Prot(p))
  <2>1. tb[root][Vpn2(High(p))] = Node(EarlyPmd(g))
    BY <1>1, <1>3, <1>4, <1>5, <1>6
  <2>2. p = g * GibPages + (Vpn1(High(p)) * Entries + Vpn0(High(p)))
    BY <1>1, <1>2
  <2> QED BY <1>1, <2>1, <2>2, WalkEarly
<1>7. ASSUME tb[root] = EarlyPgdTable PROVE Walk(tb, root, p) = Leaf(p, Prot(p))
  <2>1. tb[root][Vpn2(p)] = Node(EarlyPmd(g))
    BY <1>5, <1>7 DEF g
  <2> QED BY <1>1, <1>2, <2>1, WalkEarly
<1> QED BY <1>6, <1>7

LEMMA KernelPgdHigh == \A i \in Index : i >= KernelBase => KernelPgd[i] = EarlyPgdTable[i]
BY Sizes DEF KernelPgd, LowHalf, Index

\* Whatever the state of the MMU, every address in use reaches its page, from start.S
\* to the shell: pc and stvec can be executed, the registers of devices cannot.
THEOREM AddressesAlwaysReach == Spec => []AddressesReach
<1>1. ASSUME Inv PROVE AddressesReach
  <2> USE <1>1 DEF Inv
  <2> SUFFICES ASSUME NEW n \in DOMAIN ptr
               PROVE  /\ Reaches(ptr[n].va) # None /\ Reaches(ptr[n].va).to = ptr[n].pa
                      /\ n \in {"pc", "stvec"} => "X" \in Reaches(ptr[n].va).prot
                      /\ n \in {"uart", "plic"} => "X" \notin Reaches(ptr[n].va).prot
    BY DEF AddressesReach
  <2> DEFINE p == ptr[n].pa
  <2>1. /\ p \in Pages /\ ptr[n].va = IF IsLow(n) THEN p ELSE High(p)
        /\ n \in {"pc", "stvec"} => p = Text
        /\ n \in {"uart", "plic"} => InWindow(p)
        /\ stage \in {"start", "stack", "paged", "high"} => n \in {"pc", "sp"}
    BY DEF Pointers
  <2> HIDE DEF p
  <2>2. ~InWindow(Text)
    BY BootAssumption
  <2>3. \A q, prot : Leaf(q, prot) # None /\ Leaf(q, prot).to = q /\ Leaf(q, prot).prot = prot
    BY DEF Leaf, None
  <2>4. CASE stage \in Unpaged
    <3>1. Reaches(ptr[n].va) = Leaf(p, KernelProt)
      BY <2>1, <2>4 DEF Reaches, EarlyTables, IsLow, Unpaged
    <3> QED BY <2>1, <2>3, <2>4, <3>1 DEF KernelProt, Unpaged, p
  <2>5. CASE stage \notin Unpaged
    <3>1. /\ satp = EarlyPgd /\ \A q \in Early \ {EarlyPgd} : tables[q] = FirstTable(q)
          /\ tables[EarlyPgd] = IF stage \in Bridged THEN EarlyPgdTable ELSE KernelPgd
      BY <2>5 DEF EarlyTables
    <3>2. Reaches(ptr[n].va) = Walk(tables, EarlyPgd, ptr[n].va)
      BY <3>1, EarlyApart, TranslateIsWalk DEF Reaches, Bare
    <3>3. ASSUME IsLow(n) PROVE Reaches(ptr[n].va) = Leaf(p, Prot(p))
      <4>1. tables[EarlyPgd] = EarlyPgdTable
        BY <2>5, <3>1, <3>3 DEF IsLow, Unpaged, Bridged
      <4> QED BY <2>1, <3>1, <3>2, <3>3, <4>1, KernelWalk
    <3>4. ASSUME ~IsLow(n) PROVE Reaches(ptr[n].va) = Leaf(p, Prot(p))
      BY <2>1, <3>1, <3>2, <3>4, KernelWalk, KernelPgdHigh
    <3>5. Reaches(ptr[n].va) = Leaf(p, Prot(p))
      BY <2>1, <3>3, <3>4
    <3> QED BY <2>1, <2>2, <2>3, <3>5 DEF Prot, KernelProt, MmioProt, p
  <2> QED BY <2>4, <2>5
<1> QED BY <1>1, AlwaysInv, PTL

(***************************************************************************)
(* What user tables map, and how steps change it.                          *)
(***************************************************************************)
\* The entry of the third level for v is in table q.
Reached(s, v, q) ==
  /\ Links(s, Vpn2(v)) /\ Links(tables[s][Vpn2(v)].to, Vpn1(v))
  /\ q = tables[tables[s][Vpn2(v)].to][Vpn1(v)].to

\* In the user half, a walk ends in the third level or finds nothing.
UserWalks ==
  \A s \in spaces, v \in VPages : Vpn2(v) < KernelBase =>
    /\ \A q : Reached(s, v, q) =>
         /\ Walk(tables, s, v) = tables[q][Vpn0(v)]
         /\ q \in (DOMAIN tables \ Early) \ spaces
    /\ (\A q : ~Reached(s, v, q)) => Walk(tables, s, v) = None

LEMMA UserWalk == Types /\ Trees3 => UserWalks
<1> SUFFICES ASSUME Types, Trees3, NEW s \in spaces, NEW v \in VPages, Vpn2(v) < KernelBase
             PROVE  /\ \A q : Reached(s, v, q) =>
                         /\ Walk(tables, s, v) = tables[q][Vpn0(v)]
                         /\ q \in (DOMAIN tables \ Early) \ spaces
                    /\ (\A q : ~Reached(s, v, q)) => Walk(tables, s, v) = None
  BY DEF UserWalks
<1> DEFINE a == Vpn2(v)
           b == Vpn1(v)
           m == tables[s][a].to
<1>1. a \in Index /\ b \in Index /\ Vpn0(v) \in Index /\ s \in DOMAIN tables /\ UserEntry(s, a)
  BY Digits DEF Types, UserEntry
<1>2. tables[s][a].is \in {"none", "node"} /\ (tables[s][a].is = "node" <=> Links(s, a))
  BY <1>1, EntryFacts DEF Trees3, EntriesOK, Levels, UserEntries, Links
<1>3. ASSUME Links(s, a)
      PROVE  /\ m \in (DOMAIN tables \ Early) \ spaces
             /\ tables[m][b].is \in {"none", "node"}
             /\ tables[m][b].is = "node" <=> Links(m, b)
  <2>1. m \in (DOMAIN tables \ Early) \ spaces /\ UserEntry(m, b)
    BY <1>1, <1>3, LinkTarget DEF Trees3
  <2>2. tables[m][b].is # "leaf"
    BY <1>1, <1>3 DEF Trees3, Levels
  <2>3. tables[m][b] \in UserEntries
    BY <1>1, <2>1 DEF Trees3, EntriesOK
  <2> QED BY <2>1, <2>2, <2>3, EntryFacts DEF UserEntries, Links
<1>4. ASSUME NEW q, Reached(s, v, q)
      PROVE  Walk(tables, s, v) = tables[q][Vpn0(v)] /\ q \in (DOMAIN tables \ Early) \ spaces
  <2>1. Links(s, a) /\ Links(m, b) /\ q = tables[m][b].to
    BY <1>4 DEF Reached
  <2>2. q \in (DOMAIN tables \ Early) \ spaces
    BY <1>1, <1>3, <2>1, LinkTarget DEF Trees3
  <2>3. tables[s][a].is = "node" /\ tables[m][b].is = "node"
    BY <2>1 DEF Links
  <2> QED BY <2>1, <2>2, <2>3 DEF Walk
<1>5. ASSUME \A q : ~Reached(s, v, q) PROVE Walk(tables, s, v) = None
  <2>1. ~Links(s, a) \/ ~Links(m, b)
    BY <1>5 DEF Reached
  <2>2. tables[s][a].is = "none" \/ tables[m][b].is = "none"
    BY <1>2, <1>3, <2>1
  <2> QED BY <2>2 DEF Walk
<1> QED BY <1>4, <1>5

LEMMA UserWalkNext == (Types /\ Trees3)' => UserWalks'
BY UserWalk, PTL

\* Two pages that reach the same entry are one page of one address space.
LEMMA ReachedOnce ==
  ASSUME Types, Trees3, NEW s \in spaces, NEW t \in spaces, NEW u \in VPages, NEW v \in VPages,
         NEW q, Reached(s, u, q), Reached(t, v, q)
  PROVE  s = t /\ (Vpn0(u) = Vpn0(v) => u = v)
<1>1. /\ Vpn2(u) \in Index /\ Vpn1(u) \in Index /\ Vpn2(v) \in Index /\ Vpn1(v) \in Index
      /\ s \in DOMAIN tables /\ t \in DOMAIN tables
  BY Digits DEF Types
<1> DEFINE m == tables[s][Vpn2(u)].to
           n == tables[t][Vpn2(v)].to
<1>2. m \in DOMAIN tables /\ n \in DOMAIN tables
  BY <1>1, LinkTarget DEF Reached, Trees3
<1>3. /\ Links(m, Vpn1(u)) /\ Links(n, Vpn1(v)) /\ tables[m][Vpn1(u)].to = tables[n][Vpn1(v)].to
      /\ Links(s, Vpn2(u)) /\ Links(t, Vpn2(v))
  BY DEF Reached
<1>4. m = n /\ Vpn1(u) = Vpn1(v)
  <2> HIDE DEF m, n
  <2> QED BY <1>1, <1>2, <1>3 DEF Trees3, OneParent
<1>5. s = t /\ Vpn2(u) = Vpn2(v)
  BY <1>1, <1>3, <1>4 DEF Trees3, OneParent
<1> QED BY <1>4, <1>5, Digits

LEMMA LinkWalks ==
  ASSUME Inv, spaces' = spaces, LinksTable,
         NEW s \in spaces, NEW v \in VPages, Vpn2(v) < KernelBase
  PROVE  Walk(tables', s, v) = Walk(tables, s, v)
<1>1. PICK from \in DOMAIN tables, at \in Index, p \in free :
        /\ UserEntry(from, at) /\ tables[from][at] = None /\ Upper(from)
        /\ Linked(from, at, p) /\ free' = free \ {p}
  BY DEF LinksTable
<1>2. UserWalks /\ UserWalks' /\ Types /\ Trees3 /\ Types' /\ Trees3'
  BY UserWalk, UserWalkNext, MapStepTrees DEF Inv
<1>3. /\ p \notin DOMAIN tables /\ p \notin Early /\ p \notin spaces /\ s \in DOMAIN tables
      /\ DOMAIN tables' = DOMAIN tables \cup {p}
      /\ Vpn2(v) \in Index /\ Vpn1(v) \in Index /\ Vpn0(v) \in Index
  BY <1>1, <1>2, Digits, EarlyApart DEF Linked, Types
<1>4. ASSUME NEW x \in DOMAIN tables, NEW i \in Index
      PROVE  /\ Links(x, i) => Links(x, i)' /\ tables'[x][i] = tables[x][i]
             /\ Links(x, i)' => Links(x, i) \/ (x = from /\ i = at)
  <2>1. Links(x, i) => ~(x = from /\ i = at)
    BY <1>1, EntryFacts DEF Links
  <2>2. ~(x = from /\ i = at) => tables'[x][i] = tables[x][i]
    BY <1>1 DEF Linked
  <2>3. UserEntry(x, i)' <=> UserEntry(x, i)
    BY <1>3 DEF UserEntry
  <2> QED BY <2>1, <2>2, <2>3 DEF Links
<1>5. CASE \E q : Reached(s, v, q)
  <2>1. PICK q : Reached(s, v, q)
    BY <1>5
  <2>2. Walk(tables, s, v) = tables[q][Vpn0(v)] /\ q \in (DOMAIN tables \ Early) \ spaces
    BY <1>2, <2>1 DEF UserWalks
  <2>3. tables[s][Vpn2(v)].to \in (DOMAIN tables \ Early) \ spaces
    BY <1>2, <1>3, <2>1, LinkTarget DEF Reached, Trees3
  <2>4. Reached(s, v, q)'
    BY <1>3, <1>4, <2>1, <2>3 DEF Reached
  <2>5. Walk(tables', s, v) = tables'[q][Vpn0(v)]
    BY <1>2, <2>4 DEF UserWalks
  <2>6. q # from
    <3>1. ASSUME NEW t \in spaces, NEW i \in Index, Links(t, i), tables[t][i].to = q PROVE FALSE
      BY <1>2, <1>3, <2>1, <2>3, <3>1 DEF Trees3, OneParent, Types, Reached
    <3> QED BY <1>1, <2>2, <3>1 DEF Upper
  <2>7. tables'[q][Vpn0(v)] = tables[q][Vpn0(v)]
    BY <1>1, <1>3, <2>2, <2>6 DEF Linked
  <2> QED BY <2>2, <2>5, <2>7
<1>6. CASE \A q : ~Reached(s, v, q)
  <2>1. Walk(tables, s, v) = None
    BY <1>2, <1>6 DEF UserWalks
  <2>2. CASE \A q : ~Reached(s, v, q)'
    BY <1>2, <2>1, <2>2 DEF UserWalks
  <2>3. ASSUME NEW q, Reached(s, v, q)' PROVE Walk(tables', s, v) = None
    <3>0. PICK m : m = tables'[s][Vpn2(v)].to
      OBVIOUS
    <3>1. Links(s, Vpn2(v))' /\ Links(m, Vpn1(v))' /\ q = tables'[m][Vpn1(v)].to
      BY <2>3, <3>0 DEF Reached
    <3>2. Links(s, Vpn2(v)) /\ m = tables[s][Vpn2(v)].to /\ m \in DOMAIN tables
      <4>1. ~(s = from /\ Vpn2(v) = at)
        <5>1. ASSUME s = from, Vpn2(v) = at PROVE FALSE
          <6>1. m = p
            BY <1>1, <3>0, <5>1, EntryFacts DEF Linked
          <6>2. tables'[p][Vpn1(v)] = None
            BY <1>1, <1>3 DEF Linked
          <6> QED BY <3>1, <6>1, <6>2, EntryFacts DEF Links
        <5> QED BY <5>1
      <4>2. Links(s, Vpn2(v))
        BY <1>3, <1>4, <3>1, <4>1
      <4> QED BY <1>2, <1>3, <1>4, <3>0, <4>2, LinkTarget DEF Trees3
    <3>3. m = from /\ Vpn1(v) = at
      <4>1. ~Links(m, Vpn1(v))
        <5>1. ASSUME Links(m, Vpn1(v)) PROVE FALSE
          BY <1>6, <3>2, <5>1 DEF Reached
        <5> QED BY <5>1
      <4> QED BY <1>3, <1>4, <3>1, <3>2, <4>1
    <3>4. q = p
      BY <1>1, <3>1, <3>3, EntryFacts DEF Linked
    <3>5. Walk(tables', s, v) = tables'[p][Vpn0(v)]
      BY <1>2, <2>3, <3>4 DEF UserWalks
    <3> QED BY <1>1, <1>3, <3>5 DEF Linked
  <2> QED BY <2>1, <2>2, <2>3
<1> QED BY <1>5, <1>6

\* The page that is mapped was not, and no other page changes.
LEMMA FillWalks ==
  ASSUME Inv, spaces' = spaces, Fills
  PROVE  /\ Walk(tables, call.pgd, CurVa) = None
         /\ \A s \in spaces, v \in VPages : Vpn2(v) < KernelBase =>
              Walk(tables', s, v) = IF s = call.pgd /\ v = CurVa
                                    THEN Leaf(call.pa + call.i, UserProt) ELSE Walk(tables, s, v)
<1> DEFINE q == Mid.to
           k == Vpn0(CurVa)
<1>1. UserWalks /\ UserWalks' /\ Types /\ Trees3 /\ Types' /\ Trees3'
  BY UserWalk, UserWalkNext, MapStepTrees DEF Inv
<1>2. /\ CurVa \in VPages /\ Vpn2(CurVa) < KernelBase /\ call.pgd \in spaces
      /\ Vpn2(CurVa) \in Index /\ Vpn1(CurVa) \in Index /\ k \in Index
  BY CurFacts DEF Fills
<1>3. Reached(call.pgd, CurVa, q)
  BY DEF Fills, Reached, Top, Mid
<1>4. Walk(tables, call.pgd, CurVa) = tables[q][k] /\ q \in (DOMAIN tables \ Early) \ spaces
  BY <1>1, <1>2, <1>3 DEF UserWalks
<1>5. tables[q][k] = None
  <2>1. tables[q][k].is # "leaf"
    BY DEF Fills
  <2>2. tables[q][k].is # "node"
    <3>1. Top.to \in (DOMAIN tables \ Early) \ spaces
      BY <1>1, <1>2, LinkTarget DEF Fills, Top, Trees3, Types
    <3> QED BY <1>1, <1>2, <3>1 DEF Fills, Mid, Trees3, Levels
  <2>3. UserEntry(q, k)
    BY <1>2, <1>4 DEF UserEntry
  <2> QED BY <1>1, <1>2, <1>4, <2>1, <2>2, <2>3, EntryFacts DEF Trees3, EntriesOK, UserEntries
<1>6. tables' = [tables EXCEPT ![q][k] = Leaf(call.pa + call.i, UserProt)]
  BY DEF Fills
<1> HIDE DEF q, k
<1>7. /\ DOMAIN tables' = DOMAIN tables /\ tables'[q][k] = Leaf(call.pa + call.i, UserProt)
      /\ \A x \in DOMAIN tables, i \in Index : ~(x = q /\ i = k) => tables'[x][i] = tables[x][i]
  BY <1>1, <1>2, <1>4, <1>6 DEF Types
<1>8. ASSUME NEW x \in DOMAIN tables, NEW i \in Index
      PROVE  (Links(x, i)' <=> Links(x, i)) /\ (Links(x, i) => tables'[x][i] = tables[x][i])
  <2>1. UserEntry(x, i)' <=> UserEntry(x, i)
    BY <1>7 DEF UserEntry
  <2> QED BY <1>5, <1>7, <2>1, EntryFacts DEF Links
<1>9. ASSUME NEW s \in spaces, NEW v \in VPages, NEW r PROVE Reached(s, v, r)' <=> Reached(s, v, r)
  <2>1. s \in DOMAIN tables /\ Vpn2(v) \in Index /\ Vpn1(v) \in Index
    BY <1>1, Digits DEF Types
  <2>2. Links(s, Vpn2(v)) => tables[s][Vpn2(v)].to \in DOMAIN tables
    BY <1>1, <2>1, LinkTarget DEF Trees3
  <2> QED BY <1>8, <2>1, <2>2 DEF Reached
<1>10. ASSUME NEW s \in spaces, NEW v \in VPages, Vpn2(v) < KernelBase
       PROVE  Walk(tables', s, v) = IF s = call.pgd /\ v = CurVa
                                    THEN Leaf(call.pa + call.i, UserProt) ELSE Walk(tables, s, v)
  <2>1. CASE \E r : Reached(s, v, r)
    <3>1. PICK r : Reached(s, v, r)
      BY <2>1
    <3>2. /\ Walk(tables, s, v) = tables[r][Vpn0(v)] /\ r \in DOMAIN tables
          /\ Walk(tables', s, v) = tables'[r][Vpn0(v)] /\ Vpn0(v) \in Index
      BY <1>1, <1>9, <1>10, <3>1, Digits DEF UserWalks
    <3>3. CASE s = call.pgd /\ v = CurVa
      <4>1. r = q /\ Vpn0(v) = k
        BY <1>3, <3>1, <3>3 DEF Reached, k
      <4> QED BY <1>7, <3>2, <3>3, <4>1
    <3>4. CASE ~(s = call.pgd /\ v = CurVa)
      <4>1. ~(r = q /\ Vpn0(v) = k)
        BY <1>1, <1>2, <1>3, <3>1, <3>4, ReachedOnce DEF k
      <4> QED BY <1>7, <3>2, <3>4, <4>1
    <3> QED BY <3>3, <3>4
  <2>2. CASE \A r : ~Reached(s, v, r)
    <3>1. Walk(tables, s, v) = None /\ Walk(tables', s, v) = None
      BY <1>1, <1>9, <1>10, <2>2 DEF UserWalks
    <3>2. ~(s = call.pgd /\ v = CurVa)
      BY <1>3, <2>2
    <3> QED BY <3>1, <3>2
  <2> QED BY <2>1, <2>2
<1> QED BY <1>4, <1>5, <1>10

\* A new address space has nothing in the user half, the others are as before.
LEMMA PgdWalks ==
  ASSUME Types, Trees3, Types', Trees3', NEW p \in free, spaces' = spaces \cup {p},
         tables' = NewTable(tables, p, UserPgd), NEW v \in VPages, Vpn2(v) < KernelBase
  PROVE  /\ Walk(tables', p, v) = None
         /\ \A s \in spaces : Walk(tables', s, v) = Walk(tables, s, v)
<1>1. Vpn2(v) \in Index /\ Vpn1(v) \in Index /\ Vpn0(v) \in Index /\ p \notin DOMAIN tables
  BY Digits DEF Types
<1>2. Walk(tables', p, v) = None
  <2>1. tables'[p][Vpn2(v)] = None
    <3>1. ~(Vpn2(v) >= KernelBase)
      BY <1>1, Sizes DEF Index
    <3> QED BY <1>1, <3>1 DEF NewTable, UserPgd
  <2> QED BY <2>1, EntryFacts DEF Walk
<1>3. ASSUME NEW s \in spaces PROVE Walk(tables', s, v) = Walk(tables, s, v)
  <2>1. /\ DOMAIN tables' = DOMAIN tables \cup {p}
        /\ \A q \in DOMAIN tables : tables'[q] = tables[q]
    BY <1>1 DEF NewTable
  <2>2. UserWalks /\ UserWalks' /\ s \in spaces' /\ s \in DOMAIN tables /\ s # p /\ p \notin Early
    BY <1>1, UserWalk, UserWalkNext, EarlyApart DEF Types
  <2>3. ASSUME NEW q, Reached(s, v, q) PROVE Reached(s, v, q)'
    <3>1. tables[s][Vpn2(v)].to \in (DOMAIN tables \ Early) \ spaces
      BY <1>1, <2>2, <2>3, LinkTarget DEF Reached, Trees3
    <3> QED BY <1>1, <2>1, <2>2, <2>3, <3>1 DEF Reached, Links, UserEntry
  <2>4. ASSUME NEW q, Reached(s, v, q)' PROVE Reached(s, v, q)
    <3>1. Links(s, Vpn2(v))
      BY <1>1, <2>1, <2>2, <2>4 DEF Reached, Links, UserEntry
    <3>2. tables[s][Vpn2(v)].to \in DOMAIN tables
      BY <1>1, <2>2, <3>1, LinkTarget DEF Trees3
    <3> QED BY <1>1, <2>1, <2>2, <2>4, <3>1, <3>2 DEF Reached, Links, UserEntry
  <2>5. CASE \E q : Reached(s, v, q)
    BY <2>1, <2>2, <2>3, <2>5 DEF UserWalks
  <2>6. CASE \A q : ~Reached(s, v, q)
    BY <2>2, <2>4, <2>6 DEF UserWalks
  <2> QED BY <2>5, <2>6
<1> QED BY <1>2, <1>3

(***************************************************************************)
(* Theorem: a request maps its pages in order.                             *)
(***************************************************************************)
Prefix ==
  call # Idle =>
    \A j \in 0 .. call.i - 1 :
      Walk(tables, call.pgd, call.va + j) = Leaf(call.pa + j, call.prot)

\* The pages of the request so far are other pages of the user half.
LEMMA EarlierPages ==
  ASSUME Inv, Mapping, NEW j \in 0 .. call.i - 1
  PROVE  /\ call.va + j \in VPages /\ Vpn2(call.va + j) < KernelBase
         /\ call.va + j # CurVa
<1>1. call # Idle
  BY DEF Mapping, Idle
<1>2. call.va \in UserVas /\ call.i \in 0 .. 2 /\ call.n \in 1 .. 2 /\ call.i < call.n
  BY <1>1 DEF Inv, Request, Mapping
<1>3. call.va \in Nat /\ call.va + 1 < High(0) /\ High(0) \in Int
  BY <1>2, BootAssumption, Sizes DEF High
<1>4. call.va + j \in Nat /\ call.va + j < High(0)
  BY <1>2, <1>3
<1> QED BY <1>2, <1>3, <1>4, UserIndex DEF CurVa

LEMMA PrefixStep == ASSUME Inv, Prefix, [Next]_vars PROVE Prefix'
<1>1. ASSUME tables' = tables, call' = call PROVE Prefix'
  BY <1>1 DEF Prefix
<1>2. ASSUME call' = Idle PROVE Prefix'
  BY <1>2 DEF Prefix
<1>3. CASE StartS \/ StartKernel \/ CreateUserPgd
  <2>1. stage # "vmtest" => call = Idle
    BY DEF Inv, EarlyTables
  <2>2. call' = Idle
    BY <1>3, <2>1 DEF StartS, SetStack, CallSetupVm, SetupVm, JumpHigh, SetStackAndStvec,
      CallDropIdentityMap, DropIdentityMap, StartKernel, EnterKernel, UartInit, InitrdSetRange, MmInit,
      TestEnds, VmTest, PlicInit, CreateUserPgd, VmCreateUserPgd, At, vmVars
  <2> QED BY <1>2, <2>2
<1>4. CASE MapUserPages
  <2>1. \E pgd, v, n, p :
          call' = [at |-> "map", pgd |-> pgd, va |-> v, n |-> n, pa |-> p, prot |-> UserProt, i |-> 0]
    BY <1>4 DEF MapUserPages, MapPagesTo
  <2> QED BY <2>1 DEF Prefix
<1>5. CASE Mapper
  <2>1. spaces' = spaces /\ (LinksTable \/ Fills \/ Settles)
    BY <1>5, MapSteps DEF Mapper
  <2>2. CASE LinksTable
    <3>1. call' = call
      BY <2>2 DEF LinksTable
    <3>2. Mapping
      BY <2>2 DEF LinksTable
    <3>3. ASSUME NEW j \in 0 .. call.i - 1
          PROVE  Walk(tables', call.pgd, call.va + j) = Walk(tables, call.pgd, call.va + j)
      BY <2>1, <2>2, <3>2, EarlierPages, CurFacts, LinkWalks
    <3> QED BY <3>1, <3>3 DEF Prefix
  <2>3. CASE Fills
    <3>1. Mapping /\ call.pgd \in spaces /\ call.prot = UserProt /\ call.i \in Nat
          /\ CurVa \in VPages /\ Vpn2(CurVa) < KernelBase
      BY <2>3, CurFacts DEF Fills
    <3>2. call # Idle /\ call' # Idle /\ call'.i = call.i + 1 /\ call'.pgd = call.pgd /\ call'.va = call.va
          /\ call'.pa = call.pa /\ call'.prot = call.prot
      <4>1. call' = [call EXCEPT !.i = @ + 1] /\ call # Idle
        BY <2>3, <3>1 DEF Fills, Mapping, Idle
      <4>2. call \in [at : {"map", "done", "failed"}, pgd : spaces, va : UserVas, n : 1 .. 2,
                      pa : Pool, prot : {UserProt}, i : 0 .. 2]
        BY <4>1 DEF Inv, Request
      <4> QED BY <4>1, <4>2 DEF Idle
    <3>3. ASSUME NEW j \in 0 .. call.i
          PROVE  Walk(tables', call.pgd, call.va + j) = Leaf(call.pa + j, call.prot)
      <4>1. CASE j = call.i
        BY <2>1, <2>3, <3>1, <4>1, FillWalks DEF CurVa
      <4>2. CASE j # call.i
        <5>1. j \in 0 .. call.i - 1
          BY <3>1, <4>2
        <5>2. Walk(tables, call.pgd, call.va + j) = Leaf(call.pa + j, call.prot)
          BY <3>2, <5>1 DEF Prefix
        <5> QED BY <2>1, <2>3, <3>1, <5>1, <5>2, EarlierPages, FillWalks
      <4> QED BY <4>1, <4>2
    <3>4. 0 .. call'.i - 1 = 0 .. call.i
      BY <3>1, <3>2
    <3> QED BY <3>2, <3>3, <3>4 DEF Prefix
  <2>4. CASE Settles
    <3>1. tables' = tables
      BY <2>4 DEF Settles
    <3>2. CASE call' = Idle
      BY <1>2, <3>2
    <3>3. CASE call # Idle /\ \E x : call' = [call EXCEPT !.at = x]
      <4>1. call \in [at : {"map", "done", "failed"}, pgd : spaces, va : UserVas, n : 1 .. 2,
                      pa : Pool, prot : {UserProt}, i : 0 .. 2]
        BY <3>3 DEF Inv, Request
      <4>2. call'.i = call.i /\ call'.pgd = call.pgd /\ call'.va = call.va
            /\ call'.pa = call.pa /\ call'.prot = call.prot
        BY <3>3, <4>1
      <4> QED BY <3>1, <3>3, <4>2 DEF Prefix
    <3> QED BY <2>4, <3>2, <3>3 DEF Settles, Mapping, Idle
  <2> QED BY <2>1, <2>2, <2>3, <2>4
<1>6. CASE Ls \/ CatFile \/ Exec \/ Halted \/ UNCHANGED vars
  BY <1>1, <1>6 DEF Ls, CatFile, Exec, Answers, Halted, At, vars, vmVars
<1> QED BY <1>3, <1>4, <1>5, <1>6 DEF Next

\* map_pages_to maps the first i pages of its request in order, to the pages and with
\* the permissions asked for; it reports success when that is all of them and failure
\* when not.
THEOREM RequestAlwaysPrefix == Spec => []RequestPrefix
<1>1. Init => Prefix
  BY DEF Init, VmInit, Prefix
<1>2. Inv /\ Prefix /\ [Next]_vars => Prefix'
  BY PrefixStep
<1>3. ASSUME Inv, Prefix PROVE RequestPrefix
  BY <1>3, TranslateIsWalk DEF Prefix, RequestPrefix, Inv, Request
<1> QED BY <1>1, <1>2, <1>3, AlwaysInv, PTL DEF Spec

(***************************************************************************)
(* Page tables implement partial maps: the maps of the kernel.             *)
(***************************************************************************)
KernelMap == Linear(High(0))

BridgeMap ==
  [v \in Pages \cup {High(p) : p \in Pages} |->
     IF v \in Pages THEN Linear(0)[v] ELSE Linear(High(0))[v]]

LEMMA LinearAt ==
  ASSUME NEW base \in Nat
  PROVE  /\ DOMAIN Linear(base) = {base + p : p \in Pages}
         /\ \A p \in Pages : Linear(base)[base + p] = Leaf(p, Prot(p))
         /\ Linear(base) = [v \in DOMAIN Linear(base) |-> Linear(base)[v]]
<1> DEFINE device == {w * Entries + i : w \in {Mmio[k] : k \in DOMAIN Mmio}, i \in Index}
           L == [v \in {base + p : p \in Pages} |->
                   Leaf(v - base, IF v - base \in device THEN MmioProt ELSE KernelProt)]
<1>1. Linear(base) = L
  BY DEF Linear
<1>2. ASSUME NEW p \in Pages PROVE p \in device <=> InWindow(p)
  <2>1. Entries \in Nat /\ Entries > 0 /\ p \in Nat
    BY Sizes, EarlyApart
  <2>2. ASSUME NEW k \in DOMAIN Mmio, NEW i \in Index, p = Mmio[k] * Entries + i
        PROVE  p \div Entries = Mmio[k]
    <3> DEFINE w == Mmio[k]
    <3>1. w \in Int /\ i \in 0 .. Entries - 1
      BY VmAssumption DEF Index
    <3>2. p = w * Entries + i
      BY <2>2
    <3> HIDE DEF w
    <3>3. p = Entries * w + i
      BY <2>1, <3>1, <3>2
    <3>4. (Entries * w + i) \div Entries = w
      BY <2>1, <3>1, DivModUnique
    <3>5. p \div Entries = w
      BY <3>3, <3>4
    <3> QED BY <3>5 DEF w
  <2>3. ASSUME NEW k \in DOMAIN Mmio, p \div Entries = Mmio[k]
        PROVE  \E i \in Index : p = Mmio[k] * Entries + i
    <3> DEFINE w == Mmio[k]
               i == p % Entries
    <3>1. i \in 0 .. Entries - 1 /\ p = Entries * (p \div Entries) + i
      BY <2>1, ModFacts
    <3>2. w \in Int /\ p \div Entries = w
      BY <2>3, VmAssumption
    <3> HIDE DEF w, i
    <3>3. p = Entries * w + i
      BY <3>1, <3>2
    <3>4. p = w * Entries + i
      BY <2>1, <3>1, <3>2, <3>3
    <3> QED BY <3>1, <3>4 DEF Index, w
  <2> QED BY <2>2, <2>3 DEF InWindow
<1> HIDE DEF device
<1>3. ASSUME NEW p \in Pages PROVE L[base + p] = Leaf(p, Prot(p))
  <2>1. base + p \in {base + q : q \in Pages} /\ base + p - base = p
    BY EarlyApart
  <2>2. \A v \in {base + q : q \in Pages} :
          L[v] = Leaf(v - base, IF v - base \in device THEN MmioProt ELSE KernelProt)
    OBVIOUS
  <2> HIDE DEF L
  <2> DEFINE v == base + p
  <2>3. v - base = p /\ v \in {base + q : q \in Pages}
    <3>1. p \in Int /\ base \in Int
      BY EarlyApart
    <3>2. v - base = p
      BY <3>1
    <3>3. v \in {base + q : q \in Pages}
      BY <2>1
    <3> QED BY <3>2, <3>3
  <2> HIDE DEF v
  <2>4. L[v] = Leaf(v - base, IF v - base \in device THEN MmioProt ELSE KernelProt)
    BY <2>2, <2>3
  <2>5. L[v] = Leaf(p, IF p \in device THEN MmioProt ELSE KernelProt)
    BY <2>3, <2>4
  <2> QED BY <1>2, <2>5 DEF Prot, v
<1>4. L = [v \in DOMAIN L |-> L[v]] /\ DOMAIN L = {base + p : p \in Pages}
  OBVIOUS
<1> HIDE DEF L
<1> QED BY <1>1, <1>3, <1>4

LEMMA KernelBounds == High(0) \in Nat /\ \A p \in Pages : High(p) = High(0) + p
BY Sizes, EarlyApart DEF High

LEMMA KernelMapAt ==
  /\ DOMAIN KernelMap = {High(p) : p \in Pages}
  /\ \A p \in Pages : KernelMap[High(p)] = Leaf(p, Prot(p))
  /\ DOMAIN BridgeMap = Pages \cup {High(p) : p \in Pages}
  /\ \A p \in Pages : BridgeMap[p] = Leaf(p, Prot(p)) /\ BridgeMap[High(p)] = Leaf(p, Prot(p))
  /\ \A p \in Pages : High(p) \notin Pages
<1>1. High(0) \in Nat /\ \A p \in Pages : High(p) = High(0) + p
  BY KernelBounds
<1>2. /\ DOMAIN KernelMap = {High(p) : p \in Pages}
      /\ \A p \in Pages : KernelMap[High(p)] = Leaf(p, Prot(p))
  BY <1>1, LinearAt DEF KernelMap
<1>3. \A p \in Pages : Linear(0)[p] = Leaf(p, Prot(p))
  <2>1. \A p \in Pages : 0 + p = p
    BY EarlyApart
  <2> QED BY <2>1, LinearAt
<1>4. ASSUME NEW p \in Pages PROVE High(p) \notin Pages
  <2>1. EarlyGib * Entries * Entries <= High(0) /\ EarlyGib * Entries * Entries \in Int
    <3>1. EarlyGib * GibPages <= KernelBase * GibPages
      BY Sizes, TimesMonotone
    <3>2. EarlyGib * Entries * Entries = EarlyGib * GibPages /\ EarlyGib * GibPages \in Int
          /\ High(0) = KernelBase * GibPages
      BY Sizes DEF High, GibPages
    <3> QED BY <3>1, <3>2
  <2>2. High(p) >= High(0)
    BY <1>1, EarlyApart
  <2> QED BY <1>1, <2>1, <2>2, EarlyApart DEF Pages
<1> QED BY <1>2, <1>3, <1>4 DEF BridgeMap, KernelMap

\* What the kernel half maps v to.
KernelAt(v) == IF v \in DOMAIN KernelMap THEN KernelMap[v] ELSE None

LEMMA HighWalk ==
  ASSUME NEW tb, \A q \in Early \ {EarlyPgd} : tb[q] = FirstTable(q), NEW root,
         \A i \in Index : i >= KernelBase => tb[root][i] = EarlyPgdTable[i],
         NEW v \in VPages, Vpn2(v) >= KernelBase
  PROVE  Walk(tb, root, v) = KernelAt(v)
<1>1. CASE v \in DOMAIN KernelMap
  BY <1>1, KernelMapAt, KernelWalk DEF KernelAt
<1>2. CASE v \notin DOMAIN KernelMap
  <2> DEFINE g == Vpn2(v) - KernelBase
  <2>1. Vpn2(v) \in Index /\ Vpn2(v) \in Nat /\ KernelBase \in Nat /\ EarlyGib \in 1 .. KernelBase
    BY Digits, Sizes DEF Index
  <2>2. g \notin 0 .. EarlyGib - 1
    <3>1. ASSUME g \in 0 .. EarlyGib - 1 PROVE FALSE
      <4>1. Vpn2(v) = KernelBase + g
        BY <2>1
      <4> HIDE DEF g
      <4> QED BY <1>2, <3>1, <4>1, IndexPages, KernelMapAt
    <3> QED BY <3>1
  <2>3. EarlyPgdTable[Vpn2(v)] = None
    BY <2>1, <2>2 DEF EarlyPgdTable
  <2> QED BY <1>2, <2>1, <2>3, EntryFacts DEF KernelAt, Walk
<1> QED BY <1>1, <1>2

LEMMA UserUnmapped ==
  ASSUME NEW v \in VPages, Vpn2(v) < KernelBase
  PROVE  v \notin DOMAIN KernelMap /\ KernelAt(v) = None
<1>1. ASSUME NEW p \in Pages, v = High(p) PROVE FALSE
  <2>1. Vpn2(v) = KernelBase + Vpn2(p) /\ Vpn2(p) \in 0 .. EarlyGib - 1
    BY <1>1, PageIndices
  <2> QED BY <2>1, Sizes
<1> QED BY <1>1, KernelMapAt DEF KernelAt

LEMMA HalfOf == ASSUME NEW v \in VPages PROVE Vpn2(v) < KernelBase \/ Vpn2(v) >= KernelBase
BY Digits, Sizes DEF Index

\* The address space of the kernel, without and with the bridge.
LEMMA KernelRoot ==
  ASSUME NEW tb, \A q \in Early \ {EarlyPgd} : tb[q] = FirstTable(q), NEW root, NEW v \in VPages
  PROVE  /\ tb[root] = KernelPgd => Walk(tb, root, v) = KernelAt(v)
         /\ tb[root] = EarlyPgdTable =>
              Walk(tb, root, v) = IF v \in Pages THEN Leaf(v, Prot(v)) ELSE KernelAt(v)
<1>1. /\ Vpn2(v) \in Index /\ Vpn2(v) \in Nat /\ KernelBase \in Nat /\ EarlyGib \in 1 .. KernelBase
  BY Digits, Sizes DEF Index
<1>2. ASSUME tb[root] = KernelPgd PROVE Walk(tb, root, v) = KernelAt(v)
  <2>1. CASE Vpn2(v) >= KernelBase
    BY <1>2, <2>1, HighWalk, KernelPgdHigh
  <2>2. CASE Vpn2(v) < KernelBase
    <3>1. KernelPgd[Vpn2(v)] = None
      BY <1>1, <2>2 DEF KernelPgd, EarlyPgdTable, LowHalf
    <3> QED BY <1>2, <2>2, <3>1, EntryFacts, UserUnmapped DEF Walk
  <2> QED BY <2>1, <2>2, HalfOf
<1>3. ASSUME tb[root] = EarlyPgdTable
      PROVE  Walk(tb, root, v) = IF v \in Pages THEN Leaf(v, Prot(v)) ELSE KernelAt(v)
  <2>1. CASE v \in Pages
    BY <1>3, <2>1, KernelWalk
  <2>2. CASE v \notin Pages /\ Vpn2(v) >= KernelBase
    BY <1>3, <2>2, HighWalk
  <2>3. CASE v \notin Pages /\ Vpn2(v) < KernelBase
    <3>1. ~(Vpn2(v) < EarlyGib)
      <4>1. ASSUME Vpn2(v) < EarlyGib PROVE FALSE
        <5>1. Vpn2(v) \in 0 .. EarlyGib - 1
          BY <1>1, <4>1
        <5> QED BY <2>3, <5>1, IndexPages
      <4> QED BY <4>1
    <3>2. EarlyPgdTable[Vpn2(v)] = None
      BY <1>1, <2>3, <3>1 DEF EarlyPgdTable
    <3> QED BY <1>3, <2>3, <3>2, EntryFacts, UserUnmapped DEF Walk
  <2> QED BY <2>1, <2>2, <2>3, HalfOf
<1> QED BY <1>2, <1>3

\* The map of an address space, for any contents of the tables.
MapIn(tb, root) ==
  [v \in {u \in VPages : Walk(tb, root, u) # None} |-> Walk(tb, root, v)]

LEMMA MapOfIsMapIn ==
  /\ \A root : MapOf(root) = MapIn(tables, root)
  /\ \A root : MapOf(root)' = MapIn(tables', root)
BY TranslateIsWalk DEF MapOf, MapIn

LEMMA MapInKernel ==
  ASSUME NEW tb, NEW root, \A v \in VPages : Walk(tb, root, v) = KernelAt(v)
  PROVE  MapIn(tb, root) = KernelMap
<1>1. DOMAIN KernelMap \subseteq VPages
  BY KernelMapAt, PageIndices
<1>2. \A v \in DOMAIN KernelMap : KernelMap[v] # None
  BY KernelMapAt, EntryFacts
<1>3. {u \in VPages : Walk(tb, root, u) # None} = DOMAIN KernelMap
  BY <1>1, <1>2 DEF KernelAt
<1>4. \A v \in DOMAIN KernelMap : Walk(tb, root, v) = KernelMap[v]
  BY <1>1 DEF KernelAt
<1>5. KernelMap = [v \in DOMAIN KernelMap |-> KernelMap[v]]
  BY LinearAt, KernelBounds DEF KernelMap
<1> QED BY <1>3, <1>4, <1>5 DEF MapIn

LEMMA MapInBridge ==
  ASSUME NEW tb, NEW root,
         \A v \in VPages : Walk(tb, root, v) = IF v \in Pages THEN Leaf(v, Prot(v)) ELSE KernelAt(v)
  PROVE  MapIn(tb, root) = BridgeMap
<1>1. DOMAIN BridgeMap \subseteq VPages
  BY KernelMapAt, PageIndices
<1>2. \A v \in VPages : Walk(tb, root, v) = IF v \in DOMAIN BridgeMap THEN BridgeMap[v] ELSE None
  BY KernelMapAt DEF KernelAt
<1>3. \A v \in DOMAIN BridgeMap : BridgeMap[v] # None
  BY KernelMapAt, EntryFacts
<1>4. {u \in VPages : Walk(tb, root, u) # None} = DOMAIN BridgeMap
  BY <1>1, <1>2, <1>3
<1>5. BridgeMap = [v \in DOMAIN BridgeMap |-> BridgeMap[v]]
  BY DEF BridgeMap
<1> QED BY <1>1, <1>2, <1>4, <1>5 DEF MapIn

(***************************************************************************)
(* The maps of all address spaces.                                         *)
(***************************************************************************)
Roots == ({satp} \ {Bare}) \cup spaces
Maps == [s \in Roots |-> MapOf(s)]

LEMMA MapsIn ==
  /\ Maps = [s \in Roots |-> MapIn(tables, s)]
  /\ Maps' = [s \in Roots' |-> MapIn(tables', s)]
BY MapOfIsMapIn DEF Maps, Roots

LEMMA SameMap ==
  ASSUME NEW tb, NEW uc, NEW root, \A v \in VPages : Walk(tb, root, v) = Walk(uc, root, v)
  PROVE  MapIn(tb, root) = MapIn(uc, root)
BY DEF MapIn

\* The kernel has its map, and every user space the kernel half.
EarlyMap ==
  stage \notin Unpaged =>
    /\ MapIn(tables, EarlyPgd) = IF stage \in Bridged THEN BridgeMap ELSE KernelMap
    /\ Roots = {EarlyPgd} \cup spaces /\ EarlyPgd \notin spaces

HighMapped ==
  stage \notin Unpaged =>
    \A s \in spaces, v \in VPages : Vpn2(v) >= KernelBase => Walk(tables, s, v) = KernelAt(v)

LEMMA KernelMaps == Inv => EarlyMap /\ HighMapped
<1> SUFFICES ASSUME Inv, stage \notin Unpaged PROVE EarlyMap /\ HighMapped
  BY DEF EarlyMap, HighMapped
<1>1. /\ satp = EarlyPgd /\ \A p \in Early \ {EarlyPgd} : tables[p] = FirstTable(p)
      /\ tables[EarlyPgd] = IF stage \in Bridged THEN EarlyPgdTable ELSE KernelPgd
  BY DEF Inv, EarlyTables
<1>2. MapIn(tables, EarlyPgd) = IF stage \in Bridged THEN BridgeMap ELSE KernelMap
  BY <1>1, KernelRoot, MapInKernel, MapInBridge
<1>3. Roots = {EarlyPgd} \cup spaces /\ EarlyPgd \notin spaces
  BY <1>1, EarlyApart DEF Roots, Bare, Inv, Types
<1>4. HighMapped
  BY <1>1, HighWalk DEF HighMapped, Inv, Trees3, KernelShared
<1> QED BY <1>2, <1>3, <1>4 DEF EarlyMap

LEMMA KernelMapsNext == Inv' => EarlyMap' /\ HighMapped'
BY KernelMaps, PTL

LEMMA SetupMaps ==
  ASSUME Inv, Inv', CallSetupVm
  PROVE  /\ Maps = [s \in {} |-> KernelMap]
         /\ Maps' = [s \in {EarlyPgd} |-> BridgeMap]
<1>1. stage = "stack" /\ stage' = "paged" /\ satp = Bare /\ spaces = {} /\ spaces' = {}
  BY DEF CallSetupVm, At, SetupVm, Inv, EarlyTables, Unpaged
<1>2. Roots = {}
  BY <1>1 DEF Roots
<1>3. Roots' = {EarlyPgd} /\ MapIn(tables', EarlyPgd) = BridgeMap
  BY <1>1, KernelMapsNext DEF EarlyMap, Unpaged, Bridged
<1> QED BY <1>2, <1>3, MapsIn

LEMMA DropMaps ==
  ASSUME Inv, Inv', CallDropIdentityMap
  PROVE  DOMAIN Maps = {EarlyPgd} /\ Maps' = [s \in {EarlyPgd} |-> KernelMap]
<1>1. stage = "moved" /\ stage' = "dropped" /\ spaces = {} /\ spaces' = {}
  BY DEF CallDropIdentityMap, At, DropIdentityMap, Inv, EarlyTables
<1>2. Roots = {EarlyPgd}
  BY <1>1, KernelMaps DEF EarlyMap, Unpaged
<1>3. Roots' = {EarlyPgd} /\ MapIn(tables', EarlyPgd) = KernelMap
  BY <1>1, KernelMapsNext DEF EarlyMap, Unpaged, Bridged
<1> QED BY <1>2, <1>3, MapsIn

LEMMA CreateMaps ==
  ASSUME Inv, Inv', CreateUserPgd
  PROVE  \E p : /\ p \notin DOMAIN Maps
                /\ Maps' = [s \in DOMAIN Maps \cup {p} |-> IF s = p THEN KernelMap ELSE Maps[s]]
<1>1. PICK p \in free : /\ free' = free \ {p} /\ spaces' = spaces \cup {p}
                        /\ tables' = NewTable(tables, p, UserPgd)
  BY DEF CreateUserPgd, VmCreateUserPgd
<1>2. stage = "vmtest" /\ stage' = stage
  BY DEF CreateUserPgd, VmTest, OnlyVm
<1>3. /\ EarlyMap /\ HighMapped /\ EarlyMap' /\ HighMapped'
      /\ stage \notin Unpaged /\ stage \notin Bridged
      /\ Types /\ Trees3 /\ Types' /\ Trees3'
  BY <1>2, KernelMaps, KernelMapsNext DEF Unpaged, Bridged, Inv
<1>4. p \notin Roots /\ Roots' = Roots \cup {p}
  BY <1>1, <1>2, <1>3, EarlyApart DEF EarlyMap, Types
<1>5. MapIn(tables', EarlyPgd) = MapIn(tables, EarlyPgd)
  BY <1>2, <1>3 DEF EarlyMap
<1>6. MapIn(tables', p) = KernelMap
  <2>1. ASSUME NEW v \in VPages PROVE Walk(tables', p, v) = KernelAt(v)
    <3>1. CASE Vpn2(v) < KernelBase
      BY <1>1, <1>3, <3>1, PgdWalks, UserUnmapped
    <3>2. CASE Vpn2(v) >= KernelBase
      BY <1>1, <1>2, <1>3, <3>2 DEF HighMapped
    <3> QED BY <3>1, <3>2, HalfOf
  <2> QED BY <2>1, MapInKernel
<1>7. ASSUME NEW s \in spaces PROVE MapIn(tables', s) = MapIn(tables, s)
  <2>1. ASSUME NEW v \in VPages PROVE Walk(tables', s, v) = Walk(tables, s, v)
    <3>1. CASE Vpn2(v) < KernelBase
      BY <1>1, <1>3, <3>1, PgdWalks
    <3>2. CASE Vpn2(v) >= KernelBase
      BY <1>1, <1>2, <1>3, <3>2 DEF HighMapped
    <3> QED BY <3>1, <3>2, HalfOf
  <2> QED BY <2>1, SameMap
<1>8. \A s \in Roots : MapIn(tables', s) = MapIn(tables, s)
  BY <1>3, <1>5, <1>7 DEF EarlyMap
<1> QED BY <1>4, <1>6, <1>8, MapsIn

\* What a step of map_pages_to does to the map of one address space.
LEMMA LinkMaps ==
  ASSUME Inv, Inv', stage = "vmtest", stage' = stage, satp' = satp, spaces' = spaces, LinksTable
  PROVE  Maps' = Maps
<1>1. /\ EarlyMap /\ HighMapped /\ EarlyMap' /\ HighMapped'
      /\ stage \notin Unpaged /\ stage \notin Bridged
  BY KernelMaps, KernelMapsNext DEF Unpaged, Bridged
<1>2. Roots' = Roots /\ MapIn(tables', EarlyPgd) = MapIn(tables, EarlyPgd)
  BY <1>1 DEF EarlyMap
<1>3. ASSUME NEW s \in spaces PROVE MapIn(tables', s) = MapIn(tables, s)
  <2>1. ASSUME NEW v \in VPages PROVE Walk(tables', s, v) = Walk(tables, s, v)
    <3>1. CASE Vpn2(v) < KernelBase
      BY <3>1, LinkWalks
    <3>2. CASE Vpn2(v) >= KernelBase
      BY <1>1, <3>2 DEF HighMapped
    <3> QED BY <3>1, <3>2, HalfOf
  <2> QED BY <2>1, SameMap
<1>4. \A s \in Roots : MapIn(tables', s) = MapIn(tables, s)
  BY <1>1, <1>2, <1>3 DEF EarlyMap
<1> QED BY <1>2, <1>4, MapsIn

\* The maps m, with v mapped in s.
Added(m, s, v, leaf) ==
  [t \in DOMAIN m |->
     IF t = s THEN [u \in DOMAIN m[t] \cup {v} |-> IF u = v THEN leaf ELSE m[t][u]] ELSE m[t]]

LEMMA FillMaps ==
  ASSUME Inv, Inv', stage = "vmtest", stage' = stage, satp' = satp, spaces' = spaces, Fills
  PROVE  /\ call.pgd \in DOMAIN Maps \ {EarlyPgd} /\ CurVa \notin DOMAIN Maps[call.pgd]
         /\ Maps' = Added(Maps, call.pgd, CurVa, Leaf(call.pa + call.i, UserProt))
<1>1. /\ EarlyMap /\ HighMapped /\ EarlyMap' /\ HighMapped'
      /\ stage \notin Unpaged /\ stage \notin Bridged
  BY KernelMaps, KernelMapsNext DEF Unpaged, Bridged
<1>2. Roots' = Roots /\ MapIn(tables', EarlyPgd) = MapIn(tables, EarlyPgd)
  BY <1>1 DEF EarlyMap
<1>3. /\ CurVa \in VPages /\ Vpn2(CurVa) < KernelBase /\ Vpn2(CurVa) \in Int
      /\ call.pgd \in spaces /\ Walk(tables, call.pgd, CurVa) = None
  BY CurFacts, FillWalks, Sizes DEF Fills, Index
<1> DEFINE leaf == Leaf(call.pa + call.i, UserProt)
<1>4. ASSUME NEW s \in spaces, NEW v \in VPages
      PROVE  Walk(tables', s, v) = IF s = call.pgd /\ v = CurVa THEN leaf ELSE Walk(tables, s, v)
  <2>1. CASE Vpn2(v) < KernelBase
    BY <2>1, FillWalks
  <2>2. CASE Vpn2(v) >= KernelBase
    BY <1>1, <1>3, <2>2, Sizes DEF HighMapped
  <2> QED BY <2>1, <2>2, HalfOf
<1>5. leaf # None
  BY EntryFacts
<1> HIDE DEF leaf
<1>6. ASSUME NEW s \in spaces, s # call.pgd PROVE MapIn(tables', s) = MapIn(tables, s)
  BY <1>4, <1>6, SameMap
<1>7. LET m == MapIn(tables, call.pgd)
      IN  /\ CurVa \notin DOMAIN m
          /\ MapIn(tables', call.pgd) =
               [u \in DOMAIN m \cup {CurVa} |-> IF u = CurVa THEN leaf ELSE m[u]]
  <2> DEFINE m == MapIn(tables, call.pgd)
             n == MapIn(tables', call.pgd)
  <2>1. DOMAIN m = {u \in VPages : Walk(tables, call.pgd, u) # None}
        /\ \A u \in DOMAIN m : m[u] = Walk(tables, call.pgd, u)
    BY DEF MapIn
  <2>2. n = [u \in {u \in VPages : Walk(tables', call.pgd, u) # None} |-> Walk(tables', call.pgd, u)]
    BY DEF MapIn
  <2>3. {u \in VPages : Walk(tables', call.pgd, u) # None} = DOMAIN m \cup {CurVa}
    BY <1>3, <1>4, <1>5, <2>1
  <2>4. \A u \in DOMAIN m \cup {CurVa} :
          Walk(tables', call.pgd, u) = IF u = CurVa THEN leaf ELSE m[u]
    BY <1>3, <1>4, <2>1
  <2>5. CurVa \notin DOMAIN m
    BY <1>3, <2>1
  <2> HIDE DEF m, n
  <2>6. n = [u \in DOMAIN m \cup {CurVa} |-> IF u = CurVa THEN leaf ELSE m[u]]
    BY <2>2, <2>3, <2>4
  <2> QED BY <2>5, <2>6 DEF m, n
<1>8. Roots = {EarlyPgd} \cup spaces /\ EarlyPgd \notin spaces
  BY <1>1 DEF EarlyMap
<1>9. /\ DOMAIN Maps = Roots /\ \A s \in Roots : Maps[s] = MapIn(tables, s)
      /\ Maps' = [s \in Roots |-> MapIn(tables', s)]
  BY <1>2, MapsIn
<1>10. ASSUME NEW s \in Roots
       PROVE  MapIn(tables', s) =
                IF s = call.pgd
                THEN [u \in DOMAIN Maps[s] \cup {CurVa} |-> IF u = CurVa THEN leaf ELSE Maps[s][u]]
                ELSE Maps[s]
  BY <1>2, <1>3, <1>6, <1>7, <1>8, <1>9
<1> QED BY <1>3, <1>7, <1>8, <1>9, <1>10 DEF leaf, Added

LEMMA TestEndsMaps ==
  ASSUME Inv, Inv', TestEnds
  PROVE  /\ EarlyPgd \notin spaces /\ spaces \subseteq DOMAIN Maps
         /\ Maps' = [s \in DOMAIN Maps \ spaces |-> Maps[s]]
<1>1. stage = "vmtest" /\ stage' = "plic" /\ spaces' = {}
  BY DEF TestEnds, VmTest
<1>2. EarlyMap /\ EarlyMap'
  BY KernelMaps, KernelMapsNext
<1>3. /\ Roots = {EarlyPgd} \cup spaces /\ EarlyPgd \notin spaces /\ Roots' = {EarlyPgd}
      /\ MapIn(tables', EarlyPgd) = MapIn(tables, EarlyPgd)
  BY <1>1, <1>2 DEF EarlyMap, Unpaged, Bridged
<1> QED BY <1>3, MapsIn

(***************************************************************************)
(* Theorem: page tables implement partial maps.                            *)
(***************************************************************************)
\* The actions of PageMap, of these maps.
LEMMA PromisedInit == Promised!Init <=> Maps = [s \in {} |-> KernelMap]
BY DEF Promised!Init, Maps, Roots, KernelMap

LEMMA PromisedSwitchOn ==
  Promised!SwitchOn <=>
    /\ Maps = [s \in {} |-> KernelMap]
    /\ Maps' = [t \in DOMAIN Maps \cup {EarlyPgd} |-> IF t = EarlyPgd THEN BridgeMap ELSE Maps[t]]
BY DEF Promised!SwitchOn, Promised!With, Maps, Roots, KernelMap, BridgeMap

LEMMA PromisedDropBridge ==
  Promised!DropBridge <=> Maps' = [Maps EXCEPT ![EarlyPgd] = KernelMap]
BY DEF Promised!DropBridge, Maps, Roots, KernelMap

LEMMA PromisedNew ==
  ASSUME NEW p, p \notin DOMAIN Maps,
         Maps' = [t \in DOMAIN Maps \cup {p} |-> IF t = p THEN KernelMap ELSE Maps[t]]
  PROVE  Promised!Next
<1>1. p \in DOMAIN Maps'
  OBVIOUS
<1>2. Promised!New(p)
  BY DEF Promised!New, Promised!With, Maps, Roots, KernelMap
<1> QED BY <1>1, <1>2 DEF Promised!Next, Maps, Roots

LEMMA PromisedAdd ==
  ASSUME NEW s \in DOMAIN Maps \ {EarlyPgd}, NEW v, v \notin DOMAIN Maps[s], NEW leaf,
         Maps' = Added(Maps, s, v, leaf)
  PROVE  Promised!Next
<1>1. s \in DOMAIN Maps' /\ v \in DOMAIN Maps'[s] /\ Maps'[s][v] = leaf
  BY DEF Added
<1>2. Maps' = [t \in DOMAIN Maps \cup {s} |->
                 IF t = s
                 THEN [u \in DOMAIN Maps[s] \cup {v} |-> IF u = v THEN Maps'[s][v] ELSE Maps[s][u]]
                 ELSE Maps[t]]
  BY <1>1 DEF Added
<1>3. Promised!Add(s, v, Maps'[s][v])
  BY <1>2 DEF Promised!Add, Promised!With, Maps, Roots
<1> QED BY <1>1, <1>3 DEF Promised!Next, Maps, Roots

LEMMA PromisedLose ==
  ASSUME spaces \subseteq DOMAIN Maps, EarlyPgd \notin spaces,
         Maps' = [t \in DOMAIN Maps \ spaces |-> Maps[t]]
  PROVE  Promised!Next
<1>1. Promised!Lose(spaces)
  BY DEF Promised!Lose, Maps, Roots
<1>2. spaces \in SUBSET (DOMAIN Maps \ {EarlyPgd})
  OBVIOUS
<1> QED BY <1>1, <1>2 DEF Promised!Next, Maps, Roots

LEMMA MapsStep ==
  ASSUME Inv, Inv', [Next]_vars
  PROVE  Promised!Next \/ Maps' = Maps
<1>1. ASSUME UNCHANGED <<satp, tables, spaces>> PROVE Maps' = Maps
  <2>1. Roots' = Roots
    BY <1>1 DEF Roots
  <2> QED BY <1>1, <2>1, MapsIn
<1>2. CASE CallSetupVm
  <2>1. Promised!SwitchOn
    BY <1>2, SetupMaps, PromisedSwitchOn
  <2> QED BY <2>1 DEF Promised!Next
<1>3. CASE CallDropIdentityMap
  <2>1. Promised!DropBridge
    BY <1>3, DropMaps, PromisedDropBridge
  <2> QED BY <2>1 DEF Promised!Next
<1>4. CASE CreateUserPgd
  BY <1>4, CreateMaps, PromisedNew
<1>5. CASE Mapper
  <2>1. stage = "vmtest" /\ stage' = stage /\ MapStep
    BY <1>5 DEF Mapper, OnlyVm
  <2>2. satp' = satp /\ spaces' = spaces /\ (LinksTable \/ Fills \/ Settles)
    BY <2>1, MapSteps
  <2>3. CASE LinksTable
    BY <2>1, <2>2, <2>3, LinkMaps
  <2>4. CASE Fills
    BY <2>1, <2>2, <2>4, FillMaps, PromisedAdd
  <2>5. CASE Settles
    BY <1>1, <2>2, <2>5 DEF Settles
  <2> QED BY <2>2, <2>3, <2>4, <2>5
<1>6. CASE TestEnds
  BY <1>6, TestEndsMaps, PromisedLose
<1>7. CASE SetStack \/ JumpHigh \/ SetStackAndStvec \/ EnterKernel \/ UartInit \/ InitrdSetRange
           \/ MmInit \/ MapUserPages \/ PlicInit \/ Ls \/ CatFile \/ Exec \/ Halted \/ UNCHANGED vars
  BY <1>1, <1>7 DEF SetStack, JumpHigh, SetStackAndStvec, EnterKernel, UartInit, InitrdSetRange,
    MmInit, MapUserPages, PlicInit, Ls, CatFile, Exec, Answers, Halted, vars, vmVars
<1> QED BY <1>2, <1>3, <1>4, <1>5, <1>6, <1>7 DEF Next, StartS, StartKernel

\* vm.c: the tables are partial maps, whatever the size of tables, memory and pool and
\* however calls of map_pages_to share out the pool's pages: the kernel half is the
\* same in every address space, user mappings are added one at a time and never in the
\* place of others, and no step of one address space shows in another.
THEOREM TablesAlwaysMaps == Spec => TablesAreMaps
<1>1. Init => Promised!Init
  <2> SUFFICES ASSUME Init PROVE Promised!Init
    OBVIOUS
  <2>1. Roots = {}
    BY DEF Init, VmInit, Roots
  <2> QED BY <2>1, MapsIn, PromisedInit
<1>2. Inv /\ Inv' /\ [Next]_vars => Promised!Next \/ Maps' = Maps
  BY MapsStep
<1>3. Inv /\ Inv' /\ [Next]_vars => [Promised!Next]_([s \in ({satp} \ {Bare}) \cup spaces |-> MapOf(s)])
  BY <1>2 DEF Maps, Roots
<1> QED BY <1>1, <1>3, AlwaysInv, PTL DEF Spec, TablesAreMaps, Promised!Spec

(***************************************************************************)
(* The readers of the archive.  Their loops are functions of the place in  *)
(* the archive, defined by recursion on what is left of it.                *)
(***************************************************************************)
\* A loop that stops at a place of `stop`, and else goes on at a later place, all before
\* `bound`, and what it finds: at each place `res`, or `join` of what it finds later.
Terminates(bound, stop, nxt) ==
  /\ bound \in Nat /\ nxt \in [Nat -> Nat]
  /\ \A p \in Nat : p \notin stop => p < bound /\ nxt[p] > p

Results(f, stop, res, nxt, join) ==
  \A p \in Nat : f[p] = IF p \in stop THEN res[p] ELSE join[<<p, f[nxt[p]]>>]

\* Such a loop finds something, wherever it starts.
LEMMA ScanDefined ==
  ASSUME NEW S, NEW bound, NEW stop, NEW nxt, Terminates(bound, stop, nxt),
         NEW res \in [Nat -> S], NEW join \in [Nat \X S -> S]
  PROVE  \E f \in [Nat -> S] : Results(f, stop, res, nxt, join)
<1> USE DEF Terminates, Results
<1> DEFINE Right(f, p) == f[p] = IF p \in stop THEN res[p] ELSE join[<<p, f[nxt[p]]>>]
           RightFrom(f, m) == \A p \in Nat : p >= bound - m => Right(f, p)
           Bad == {m \in 0 .. bound : ~ \E f \in [Nat -> S] : RightFrom(f, m)}
<1>1. ASSUME Bad # {} PROVE FALSE
  <2>1. PICK m \in Bad : \A k \in Bad : m <= k
    <3>1. Bad \in SUBSET Nat
      OBVIOUS
    <3> QED BY <1>1, <3>1, LeastNatural
  <2>2. m \in 0 .. bound /\ ~ \E f \in [Nat -> S] : RightFrom(f, m)
    BY <2>1
  <2>3. m # 0
    <3>1. RightFrom(res, 0)
      <4>1. \A p \in Nat : p >= bound => p \in stop
        OBVIOUS
      <4> QED BY <4>1
    <3> QED BY <2>2, <3>1
  <2>4. PICK f \in [Nat -> S] : RightFrom(f, m - 1)
    <3>1. m - 1 \in 0 .. bound /\ ~(m <= m - 1)
      BY <2>2, <2>3
    <3>2. m - 1 \notin Bad
      BY <2>1, <3>1
    <3> QED BY <3>1, <3>2
  <2> DEFINE q == bound - m
             v == IF q \in stop THEN res[q] ELSE join[<<q, f[nxt[q]]>>]
             g == [f EXCEPT ![q] = v]
  <2>5. q \in Nat
    BY <2>2
  <2>6. v \in S
    BY <2>5
  <2>7. g \in [Nat -> S] /\ g[q] = v /\ \A p \in Nat : p # q => g[p] = f[p]
    BY <2>5, <2>6
  <2> HIDE DEF g
  <2>8. ASSUME NEW p \in Nat, p >= q PROVE Right(g, p)
    <3>1. p \notin stop => nxt[p] \in Nat /\ nxt[p] # q /\ g[nxt[p]] = f[nxt[p]]
      BY <2>5, <2>7, <2>8
    <3>2. CASE p = q
      BY <2>7, <3>1, <3>2
    <3>3. CASE p # q
      <4>1. p >= bound - (m - 1)
        BY <2>2, <2>8, <3>3
      <4>2. Right(f, p)
        BY <2>4, <4>1
      <4> QED BY <2>7, <3>1, <3>3, <4>2
    <3> QED BY <3>2, <3>3
  <2> QED BY <2>2, <2>7, <2>8
<1>2. \E f \in [Nat -> S] : RightFrom(f, bound)
  <2>1. bound \in 0 .. bound
    OBVIOUS
  <2>2. bound \notin Bad
    BY <1>1
  <2> HIDE DEF RightFrom
  <2> QED BY <2>1, <2>2
<1>3. PICK f \in [Nat -> S] : RightFrom(f, bound)
  BY <1>2
<1>4. \A p \in Nat : Right(f, p)
  BY <1>3
<1> QED BY <1>4

\* A loop that goes on at every entry before the j-th finds what it finds there.
LEMMA ScanSkips ==
  ASSUME NEW j \in Nat, NEW g, \A k \in 1 .. j - 1 : g[k] = g[k + 1]
  PROVE  \A k \in 1 .. j : g[k] = g[j]
<1> DEFINE Bad == {d \in 0 .. j - 1 : g[j - d] # g[j]}
<1>1. ASSUME Bad # {} PROVE FALSE
  <2>1. PICK d \in Bad : \A e \in Bad : d <= e
    <3>1. Bad \in SUBSET Nat
      OBVIOUS
    <3> QED BY <1>1, <3>1, LeastNatural
  <2>2. d \in 0 .. j - 1 /\ d # 0 /\ g[j - d] # g[j]
    BY <2>1
  <2>3. d - 1 \in 0 .. j - 1 /\ ~(d <= d - 1)
    BY <2>2
  <2>4. g[j - (d - 1)] = g[j]
    BY <2>1, <2>3
  <2>5. j - d \in 1 .. j - 1 /\ (j - d) + 1 = j - (d - 1)
    BY <2>2
  <2> QED BY <2>2, <2>4, <2>5
<1>2. ASSUME NEW k \in 1 .. j PROVE g[k] = g[j]
  <2>1. j - k \in 0 .. j - 1 /\ j - (j - k) = k
    OBVIOUS
  <2> QED BY <1>1, <2>1
<1> QED BY <1>2

\* Padding is never negative.
LEMMA PaddingFacts ==
  ASSUME NEW x \in Nat
  PROVE  Align4(x) \in Nat /\ Align4(x) >= x
BY DEF Align4

\* The places of an archive: headers, data, and the next header.
LEMMA Places ==
  ASSUME NEW es, NEW hs, IsNewc(es, hs)
  PROVE  /\ Len(es) \in Nat /\ DOMAIN es = 1 .. Len(es) /\ DOMAIN hs = 1 .. Len(es)
         /\ Len(es) > 0 => hs[1] = 0
         /\ \A k \in 1 .. Len(es) :
              /\ hs[k] \in Nat /\ es[k].dot \in BOOLEAN /\ es[k].filesize \in Nat
              /\ es[k].namesize \in Nat
              /\ DataOff(es[k]) \in Nat /\ DataOff(es[k]) >= HeaderSize + es[k].namesize
              /\ NextOff(es[k]) \in Nat /\ NextOff(es[k]) >= DataOff(es[k]) + es[k].filesize
              /\ NextOff(es[k]) > 0
         /\ \A k \in 1 .. Len(es) : HeaderAt(hs, hs[k]) = {k}
         /\ \A k \in 1 .. Len(es) : \A i \in 1 .. k - 1 :
              hs[i + 1] = hs[i] + NextOff(es[i]) /\ hs[i + 1] <= hs[k]
         /\ \A k \in 1 .. Len(es) : k = Len(es) => HeaderAt(hs, hs[k] + NextOff(es[k])) = {}
<1> DEFINE n == Len(es)
<1>1. /\ n \in Nat /\ DOMAIN es = 1 .. n /\ DOMAIN hs = 1 .. n /\ (n > 0 => hs[1] = 0)
      /\ \A k \in 1 .. n :
           /\ es[k].dot \in BOOLEAN /\ es[k].namesize \in Nat /\ es[k].filesize \in Nat
           /\ k < n => hs[k + 1] = hs[k] + NextOff(es[k])
  BY DEF IsNewc, NextOff, DataOff
<1> HIDE DEF n
<1>2. \A k \in 1 .. n :
        /\ DataOff(es[k]) \in Nat /\ DataOff(es[k]) >= HeaderSize + es[k].namesize
        /\ NextOff(es[k]) \in Nat /\ NextOff(es[k]) >= DataOff(es[k]) + es[k].filesize
  <2>1. ASSUME NEW k \in 1 .. n
        PROVE  /\ DataOff(es[k]) \in Nat /\ DataOff(es[k]) >= HeaderSize + es[k].namesize
               /\ NextOff(es[k]) \in Nat /\ NextOff(es[k]) >= DataOff(es[k]) + es[k].filesize
    <3>1. HeaderSize + es[k].namesize \in Nat
      BY <1>1 DEF HeaderSize
    <3>2. DataOff(es[k]) \in Nat /\ DataOff(es[k]) >= HeaderSize + es[k].namesize
      BY <3>1, PaddingFacts DEF DataOff
    <3>3. DataOff(es[k]) + es[k].filesize \in Nat
      BY <1>1, <3>2
    <3> QED BY <3>2, <3>3, PaddingFacts DEF NextOff
  <2> QED BY <2>1
<1>3. ASSUME NEW k \in 1 .. n PROVE NextOff(es[k]) > 0
  <2>1. /\ DataOff(es[k]) \in Nat /\ es[k].namesize \in Nat /\ es[k].filesize \in Nat
        /\ DataOff(es[k]) >= HeaderSize + es[k].namesize
        /\ NextOff(es[k]) \in Nat /\ NextOff(es[k]) >= DataOff(es[k]) + es[k].filesize
    BY <1>1, <1>2
  <2> QED BY <2>1 DEF HeaderSize
<1> DEFINE Bad == {k \in 1 .. n : ~(hs[k] \in Nat /\ \A i \in 1 .. k - 1 : hs[i] + NextOff(es[i]) <= hs[k])}
<1>4. ASSUME Bad # {} PROVE FALSE
  <2>1. PICK k \in Bad : \A j \in Bad : k <= j
    <3>1. Bad \in SUBSET Nat
      BY <1>1
    <3> QED BY <1>4, <3>1, LeastNatural
  <2>2. k \in 1 .. n /\ ~(hs[k] \in Nat /\ \A i \in 1 .. k - 1 : hs[i] + NextOff(es[i]) <= hs[k])
    BY <2>1
  <2>3. k # 1
    BY <1>1, <2>2
  <2>4. k - 1 \in 1 .. n /\ ~(k <= k - 1) /\ k - 1 < n /\ (k - 1) + 1 = k
    BY <1>1, <2>2, <2>3
  <2>5. hs[k - 1] \in Nat /\ \A i \in 1 .. k - 2 : hs[i] + NextOff(es[i]) <= hs[k - 1]
    <3>1. k - 1 \notin Bad
      BY <2>1, <2>4
    <3>2. (k - 1) - 1 = k - 2
      BY <2>2
    <3> QED BY <2>4, <3>1, <3>2
  <2>6. hs[k] = hs[k - 1] + NextOff(es[k - 1]) /\ NextOff(es[k - 1]) \in Nat /\ hs[k] \in Nat
    <3>1. hs[(k - 1) + 1] = hs[k - 1] + NextOff(es[k - 1])
      BY <1>1, <2>4
    <3>2. NextOff(es[k - 1]) \in Nat
      BY <1>2, <2>4
    <3> QED BY <2>4, <2>5, <3>1, <3>2
  <2>7. ASSUME NEW i \in 1 .. k - 1 PROVE hs[i] + NextOff(es[i]) <= hs[k]
    <3>1. CASE i = k - 1
      BY <2>6, <3>1
    <3>2. CASE i # k - 1
      <4>1. i \in 1 .. k - 2 /\ i \in 1 .. n
        BY <1>1, <2>2, <3>2
      <4>2. k - 1 < n /\ i \in 1 .. n /\ i < n
        BY <1>1, <2>2, <2>4, <4>1
      <4>3. hs[i] + NextOff(es[i]) <= hs[k - 1]
        BY <2>5, <4>1
      <4>4. hs[i] + NextOff(es[i]) \in Nat
        <5>1. i \notin Bad
          <6>1. ~(k <= i)
            BY <2>2, <4>1
          <6> QED BY <2>1, <6>1
        <5>2. hs[i] \in Nat /\ NextOff(es[i]) \in Nat
          BY <1>2, <4>1, <5>1
        <5> QED BY <5>2
      <4> QED BY <2>5, <2>6, <4>3, <4>4
    <3> QED BY <3>1, <3>2
  <2> QED BY <2>2, <2>6, <2>7
<1>5. \A k \in 1 .. n : hs[k] \in Nat /\ \A i \in 1 .. k - 1 : hs[i] + NextOff(es[i]) <= hs[k]
  BY <1>4
<1>6. ASSUME NEW k \in 1 .. n, NEW i \in 1 .. n, hs[k] = hs[i] PROVE i = k
  <2>1. ASSUME NEW a \in 1 .. n, NEW b \in 1 .. n, a < b PROVE hs[a] # hs[b]
    <3>1. a \in 1 .. b - 1
      BY <1>1, <2>1
    <3>2. hs[a] + NextOff(es[a]) <= hs[b] /\ hs[a] \in Nat /\ hs[b] \in Nat
      BY <1>5, <3>1
    <3>3. NextOff(es[a]) \in Nat /\ NextOff(es[a]) > 0
      BY <1>2, <1>3
    <3> QED BY <3>2, <3>3
  <2>2. i < k \/ k < i \/ i = k
    BY <1>1
  <2> QED BY <1>6, <2>1, <2>2
<1>7. \A k \in 1 .. n : HeaderAt(hs, hs[k]) = {k}
  BY <1>1, <1>6 DEF HeaderAt
<1>8. ASSUME NEW k \in 1 .. n, NEW i \in 1 .. k - 1
      PROVE  hs[i + 1] = hs[i] + NextOff(es[i]) /\ hs[i + 1] <= hs[k]
  <2>1. i \in 1 .. n /\ i < n
    BY <1>1
  <2> QED BY <1>1, <1>5, <2>1
<1>9. ASSUME NEW k \in 1 .. n, k = n PROVE HeaderAt(hs, hs[k] + NextOff(es[k])) = {}
  <2>1. ASSUME NEW i \in 1 .. n PROVE hs[i] # hs[k] + NextOff(es[k])
    <3>1. hs[i] \in Nat /\ hs[k] \in Nat /\ NextOff(es[k]) \in Nat /\ NextOff(es[k]) > 0
      BY <1>2, <1>3, <1>5
    <3>2. CASE i = k
      BY <3>1, <3>2
    <3>3. CASE i # k
      <4>1. i \in 1 .. k - 1
        BY <1>1, <1>9, <3>3
      <4>2. hs[i] + NextOff(es[i]) <= hs[k] /\ NextOff(es[i]) \in Nat
        BY <1>2, <1>5, <4>1
      <4> QED BY <3>1, <4>2
    <3> QED BY <3>2, <3>3
  <2> QED BY <1>1, <2>1 DEF HeaderAt
<1> QED BY <1>1, <1>2, <1>3, <1>5, <1>7, <1>8, <1>9 DEF n

\* The entry of the archive whose header is at a place.
IndexAt(hs, p) == CHOOSE k \in HeaderAt(hs, p) : TRUE
EntryAt(es, hs, p) == es[IndexAt(hs, p)]

\* The entries and the headers are numbered alike, the first header is at the start.
LEMMA Indices ==
  ASSUME NEW es, NEW hs, IsNewc(es, hs)
  PROVE  /\ Len(es) \in Nat /\ DOMAIN es = 1 .. Len(es) /\ DOMAIN hs = 1 .. Len(es)
         /\ Len(es) > 0 => hs[1] = 0
BY Places

\* The sizes of an entry: its data is behind its name, the next entry behind its data.
LEMMA EntrySizes ==
  ASSUME NEW es, NEW hs, IsNewc(es, hs), NEW k \in 1 .. Len(es)
  PROVE  /\ hs[k] \in Nat /\ es[k].dot \in BOOLEAN /\ es[k].filesize \in Nat
         /\ es[k].namesize \in Nat
         /\ DataOff(es[k]) \in Nat /\ DataOff(es[k]) >= HeaderSize + es[k].namesize
         /\ NextOff(es[k]) \in Nat /\ NextOff(es[k]) >= DataOff(es[k]) + es[k].filesize
         /\ NextOff(es[k]) > 0
<1>1. \A i \in 1 .. Len(es) :
        /\ hs[i] \in Nat /\ es[i].dot \in BOOLEAN /\ es[i].filesize \in Nat
        /\ es[i].namesize \in Nat
        /\ DataOff(es[i]) \in Nat /\ DataOff(es[i]) >= HeaderSize + es[i].namesize
        /\ NextOff(es[i]) \in Nat /\ NextOff(es[i]) >= DataOff(es[i]) + es[i].filesize
        /\ NextOff(es[i]) > 0
  BY Places
<1> QED BY <1>1

\* Entries lie one behind the other.
LEMMA NextPlace ==
  ASSUME NEW es, NEW hs, IsNewc(es, hs), NEW k \in 1 .. Len(es), NEW i \in 1 .. k - 1
  PROVE  hs[i + 1] = hs[i] + NextOff(es[i]) /\ hs[i + 1] <= hs[k]
<1>1. \A x \in 1 .. Len(es) : \A y \in 1 .. x - 1 :
        hs[y + 1] = hs[y] + NextOff(es[y]) /\ hs[y + 1] <= hs[x]
  BY Places
<1> QED BY <1>1

\* No header is behind the last entry.
LEMMA PlaceBehind ==
  ASSUME NEW es, NEW hs, IsNewc(es, hs), NEW k \in 1 .. Len(es), k = Len(es)
  PROVE  HeaderAt(hs, hs[k] + NextOff(es[k])) = {}
<1>1. \A i \in 1 .. Len(es) : i = Len(es) => HeaderAt(hs, hs[i] + NextOff(es[i])) = {}
  BY Places
<1> QED BY <1>1

\* One header is where an entry begins: its own.
LEMMA HeaderPlace ==
  ASSUME NEW es, NEW hs, IsNewc(es, hs), NEW k \in 1 .. Len(es)
  PROVE  HeaderAt(hs, hs[k]) = {k}
<1>1. \A i \in 1 .. Len(es) : HeaderAt(hs, hs[i]) = {i}
  BY Places
<1> QED BY <1>1

\* What a header says are sizes, and they lead on.
LEMMA EntryTyped ==
  ASSUME NEW es, NEW hs, IsNewc(es, hs), NEW p \in Nat, HeaderAt(hs, p) # {}
  PROVE  LET e == EntryAt(es, hs, p)
         IN  /\ e.dot \in BOOLEAN /\ e.filesize \in Nat /\ e.namesize \in Nat
             /\ DataOff(e) \in Nat /\ NextOff(e) \in Nat /\ NextOff(e) > 0
             /\ \E k \in 1 .. Len(es) : hs[k] = p /\ e = es[k]
<1>1. PICK k \in 1 .. Len(es) : hs[k] = p
  <2>1. DOMAIN hs = 1 .. Len(es)
    BY Indices
  <2> QED BY <2>1 DEF HeaderAt
<1>3. HeaderAt(hs, hs[k]) = {k}
  BY HeaderPlace
<1>4. EntryAt(es, hs, p) = es[k]
  BY <1>1, <1>3 DEF EntryAt, IndexAt
<1> QED BY <1>1, <1>4, EntrySizes

\* One turn of the loop of initrd_find_file.
FindTurn(es, hs, end, want, p, on) ==
  IF p + HeaderSize > end THEN Failed
  ELSE IF HeaderAt(hs, p) = {} THEN Failed
  ELSE LET e == EntryAt(es, hs, p)
       IN  IF p + HeaderSize + e.namesize > end THEN Failed
           ELSE IF IsTrailer(e) THEN Failed
           ELSE IF p + DataOff(e) + e.filesize > end THEN Failed
           ELSE IF FilenameMatch(e, want) THEN p + DataOff(e)
           ELSE on[p + NextOff(e)]

\* The recursion of its translation, and what the call returns.
RunsFind(find, es, hs, end, want) ==
  /\ FindFile(es, hs, end, want) = IF end > 0 THEN find[0] ELSE Failed
  /\ \A p \in Nat : find[p] = FindTurn(es, hs, end, want, p, find)

\* initrd_find_file is that loop: on an archive of the format it is defined everywhere.
LEMMA FindLoop ==
  ASSUME NEW es, NEW hs, IsNewc(es, hs), NEW end \in Nat, NEW want
  PROVE  \E find : RunsFind(find, es, hs, end, want)
<1> DEFINE Turn(p, f) == FindTurn(es, hs, end, want, p, f)
           Loop(f) == [p \in Nat |-> Turn(p, f)]
           find == CHOOSE f : f = Loop(f)
           e(p) == EntryAt(es, hs, p)
           stop == {p \in Nat : \/ p + HeaderSize > end \/ HeaderAt(hs, p) = {}
                                \/ p + HeaderSize + e(p).namesize > end \/ IsTrailer(e(p))
                                \/ p + DataOff(e(p)) + e(p).filesize > end
                                \/ FilenameMatch(e(p), want)}
           res == [p \in Nat |-> IF p \in stop THEN Turn(p, <<>>) ELSE Failed]
           nxt == [p \in Nat |-> IF p \in stop THEN p ELSE p + NextOff(e(p))]
           S == Int
           join == [x \in Nat \X S |-> x[2]]
<1>1. FindFile(es, hs, end, want) = IF end > 0 THEN find[0] ELSE Failed
  BY DEF FindFile, FindTurn, EntryAt, IndexAt
<1>2. ASSUME NEW p \in Nat
      PROVE  /\ p \in stop => Turn(p, <<>>) \in Int /\ \A f : Turn(p, f) = Turn(p, <<>>)
             /\ p \notin stop => /\ \A f : Turn(p, f) = f[p + NextOff(e(p))]
                               /\ p + NextOff(e(p)) \in Nat /\ p + NextOff(e(p)) > p
                               /\ p < end
  <2>1. CASE HeaderAt(hs, p) = {}
    BY <2>1 DEF FindTurn, Failed
  <2>2. CASE HeaderAt(hs, p) # {}
    <3>1. DataOff(e(p)) \in Nat /\ NextOff(e(p)) \in Nat /\ NextOff(e(p)) > 0
      BY <2>2, EntryTyped
    <3>2. p \notin stop => p + HeaderSize <= end
      BY DEF HeaderSize
    <3> HIDE DEF e
    <3>3. p \notin stop => \A f : FindTurn(es, hs, end, want, p, f) = f[p + NextOff(e(p))]
      BY <2>2 DEF FindTurn, e
    <3>4. p \in stop => /\ FindTurn(es, hs, end, want, p, <<>>) \in Int
                        /\ \A f : FindTurn(es, hs, end, want, p, f) = FindTurn(es, hs, end, want, p, <<>>)
      BY <2>2, <3>1 DEF FindTurn, Failed, e
    <3> QED BY <3>1, <3>2, <3>3, <3>4 DEF HeaderSize
  <2> QED BY <2>1, <2>2
<1> HIDE DEF Turn, stop, e
<1>3. res \in [Nat -> S] /\ join \in [Nat \X S -> S] /\ Terminates(end, stop, nxt)
  <2>1. \A p \in Nat : res[p] \in S
    BY <1>2 DEF Failed
  <2>2. \A p \in Nat : nxt[p] \in Nat
    BY <1>2
  <2>3. \A p \in Nat : p \notin stop => p < end /\ nxt[p] > p
    BY <1>2
  <2> HIDE DEF res, nxt, join
  <2>4. res \in [Nat -> S]
    BY <2>1 DEF res
  <2>5. nxt \in [Nat -> Nat]
    BY <2>2 DEF nxt
  <2>6. join \in [Nat \X S -> S]
    BY DEF join
  <2> QED BY <2>3, <2>4, <2>5, <2>6 DEF Terminates
<1> HIDE DEF res, nxt, join, S
<1>4. PICK f \in [Nat -> S] : Results(f, stop, res, nxt, join)
  BY <1>3, ScanDefined
<1>5. ASSUME NEW p \in Nat PROVE f[p] = Turn(p, f)
  <2>1. CASE p \in stop
    BY <1>2, <1>4, <2>1 DEF res, Results
  <2>2. CASE p \notin stop
    <3>1. nxt[p] = p + NextOff(e(p)) /\ nxt[p] \in Nat /\ f[nxt[p]] \in S
      BY <1>2, <2>2 DEF nxt
    <3>2. f[p] = f[nxt[p]]
      BY <1>4, <2>2, <3>1 DEF join, Results
    <3> QED BY <1>2, <2>2, <3>1, <3>2
  <2> QED BY <2>1, <2>2
<1>6. f = Loop(f)
  BY <1>5
<1>7. find = Loop(find)
  BY <1>6
<1> HIDE DEF find
<1>8. \A p \in Nat : find[p] = Turn(p, find)
  BY <1>7
<1> QED BY <1>1, <1>8 DEF Turn, RunsFind

\* One turn of the loop of initrd_cat.
CatTurn(es, hs, end, want, p, on) ==
  IF HeaderAt(hs, p) = {} THEN Failed
  ELSE LET e == EntryAt(es, hs, p)
       IN  IF IsTrailer(e) THEN Failed
           ELSE IF FilenameMatch(e, want) THEN p + DataOff(e)
           ELSE IF p + NextOff(e) >= end THEN Failed
           ELSE on[p + NextOff(e)]

\* The recursion of its translation, and what the call returns.
RunsCat(cat, es, hs, end, want) ==
  /\ Cat(es, hs, end, want) = IF end > 0 THEN cat[0] ELSE Failed
  /\ \A p \in Nat : cat[p] = CatTurn(es, hs, end, want, p, cat)

\* initrd_cat is that loop.
LEMMA CatLoop ==
  ASSUME NEW es, NEW hs, IsNewc(es, hs), NEW end \in Nat, NEW want
  PROVE  \E cat : RunsCat(cat, es, hs, end, want)
<1> DEFINE Turn(p, f) == CatTurn(es, hs, end, want, p, f)
           Loop(f) == [p \in Nat |-> Turn(p, f)]
           cat == CHOOSE f : f = Loop(f)
           e(p) == EntryAt(es, hs, p)
           stop == {p \in Nat : \/ HeaderAt(hs, p) = {} \/ IsTrailer(e(p))
                                \/ FilenameMatch(e(p), want) \/ p + NextOff(e(p)) >= end}
           res == [p \in Nat |-> IF p \in stop THEN Turn(p, <<>>) ELSE Failed]
           nxt == [p \in Nat |-> IF p \in stop THEN p ELSE p + NextOff(e(p))]
           S == Int
           join == [x \in Nat \X S |-> x[2]]
<1>1. Cat(es, hs, end, want) = IF end > 0 THEN cat[0] ELSE Failed
  BY DEF Cat, CatTurn, EntryAt, IndexAt
<1>2. ASSUME NEW p \in Nat
      PROVE  /\ p \in stop => Turn(p, <<>>) \in S /\ \A f : Turn(p, f) = Turn(p, <<>>)
             /\ p \notin stop => /\ \A f : Turn(p, f) = f[p + NextOff(e(p))]
                               /\ p + NextOff(e(p)) \in Nat /\ p + NextOff(e(p)) > p
                               /\ p < end
  <2>1. CASE HeaderAt(hs, p) = {}
    BY <2>1 DEF CatTurn, Failed
  <2>2. CASE HeaderAt(hs, p) # {}
    <3>1. DataOff(e(p)) \in Nat /\ NextOff(e(p)) \in Nat /\ NextOff(e(p)) > 0
      BY <2>2, EntryTyped
    <3> HIDE DEF e
    <3>2. p \notin stop => p + NextOff(e(p)) < end
      BY <3>1
    <3>3. p \notin stop => \A f : CatTurn(es, hs, end, want, p, f) = f[p + NextOff(e(p))]
      BY <2>2 DEF CatTurn, e
    <3>4. p \in stop => /\ CatTurn(es, hs, end, want, p, <<>>) \in S
                        /\ \A f : CatTurn(es, hs, end, want, p, f) = CatTurn(es, hs, end, want, p, <<>>)
      BY <2>2, <3>1 DEF CatTurn, Failed, e
    <3> QED BY <3>1, <3>2, <3>3, <3>4
  <2> QED BY <2>1, <2>2
<1> HIDE DEF Turn, stop, e
<1>3. res \in [Nat -> S] /\ join \in [Nat \X S -> S] /\ Terminates(end, stop, nxt)
  <2>1. \A p \in Nat : res[p] \in S
    BY <1>2 DEF Failed
  <2>2. \A p \in Nat : nxt[p] \in Nat
    BY <1>2
  <2>3. \A p \in Nat : p \notin stop => p < end /\ nxt[p] > p
    BY <1>2
  <2> HIDE DEF res, nxt, join
  <2>4. res \in [Nat -> S]
    BY <2>1 DEF res
  <2>5. nxt \in [Nat -> Nat]
    BY <2>2 DEF nxt
  <2>6. join \in [Nat \X S -> S]
    BY DEF join
  <2> QED BY <2>3, <2>4, <2>5, <2>6 DEF Terminates
<1> HIDE DEF res, nxt, join, S
<1>4. PICK f \in [Nat -> S] : Results(f, stop, res, nxt, join)
  BY <1>3, ScanDefined
<1>5. ASSUME NEW p \in Nat PROVE f[p] = Turn(p, f)
  <2>1. CASE p \in stop
    BY <1>2, <1>4, <2>1 DEF res, Results
  <2>2. CASE p \notin stop
    <3>1. nxt[p] = p + NextOff(e(p)) /\ nxt[p] \in Nat /\ f[nxt[p]] \in S
      BY <1>2, <2>2 DEF nxt
    <3>2. f[p] = f[nxt[p]]
      BY <1>4, <2>2, <3>1 DEF join, Results
    <3> QED BY <1>2, <2>2, <3>1, <3>2
  <2> QED BY <2>1, <2>2
<1>6. f = Loop(f)
  BY <1>5
<1>7. cat = Loop(cat)
  BY <1>6
<1> HIDE DEF cat
<1>8. \A p \in Nat : cat[p] = Turn(p, cat)
  BY <1>7
<1> QED BY <1>1, <1>8 DEF Turn, RunsCat

\* One turn of the loop of initrd_list.
ListTurn(es, hs, end, p, on) ==
  IF HeaderAt(hs, p) = {} THEN <<>>
  ELSE LET k == IndexAt(hs, p)
           e == es[k]
       IN  IF IsTrailer(e) THEN <<>>
           ELSE <<k>> \o (IF p + NextOff(e) >= end THEN <<>> ELSE on[p + NextOff(e)])

\* The recursion of its translation, and what the call returns.
RunsList(list, es, hs, end) ==
  /\ List(es, hs, end) = IF end > 0 THEN list[0] ELSE <<>>
  /\ \A p \in Nat : list[p] = ListTurn(es, hs, end, p, list)

\* initrd_list is that loop.
LEMMA ListLoop ==
  ASSUME NEW es, NEW hs, IsNewc(es, hs), NEW end \in Nat
  PROVE  \E list : RunsList(list, es, hs, end)
<1> DEFINE Turn(p, f) == ListTurn(es, hs, end, p, f)
           Loop(f) == [p \in Nat |-> Turn(p, f)]
           list == CHOOSE f : f = Loop(f)
           k(p) == IndexAt(hs, p)
           e(p) == EntryAt(es, hs, p)
           stop == {p \in Nat : \/ HeaderAt(hs, p) = {} \/ IsTrailer(e(p))
                                \/ p + NextOff(e(p)) >= end}
           S == Seq(Nat)
           res == [p \in Nat |-> IF p \in stop THEN Turn(p, <<>>) ELSE <<>>]
           nxt == [p \in Nat |-> IF p \in stop THEN p ELSE p + NextOff(e(p))]
           join == [x \in Nat \X S |-> IF x[1] \in stop THEN <<>> ELSE <<k(x[1])>> \o x[2]]
<1>1. List(es, hs, end) = IF end > 0 THEN list[0] ELSE <<>>
  BY DEF List, ListTurn, IndexAt
<1>2. ASSUME NEW p \in Nat
      PROVE  /\ p \in stop => Turn(p, <<>>) \in S /\ \A f : Turn(p, f) = Turn(p, <<>>)
             /\ p \notin stop => /\ k(p) \in Nat /\ \A f : Turn(p, f) = <<k(p)>> \o f[p + NextOff(e(p))]
                               /\ p + NextOff(e(p)) \in Nat /\ p + NextOff(e(p)) > p
                               /\ p < end
  <2>1. CASE HeaderAt(hs, p) = {}
    BY <2>1 DEF ListTurn
  <2>2. CASE HeaderAt(hs, p) # {}
    <3>1. NextOff(e(p)) \in Nat /\ NextOff(e(p)) > 0
      BY <2>2, EntryTyped
    <3>2. k(p) \in Nat /\ e(p) = es[k(p)]
      <4>1. k(p) \in HeaderAt(hs, p)
        BY <2>2 DEF IndexAt
      <4>2. k(p) \in 1 .. Len(es) /\ Len(es) \in Nat
        BY <4>1, Indices DEF HeaderAt
      <4> QED BY <4>2 DEF EntryAt
    <3> HIDE DEF e, k
    <3>3. p \notin stop => p + NextOff(e(p)) < end
      BY <3>1
    <3>4. \A f : ListTurn(es, hs, end, p, f) =
                   IF IsTrailer(e(p)) THEN <<>>
                   ELSE <<k(p)>> \o (IF p + NextOff(e(p)) >= end THEN <<>> ELSE f[p + NextOff(e(p))])
      <4> USE <2>2, <3>2 DEF ListTurn, k
      <4> QED OBVIOUS
    <3>5. <<k(p)>> \o <<>> \in S /\ <<>> \in S
      BY <3>2
    <3> HIDE DEF S
    <3>6. p \notin stop => \A f : ListTurn(es, hs, end, p, f) = <<k(p)>> \o f[p + NextOff(e(p))]
      BY <2>2, <3>4
    <3>7. p \in stop => /\ ListTurn(es, hs, end, p, <<>>) \in S
                        /\ \A f : ListTurn(es, hs, end, p, f) = ListTurn(es, hs, end, p, <<>>)
      BY <2>2, <3>4, <3>5
    <3> QED BY <3>1, <3>2, <3>3, <3>6, <3>7
  <2> QED BY <2>1, <2>2
<1> HIDE DEF Turn, stop, e, k
<1>3. res \in [Nat -> S] /\ join \in [Nat \X S -> S] /\ Terminates(end, stop, nxt)
  <2>1. \A p \in Nat : res[p] \in S
    <3>1. <<>> \in S
      OBVIOUS
    <3> HIDE DEF S
    <3> QED BY <1>2, <3>1
  <2>2. \A p \in Nat : nxt[p] \in Nat
    BY <1>2
  <2>3. \A p \in Nat : p \notin stop => p < end /\ nxt[p] > p
    BY <1>2
  <2> HIDE DEF res, nxt, join
  <2>4. res \in [Nat -> S]
    BY <2>1 DEF res
  <2>5. nxt \in [Nat -> Nat]
    BY <2>2 DEF nxt
  <2>6. join \in [Nat \X S -> S]
    <3>1. ASSUME NEW x \in Nat \X S PROVE (IF x[1] \in stop THEN <<>> ELSE <<k(x[1])>> \o x[2]) \in S
      <4>1. x[1] \in Nat /\ x[2] \in Seq(Nat)
        OBVIOUS
      <4>2. x[1] \notin stop => k(x[1]) \in Nat
        BY <1>2, <4>1
      <4> QED BY <4>1, <4>2
    <3> QED BY <3>1 DEF join
  <2> QED BY <2>3, <2>4, <2>5, <2>6 DEF Terminates
<1> HIDE DEF res, nxt, join, S
<1>4. PICK f \in [Nat -> S] : Results(f, stop, res, nxt, join)
  BY <1>3, ScanDefined
<1>5. ASSUME NEW p \in Nat PROVE f[p] = Turn(p, f)
  <2>1. CASE p \in stop
    BY <1>2, <1>4, <2>1 DEF res, Results
  <2>2. CASE p \notin stop
    <3>1. nxt[p] = p + NextOff(e(p)) /\ nxt[p] \in Nat /\ f[nxt[p]] \in S
      BY <1>2, <2>2 DEF nxt
    <3>2. f[p] = <<k(p)>> \o f[nxt[p]]
      BY <1>4, <2>2, <3>1 DEF join, Results
    <3> QED BY <1>2, <2>2, <3>1, <3>2
  <2> QED BY <2>1, <2>2
<1>6. f = Loop(f)
  BY <1>5
<1>7. list = Loop(list)
  BY <1>6
<1> HIDE DEF list
<1>8. \A p \in Nat : list[p] = Turn(p, list)
  BY <1>7
<1> QED BY <1>1, <1>8 DEF Turn, RunsList

\* A loop that goes on at every entry before the j-th comes to the j-th.
LEMMA ScanReaches ==
  ASSUME NEW es, NEW hs, IsNewc(es, hs), NEW g, NEW j \in 1 .. Len(es),
         \A i \in 1 .. j - 1 : g[hs[i]] = g[hs[i] + NextOff(es[i])]
  PROVE  g[0] = g[hs[j]]
<1> DEFINE h == [k \in 1 .. j |-> g[hs[k]]]
<1>1. Len(es) \in Nat /\ hs[1] = 0 /\ j \in Nat /\ 1 \in 1 .. j
  BY Indices
<1>2. \A i \in 1 .. j - 1 : hs[i + 1] = hs[i] + NextOff(es[i])
  BY NextPlace
<1>3. \A i \in 1 .. j - 1 : h[i] = h[i + 1]
  BY <1>1, <1>2
<1>4. h[1] = g[hs[1]] /\ h[j] = g[hs[j]]
  BY <1>1
<1> HIDE DEF h
<1>5. \A i \in 1 .. j : h[i] = h[j]
  BY <1>1, <1>3, ScanSkips
<1> QED BY <1>1, <1>4, <1>5

\* Loop g goes on at each of the first n entries.
GoesOn(es, hs, g, n) == \A i \in 1 .. n : g[hs[i]] = g[hs[i] + NextOff(es[i])]

\* Where it comes to the place behind them all.
ComesToEnd(hs, g) == \E p \in Nat : HeaderAt(hs, p) = {} /\ g[0] = g[p]

\* A loop that goes on at every entry comes to the place behind them all.
LEMMA ScanEnds ==
  ASSUME NEW es, NEW hs, IsNewc(es, hs), NEW g, GoesOn(es, hs, g, Len(es))
  PROVE  ComesToEnd(hs, g)
<1> USE DEF GoesOn, ComesToEnd
<1> DEFINE n == Len(es)
<1>1. n \in Nat /\ DOMAIN hs = 1 .. n
  BY Indices
<1>2. CASE n = 0
  <2>1. HeaderAt(hs, 0) = {}
    BY <1>1, <1>2 DEF HeaderAt
  <2> QED BY <2>1
<1>3. CASE n # 0
  <2> DEFINE p == hs[n] + NextOff(es[n])
  <2>1. n \in 1 .. n
    BY <1>1, <1>3
  <2>2. p \in Nat /\ HeaderAt(hs, p) = {}
    <3>1. \A k \in 1 .. n : hs[k] \in Nat /\ NextOff(es[k]) \in Nat
      BY EntrySizes
    <3>2. \A k \in 1 .. n : k = n => HeaderAt(hs, hs[k] + NextOff(es[k])) = {}
      BY PlaceBehind
    <3> HIDE DEF n
    <3>3. hs[n] \in Nat /\ NextOff(es[n]) \in Nat
      BY <2>1, <3>1 DEF n
    <3>4. HeaderAt(hs, hs[n] + NextOff(es[n])) = {}
      BY <2>1, <3>2 DEF n
    <3> QED BY <3>3, <3>4
  <2>3. \A i \in 1 .. n - 1 : g[hs[i]] = g[hs[i] + NextOff(es[i])]
    BY <1>1
  <2>4. g[0] = g[hs[n]]
    BY <2>1, <2>3, ScanReaches
  <2>5. g[hs[n]] = g[p]
    BY <2>1
  <2> QED BY <2>2, <2>4, <2>5
<1> QED BY <1>2, <1>3

\* At the header of an entry, the code reads that entry.
LEMMA EntryHere ==
  ASSUME NEW es, NEW hs, IsNewc(es, hs), NEW k \in 1 .. Len(es)
  PROVE  /\ HeaderAt(hs, hs[k]) # {} /\ IndexAt(hs, hs[k]) = k
         /\ EntryAt(es, hs, hs[k]) = es[k] /\ hs[k] \in Nat
<1>1. HeaderAt(hs, hs[k]) = {k}
  BY HeaderPlace
<1>2. hs[k] \in Nat
  BY EntrySizes
<1> QED BY <1>1, <1>2 DEF EntryAt, IndexAt

DataAt(es, hs, k) == hs[k] + DataOff(es[k])

\* Where initrd_find_file stops: what lies beyond the end, the trailer, a match.
Inside(es, hs, end, k) ==
  /\ hs[k] + HeaderSize <= end
  /\ hs[k] + HeaderSize + es[k].namesize <= end
  /\ DataAt(es, hs, k) + es[k].filesize <= end

FindPasses(es, hs, end, want, k) ==
  Inside(es, hs, end, k) /\ ~IsTrailer(es[k]) /\ ~FilenameMatch(es[k], want)

FindStopsAt(es, hs, end, want, k) ==
  Inside(es, hs, end, k) /\ ~IsTrailer(es[k]) /\ FilenameMatch(es[k], want)

\* A turn of initrd_find_file at an entry: it passes it, finds it, or gives up.
LEMMA FindTurnAt ==
  ASSUME NEW es, NEW hs, IsNewc(es, hs), NEW end \in Nat, NEW want, NEW k \in 1 .. Len(es), NEW on
  PROVE  FindTurn(es, hs, end, want, hs[k], on) =
           IF FindPasses(es, hs, end, want, k) THEN on[hs[k] + NextOff(es[k])]
           ELSE IF FindStopsAt(es, hs, end, want, k) THEN DataAt(es, hs, k)
           ELSE Failed
<1>1. HeaderAt(hs, hs[k]) # {} /\ EntryAt(es, hs, hs[k]) = es[k] /\ hs[k] \in Nat
  BY EntryHere
<1>2. es[k].namesize \in Nat /\ es[k].filesize \in Nat /\ DataOff(es[k]) \in Nat
  BY EntrySizes
<1> DEFINE e == es[k]
           p == hs[k]
           a == p + HeaderSize > end
           b == p + HeaderSize + e.namesize > end
           c == p + DataOff(e) + e.filesize > end
<1>3. Inside(es, hs, end, k) <=> ~a /\ ~b /\ ~c
  <2>1. /\ p + HeaderSize \in Int /\ p + HeaderSize + e.namesize \in Int
        /\ p + DataOff(e) + e.filesize \in Int
    BY <1>1, <1>2 DEF HeaderSize
  <2>2. Inside(es, hs, end, k) <=>
          /\ p + HeaderSize <= end
          /\ p + HeaderSize + e.namesize <= end
          /\ p + DataOff(e) + e.filesize <= end
    BY DEF Inside, DataAt
  <2>3. \A x, y \in Int : x <= y <=> ~(x > y)
    OBVIOUS
  <2> HIDE DEF e, p
  <2> QED BY <2>1, <2>2, <2>3
<1>4. FindTurn(es, hs, end, want, p, on) =
        IF a THEN Failed ELSE IF b THEN Failed ELSE IF IsTrailer(e) THEN Failed
        ELSE IF c THEN Failed ELSE IF FilenameMatch(e, want) THEN p + DataOff(e)
        ELSE on[p + NextOff(e)]
  BY <1>1 DEF FindTurn
<1> HIDE DEF a, b, c
<1> QED BY <1>3, <1>4 DEF FindPasses, FindStopsAt, DataAt

\* initrd_find_file finds an entry that matches when it goes on at all before it.
LEMMA FindFinds ==
  ASSUME NEW es, NEW hs, IsNewc(es, hs), NEW end \in Nat, NEW want, NEW j \in 1 .. Len(es),
         end > 0, FindStopsAt(es, hs, end, want, j),
         \A i \in 1 .. j - 1 : FindPasses(es, hs, end, want, i)
  PROVE  FindFile(es, hs, end, want) = DataAt(es, hs, j)
<1>0. PICK find : RunsFind(find, es, hs, end, want)
  BY FindLoop
<1>1. /\ FindFile(es, hs, end, want) = IF end > 0 THEN find[0] ELSE Failed
      /\ \A p \in Nat : find[p] = FindTurn(es, hs, end, want, p, find)
  BY <1>0 DEF RunsFind
<1>2. ASSUME NEW i \in 1 .. j - 1 PROVE find[hs[i]] = find[hs[i] + NextOff(es[i])]
  <2>1. i \in 1 .. Len(es)
    BY Indices
  <2>2. hs[i] \in Nat
    BY <2>1, EntryHere
  <2> QED BY <1>1, <2>1, <2>2, FindTurnAt
<1>3. find[0] = find[hs[j]]
  BY <1>2, ScanReaches
<1>4. find[hs[j]] = DataAt(es, hs, j)
  <2>1. hs[j] \in Nat
    BY EntryHere
  <2>2. ~FindPasses(es, hs, end, want, j)
    BY DEF FindPasses, FindStopsAt
  <2> QED BY <1>1, <2>1, <2>2, FindTurnAt
<1> QED BY <1>1, <1>3, <1>4

\* And what it finds is such an entry.
LEMMA FindFound ==
  ASSUME NEW es, NEW hs, IsNewc(es, hs), NEW end \in Nat, NEW want,
         FindFile(es, hs, end, want) # Failed
  PROVE  \E j \in 1 .. Len(es) :
           /\ FindStopsAt(es, hs, end, want, j)
           /\ \A i \in 1 .. j - 1 : FindPasses(es, hs, end, want, i)
           /\ FindFile(es, hs, end, want) = DataAt(es, hs, j)
<1> DEFINE n == Len(es)
           Stops == {k \in 1 .. n : ~FindPasses(es, hs, end, want, k)}
<1>0. PICK find : RunsFind(find, es, hs, end, want)
  BY FindLoop
<1>1. /\ FindFile(es, hs, end, want) = IF end > 0 THEN find[0] ELSE Failed
      /\ \A p \in Nat : find[p] = FindTurn(es, hs, end, want, p, find)
  BY <1>0 DEF RunsFind
<1>2. n \in Nat
  BY Indices
<1>3. ASSUME NEW i \in 1 .. n, FindPasses(es, hs, end, want, i)
      PROVE  find[hs[i]] = find[hs[i] + NextOff(es[i])]
  <2>1. hs[i] \in Nat
    BY EntryHere
  <2> QED BY <1>1, <1>3, <2>1, FindTurnAt
<1>4. Stops # {}
  <2>1. ASSUME \A i \in 1 .. n : FindPasses(es, hs, end, want, i) PROVE FALSE
    <3>0. GoesOn(es, hs, find, Len(es))
      BY <1>3, <2>1 DEF GoesOn
    <3>1. PICK p \in Nat : HeaderAt(hs, p) = {} /\ find[0] = find[p]
      <4>1. ComesToEnd(hs, find)
        BY <3>0, ScanEnds
      <4> QED BY <4>1 DEF ComesToEnd
    <3>2. find[p] = Failed
      BY <1>1, <3>1 DEF FindTurn
    <3> QED BY <1>1, <3>1, <3>2
  <2> QED BY <2>1
<1>5. PICK j \in Stops : \A k \in Stops : j <= k
  <2>1. Stops \in SUBSET Nat
    BY <1>2
  <2> HIDE DEF Stops
  <2> QED BY <1>4, <2>1, LeastNatural
<1>6. j \in 1 .. n /\ ~FindPasses(es, hs, end, want, j)
  BY <1>5
<1>7. \A i \in 1 .. j - 1 : i \in 1 .. n /\ FindPasses(es, hs, end, want, i)
  <2>1. ASSUME NEW i \in 1 .. j - 1 PROVE i \in 1 .. n /\ ~(j <= i)
    BY <1>2, <1>6
  <2> QED BY <1>5, <2>1
<1>8. find[0] = find[hs[j]]
  BY <1>3, <1>6, <1>7, ScanReaches
<1>9. find[hs[j]] = IF FindStopsAt(es, hs, end, want, j) THEN DataAt(es, hs, j) ELSE Failed
  <2>1. hs[j] \in Nat
    BY <1>6, EntryHere
  <2> QED BY <1>1, <1>6, <2>1, FindTurnAt
<1> QED BY <1>1, <1>6, <1>7, <1>8, <1>9

\* Where initrd_cat goes on.
CatPasses(es, hs, end, want, k) ==
  ~IsTrailer(es[k]) /\ ~FilenameMatch(es[k], want) /\ hs[k] + NextOff(es[k]) < end

\* initrd_cat finds the first entry that matches, when the end and the trailer are
\* behind it.
LEMMA CatFinds ==
  ASSUME NEW es, NEW hs, IsNewc(es, hs), NEW end \in Nat, NEW want, NEW j \in 1 .. Len(es),
         end > 0, \A i \in 1 .. j - 1 : CatPasses(es, hs, end, want, i)
  PROVE  /\ IsTrailer(es[j]) => Cat(es, hs, end, want) = Failed
         /\ ~IsTrailer(es[j]) /\ FilenameMatch(es[j], want) =>
              Cat(es, hs, end, want) = DataAt(es, hs, j)
<1>0. PICK cat : RunsCat(cat, es, hs, end, want)
  BY CatLoop
<1>1. /\ Cat(es, hs, end, want) = IF end > 0 THEN cat[0] ELSE Failed
      /\ \A p \in Nat : cat[p] = CatTurn(es, hs, end, want, p, cat)
  BY <1>0 DEF RunsCat
<1>2. ASSUME NEW i \in 1 .. j - 1 PROVE cat[hs[i]] = cat[hs[i] + NextOff(es[i])]
  <2>1. i \in 1 .. Len(es)
    BY Indices
  <2>2. hs[i] \in Nat /\ HeaderAt(hs, hs[i]) # {} /\ EntryAt(es, hs, hs[i]) = es[i]
    BY <2>1, EntryHere
  <2>3. NextOff(es[i]) \in Nat
    BY <2>1, EntrySizes
  <2>4. ~(hs[i] + NextOff(es[i]) >= end) /\ ~IsTrailer(es[i]) /\ ~FilenameMatch(es[i], want)
    BY <2>2, <2>3 DEF CatPasses
  <2>5. CatTurn(es, hs, end, want, hs[i], cat) = cat[hs[i] + NextOff(es[i])]
    BY <2>2, <2>4 DEF CatTurn
  <2> QED BY <1>1, <2>2, <2>5
<1>3. cat[0] = cat[hs[j]]
  BY <1>2, ScanReaches
<1>4. /\ IsTrailer(es[j]) => cat[hs[j]] = Failed
      /\ ~IsTrailer(es[j]) /\ FilenameMatch(es[j], want) => cat[hs[j]] = DataAt(es, hs, j)
  <2>1. hs[j] \in Nat /\ HeaderAt(hs, hs[j]) # {} /\ EntryAt(es, hs, hs[j]) = es[j]
    BY EntryHere
  <2>2. /\ IsTrailer(es[j]) => CatTurn(es, hs, end, want, hs[j], cat) = Failed
        /\ ~IsTrailer(es[j]) /\ FilenameMatch(es[j], want) =>
             CatTurn(es, hs, end, want, hs[j], cat) = DataAt(es, hs, j)
    BY <2>1 DEF CatTurn, DataAt
  <2> QED BY <1>1, <2>1, <2>2
<1> QED BY <1>1, <1>3, <1>4

\* Where initrd_list goes on.
ListPasses(es, hs, end, k) == ~IsTrailer(es[k]) /\ hs[k] + NextOff(es[k]) < end

\* The d numbers from i on.
Counting(i, d) == [x \in 1 .. d |-> i + x - 1]

\* A count that begins one earlier is one longer.
LEMMA CountingLonger ==
  ASSUME NEW i \in Nat, NEW d \in Nat
  PROVE  <<i>> \o Counting(i + 1, d) = Counting(i, d + 1)
<1>1. <<i>> \in Seq(Nat) /\ Counting(i + 1, d) \in Seq(Int) /\ Len(Counting(i + 1, d)) = d
  BY DEF Counting
<1>2. <<i>> \o Counting(i + 1, d) =
        [x \in 1 .. d + 1 |-> IF x = 1 THEN i ELSE Counting(i + 1, d)[x - 1]]
  BY <1>1
<1>3. ASSUME NEW x \in 1 .. d + 1
      PROVE  (IF x = 1 THEN i ELSE Counting(i + 1, d)[x - 1]) = i + x - 1
  BY DEF Counting
<1> QED BY <1>2, <1>3 DEF Counting

\* initrd_list prints the entries before the trailer, when the end is behind it.
LEMMA ListLists ==
  ASSUME NEW es, NEW hs, IsNewc(es, hs), NEW end \in Nat, NEW j \in 1 .. Len(es),
         end > 0, IsTrailer(es[j]),
         \A i \in 1 .. j - 1 : ListPasses(es, hs, end, i)
  PROVE  List(es, hs, end) = [x \in 1 .. j - 1 |-> x]
<1>0. PICK list : RunsList(list, es, hs, end)
  BY ListLoop
<1>1. /\ List(es, hs, end) = IF end > 0 THEN list[0] ELSE <<>>
      /\ \A p \in Nat : list[p] = ListTurn(es, hs, end, p, list)
  BY <1>0 DEF RunsList
<1>2. j \in Nat /\ hs[1] = 0
  BY Indices
<1>3. list[hs[j]] = <<>>
  <2>1. /\ hs[j] \in Nat /\ HeaderAt(hs, hs[j]) # {}
        /\ IndexAt(hs, hs[j]) = j
    BY EntryHere
  <2>2. ListTurn(es, hs, end, hs[j], list) = <<>>
    BY <2>1 DEF ListTurn
  <2> QED BY <1>1, <2>1, <2>2
<1>4. ASSUME NEW i \in 1 .. j - 1 PROVE list[hs[i]] = <<i>> \o list[hs[i + 1]]
  <2>1. i \in 1 .. Len(es)
    BY Indices
  <2>2. /\ hs[i] \in Nat /\ HeaderAt(hs, hs[i]) # {}
        /\ IndexAt(hs, hs[i]) = i
    BY <2>1, EntryHere
  <2>3. NextOff(es[i]) \in Nat /\ hs[i + 1] = hs[i] + NextOff(es[i])
    <3>1. NextOff(es[i]) \in Nat
      BY <2>1, EntrySizes
    <3>2. hs[i + 1] = hs[i] + NextOff(es[i])
      BY NextPlace
    <3> QED BY <3>1, <3>2
  <2>4. ~(hs[i] + NextOff(es[i]) >= end) /\ ~IsTrailer(es[i])
    <3>1. hs[i] + NextOff(es[i]) < end /\ ~IsTrailer(es[i])
      BY DEF ListPasses
    <3> QED BY <2>2, <2>3, <3>1
  <2>5. ListTurn(es, hs, end, hs[i], list) = <<i>> \o list[hs[i] + NextOff(es[i])]
    BY <2>2, <2>4 DEF ListTurn
  <2> QED BY <1>1, <2>2, <2>3, <2>5
<1> DEFINE Bad == {d \in 0 .. j - 1 : list[hs[j - d]] # Counting(j - d, d)}
<1>5. ASSUME Bad # {} PROVE FALSE
  <2>1. PICK d \in Bad : \A c \in Bad : d <= c
    <3>1. Bad \in SUBSET Nat
      OBVIOUS
    <3> QED BY <1>5, <3>1, LeastNatural
  <2>2. d \in 0 .. j - 1 /\ list[hs[j - d]] # Counting(j - d, d)
    BY <2>1
  <2>3. d # 0
    <3>1. Counting(j - 0, 0) = <<>> /\ j - 0 = j
      BY <1>2 DEF Counting
    <3> QED BY <1>3, <2>2, <3>1
  <2>4. d - 1 \in 0 .. j - 1 /\ ~(d <= d - 1)
    BY <2>2, <2>3
  <2>5. list[hs[j - (d - 1)]] = Counting(j - (d - 1), d - 1)
    BY <2>1, <2>4
  <2>6. j - d \in 1 .. j - 1 /\ (j - d) + 1 = j - (d - 1) /\ (d - 1) + 1 = d /\ d - 1 \in Nat
    BY <1>2, <2>2, <2>3
  <2>7. list[hs[j - d]] = <<j - d>> \o Counting((j - d) + 1, d - 1)
    BY <1>4, <2>5, <2>6
  <2>8. <<j - d>> \o Counting((j - d) + 1, d - 1) = Counting(j - d, (d - 1) + 1)
    <3>1. j - d \in Nat
      BY <2>6
    <3> QED BY <2>6, <3>1, CountingLonger
  <2> QED BY <2>2, <2>6, <2>7, <2>8
<1>6. list[hs[1]] = Counting(1, j - 1)
  <2>1. j - 1 \in 0 .. j - 1 /\ j - (j - 1) = 1
    BY <1>2
  <2> QED BY <1>5, <2>1
<1>7. Counting(1, j - 1) = [x \in 1 .. j - 1 |-> x]
  BY DEF Counting
<1> QED BY <1>1, <1>2, <1>6, <1>7

\* What FilesFound says, of an archive, its end and an answer.
TrailerOf(a) == First({k \in DOMAIN a.entries : IsTrailer(a.entries[k])})

CompleteOf(a, end) ==
  TrailerOf(a) # NotFound /\ a.headers[TrailerOf(a)] + HeaderSize < end

MeantOf(a, want) ==
  {k \in DOMAIN a.entries :
     /\ TrailerOf(a) = NotFound \/ k < TrailerOf(a)
     /\ LET e == a.entries[k]
        IN  e.name = want.name /\ (e.dot = want.dot \/ e.dot)}

DataStart(a, k) == a.headers[k] + DataOff(a.entries[k])

LsRight(a, end, found) == CompleteOf(a, end) => found = [j \in 1 .. TrailerOf(a) - 1 |-> j]

CatRight(a, end, want, found) ==
  LET k == First(MeantOf(a, want))
  IN  CompleteOf(a, end) => found = IF k = NotFound THEN Failed ELSE DataStart(a, k)

ExecRight(a, end, want, found) ==
  LET k == First(MeantOf(a, want))
      size == a.entries[k].filesize
  IN  /\ found # Failed =>
           /\ k # NotFound /\ found = DataStart(a, k)
           /\ DataStart(a, k) + size <= end /\ size \in 1 .. MaxSize
      /\ found = Failed /\ CompleteOf(a, end) => k = NotFound \/ size \notin 1 .. MaxSize

RightAnswer(a, end, ans) ==
  /\ ans.cmd = "ls" => LsRight(a, end, ans.found)
  /\ ans.cmd = "cat" => CatRight(a, end, ans.name, ans.found)
  /\ ans.cmd = "exec" => ExecRight(a, end, ans.name, ans.found)

\* The property in these terms.
LEMMA FilesFoundIs == FilesFound <=> RightAnswer(archive, ArchiveEnd, answer)
BY DEF FilesFound, RightAnswer, LsRight, CatRight, ExecRight, IsComplete, CompleteOf, Trailer,
       TrailerOf, Meant, MeantOf, DataOf, DataStart

\* The first of a set of indices.
LEMMA FirstFacts ==
  ASSUME NEW S, S \in SUBSET (Nat \ {0})
  PROVE  /\ First(S) = NotFound <=> S = {}
         /\ S # {} => First(S) \in S /\ \A y \in S : First(S) <= y
<1>1. CASE S = {}
  BY <1>1 DEF First
<1>2. CASE S # {}
  <2>1. \E x \in S : \A y \in S : x <= y
    <3>1. S \in SUBSET Nat
      OBVIOUS
    <3> QED BY <1>2, <3>1, LeastNatural
  <2>2. Min(S) \in S /\ \A y \in S : Min(S) <= y
    <3> DEFINE P(x) == x \in S /\ \A y \in S : x <= y
    <3>1. Min(S) = CHOOSE x \in S : \A y \in S : x <= y
      BY DEF Min
    <3> QED BY <2>1, <3>1
  <2>3. Min(S) # 0
    BY <2>2
  <2> QED BY <1>2, <2>2, <2>3 DEF First, NotFound
<1> QED BY <1>1, <1>2

\* filename_match in the terms of the property.
LEMMA MatchFacts ==
  ASSUME NEW e, NEW want, e.dot \in BOOLEAN, want.dot \in BOOLEAN
  PROVE  FilenameMatch(e, want) <=> e.name = want.name /\ (e.dot = want.dot \/ e.dot)
BY DEF FilenameMatch

Sound(a) == IsNewc(a.entries, a.headers) /\ a.end \in Nat

\* The trailer is the first entry of that name, and the files before it that a name
\* means are those that match.
LEMMA TrailerFacts ==
  ASSUME NEW a, Sound(a)
  PROVE  /\ TrailerOf(a) # NotFound =>
              TrailerOf(a) \in 1 .. Len(a.entries) /\ IsTrailer(a.entries[TrailerOf(a)])
         /\ \A k \in 1 .. Len(a.entries) :
              k < TrailerOf(a) \/ TrailerOf(a) = NotFound => ~IsTrailer(a.entries[k])
<1> DEFINE S == {k \in DOMAIN a.entries : IsTrailer(a.entries[k])}
<1>1. Len(a.entries) \in Nat /\ DOMAIN a.entries = 1 .. Len(a.entries)
  BY Indices DEF Sound
<1>2. S \in SUBSET (Nat \ {0})
  BY <1>1
<1>3. \A k \in 1 .. Len(a.entries) : IsTrailer(a.entries[k]) <=> k \in S
  BY <1>1
<1> HIDE DEF S
<1>4. TrailerOf(a) = First(S)
  BY DEF TrailerOf, S
<1>5. /\ First(S) = NotFound <=> S = {}
      /\ S # {} => First(S) \in S /\ \A y \in S : First(S) <= y
  BY <1>2, FirstFacts
<1>6. \A k \in S : k \in 1 .. Len(a.entries)
  BY <1>1 DEF S
<1>7. ASSUME NEW k \in 1 .. Len(a.entries), k < TrailerOf(a) \/ TrailerOf(a) = NotFound
      PROVE  ~IsTrailer(a.entries[k])
  <2>1. CASE S = {}
    BY <1>3, <2>1
  <2>2. CASE S # {}
    <3>1. First(S) \in 1 .. Len(a.entries) /\ First(S) # NotFound
      BY <1>5, <1>6, <2>2
    <3>2. ~(First(S) <= k)
      BY <1>1, <1>4, <1>7, <3>1
    <3> QED BY <1>3, <1>5, <2>2, <3>2
  <2> QED BY <2>1, <2>2
<1> QED BY <1>3, <1>4, <1>5, <1>6, <1>7

\* The files a name means are the matches before the trailer, and the first is one of them.
LEMMA MeantFacts ==
  ASSUME NEW a, Sound(a), NEW want, want.dot \in BOOLEAN
  PROVE  LET k == First(MeantOf(a, want))
         IN  /\ \A i \in 1 .. Len(a.entries) :
                  i \in MeantOf(a, want) <=>
                    /\ TrailerOf(a) = NotFound \/ i < TrailerOf(a)
                    /\ FilenameMatch(a.entries[i], want)
             /\ k = NotFound => MeantOf(a, want) = {}
             /\ k # NotFound => /\ k \in 1 .. Len(a.entries) /\ k \in MeantOf(a, want)
                                /\ \A i \in MeantOf(a, want) : k <= i
<1>1. Len(a.entries) \in Nat /\ DOMAIN a.entries = 1 .. Len(a.entries)
  BY Indices DEF Sound
<1>2. \A i \in 1 .. Len(a.entries) : a.entries[i].dot \in BOOLEAN
  BY EntrySizes DEF Sound
<1>3. MeantOf(a, want) \subseteq 1 .. Len(a.entries)
  BY <1>1 DEF MeantOf
<1>4. MeantOf(a, want) \in SUBSET (Nat \ {0})
  BY <1>1, <1>3
<1>5. /\ First(MeantOf(a, want)) = NotFound <=> MeantOf(a, want) = {}
      /\ MeantOf(a, want) # {} => /\ First(MeantOf(a, want)) \in MeantOf(a, want)
                                  /\ \A y \in MeantOf(a, want) : First(MeantOf(a, want)) <= y
  BY <1>4, FirstFacts
<1>6. ASSUME NEW i \in 1 .. Len(a.entries)
      PROVE  i \in MeantOf(a, want) <=>
               /\ TrailerOf(a) = NotFound \/ i < TrailerOf(a)
               /\ FilenameMatch(a.entries[i], want)
  <2>1. FilenameMatch(a.entries[i], want) <=>
          a.entries[i].name = want.name /\ (a.entries[i].dot = want.dot \/ a.entries[i].dot)
    BY <1>2, MatchFacts
  <2> QED BY <1>1, <2>1 DEF MeantOf
<1> QED BY <1>3, <1>5, <1>6

\* Before the trailer of a complete archive nothing lies beyond the end.
LEMMA CompleteFacts ==
  ASSUME NEW a, Sound(a), NEW end \in Nat, CompleteOf(a, end)
  PROVE  /\ end > 0 /\ TrailerOf(a) \in 1 .. Len(a.entries)
         /\ \A i \in 1 .. TrailerOf(a) - 1 :
              /\ i \in 1 .. Len(a.entries) /\ i < TrailerOf(a)
              /\ a.headers[i] + NextOff(a.entries[i]) < end
              /\ Inside(a.entries, a.headers, end, i)
<1> DEFINE es == a.entries
           hs == a.headers
           t == TrailerOf(a)
<1>1. IsNewc(es, hs)
  BY DEF Sound
<1>2. t \in 1 .. Len(es) /\ hs[t] + HeaderSize < end
  BY TrailerFacts DEF CompleteOf
<1> HIDE DEF es, hs, t
<1>3. Len(es) \in Nat
  BY <1>1, Indices
<1>4. hs[t] \in Nat
  BY <1>1, <1>2, EntryHere
<1>5. ASSUME NEW i \in 1 .. t - 1
      PROVE  /\ i \in 1 .. Len(es) /\ i < t
             /\ hs[i] + NextOff(es[i]) < end /\ Inside(es, hs, end, i)
  <2>1. i \in 1 .. Len(es) /\ i < t
    BY <1>2, <1>3
  <2>2. hs[i + 1] = hs[i] + NextOff(es[i]) /\ hs[i + 1] <= hs[t]
    BY <1>1, <1>2, NextPlace
  <2>3. hs[i] \in Nat
    BY <1>1, <2>1, EntryHere
  <2>4. /\ es[i].filesize \in Nat /\ es[i].namesize \in Nat
        /\ DataOff(es[i]) \in Nat /\ DataOff(es[i]) >= HeaderSize + es[i].namesize
        /\ NextOff(es[i]) \in Nat /\ NextOff(es[i]) >= DataOff(es[i]) + es[i].filesize
    BY <1>1, <2>1, EntrySizes
  <2>5. hs[i] + NextOff(es[i]) < end
    <3>1. hs[i] + NextOff(es[i]) <= hs[t]
      BY <2>2
    <3>2. hs[i] + NextOff(es[i]) \in Int
      BY <2>3, <2>4
    <3>3. hs[t] < end
      BY <1>2, <1>4 DEF HeaderSize
    <3> QED BY <1>4, <3>1, <3>2, <3>3
  <2> HIDE <2>2
  <2>6. Inside(es, hs, end, i)
    BY <2>3, <2>4, <2>5 DEF Inside, DataAt, HeaderSize
  <2> QED BY <2>1, <2>5, <2>6
<1>6. end > 0
  BY <1>2, <1>4 DEF HeaderSize
<1> QED BY <1>2, <1>5, <1>6 DEF es, hs, t

\* initrd_list is right.
LEMMA LsIsRight ==
  ASSUME NEW a, Sound(a), NEW end \in Nat
  PROVE  LsRight(a, end, List(a.entries, a.headers, end))
<1> SUFFICES ASSUME CompleteOf(a, end)
             PROVE  List(a.entries, a.headers, end) = [j \in 1 .. TrailerOf(a) - 1 |-> j]
  BY DEF LsRight
<1> DEFINE t == TrailerOf(a)
<1>1. t \in 1 .. Len(a.entries) /\ IsTrailer(a.entries[t])
  BY TrailerFacts DEF CompleteOf
<1>2. end > 0 /\ \A i \in 1 .. t - 1 : /\ i \in 1 .. Len(a.entries) /\ i < t
                                       /\ a.headers[i] + NextOff(a.entries[i]) < end
  BY CompleteFacts
<1>3. \A i \in 1 .. t - 1 : ~IsTrailer(a.entries[i])
  BY <1>2, TrailerFacts
<1> HIDE DEF t
<1>4. List(a.entries, a.headers, end) = [j \in 1 .. t - 1 |-> j]
  BY <1>1, <1>2, <1>3, ListLists DEF Sound, ListPasses
<1> QED BY <1>4 DEF t

\* In a complete archive, the readers pass the entries before the first that is meant,
\* or before the trailer if none is.
LEMMA PassedOver ==
  ASSUME NEW a, Sound(a), NEW end \in Nat, CompleteOf(a, end), NEW want, want.dot \in BOOLEAN,
         NEW j \in 1 .. Len(a.entries), j <= TrailerOf(a), \A i \in MeantOf(a, want) : j <= i
  PROVE  \A i \in 1 .. j - 1 : /\ CatPasses(a.entries, a.headers, end, want, i)
                               /\ FindPasses(a.entries, a.headers, end, want, i)
<1>1. Len(a.entries) \in Nat /\ TrailerOf(a) \in Nat
  <2>1. Len(a.entries) \in Nat
    BY Indices DEF Sound
  <2> QED BY <2>1, CompleteFacts
<1>2. ASSUME NEW i \in 1 .. j - 1
      PROVE  /\ CatPasses(a.entries, a.headers, end, want, i)
             /\ FindPasses(a.entries, a.headers, end, want, i)
  <2>1. i \in 1 .. TrailerOf(a) - 1 /\ i \in 1 .. Len(a.entries) /\ i < TrailerOf(a) /\ ~(j <= i)
    BY <1>1
  <2>2. /\ a.headers[i] + NextOff(a.entries[i]) < end
        /\ Inside(a.entries, a.headers, end, i)
    BY <2>1, CompleteFacts
  <2>3. ~IsTrailer(a.entries[i])
    BY <2>1, TrailerFacts
  <2>4. ~FilenameMatch(a.entries[i], want)
    BY <2>1, MeantFacts
  <2> QED BY <2>2, <2>3, <2>4 DEF CatPasses, FindPasses
<1> QED BY <1>2

\* The first entry that is meant, if there is one: it is before the trailer.
LEMMA FirstMeant ==
  ASSUME NEW a, Sound(a), NEW end \in Nat, CompleteOf(a, end), NEW want, want.dot \in BOOLEAN,
         NEW k, k = First(MeantOf(a, want))
  PROVE  /\ k = NotFound => \A i \in MeantOf(a, want) : TrailerOf(a) <= i
         /\ k # NotFound =>
              /\ k \in 1 .. Len(a.entries) /\ k <= TrailerOf(a)
              /\ \A i \in MeantOf(a, want) : k <= i
              /\ ~IsTrailer(a.entries[k]) /\ FilenameMatch(a.entries[k], want)
              /\ Inside(a.entries, a.headers, end, k)
<1>1. /\ \A i \in 1 .. Len(a.entries) :
           i \in MeantOf(a, want) <=> /\ TrailerOf(a) = NotFound \/ i < TrailerOf(a)
                                      /\ FilenameMatch(a.entries[i], want)
      /\ k = NotFound => MeantOf(a, want) = {}
      /\ k # NotFound => /\ k \in 1 .. Len(a.entries) /\ k \in MeantOf(a, want)
                         /\ \A i \in MeantOf(a, want) : k <= i
  BY MeantFacts
<1>2. Len(a.entries) \in Nat /\ TrailerOf(a) \in 1 .. Len(a.entries)
  <2>1. Len(a.entries) \in Nat
    BY Indices DEF Sound
  <2> QED BY <2>1, CompleteFacts
<1>3. TrailerOf(a) # NotFound
  BY DEF CompleteOf
<1>4. ASSUME k # NotFound
      PROVE  /\ ~IsTrailer(a.entries[k]) /\ k <= TrailerOf(a)
             /\ Inside(a.entries, a.headers, end, k)
  <2>1. k \in 1 .. Len(a.entries) /\ k < TrailerOf(a)
    BY <1>1, <1>3, <1>4
  <2>2. k \in 1 .. TrailerOf(a) - 1 /\ k <= TrailerOf(a)
    BY <1>2, <2>1
  <2> QED BY <2>1, <2>2, TrailerFacts, CompleteFacts
<1> QED BY <1>1, <1>3, <1>4

\* initrd_cat is right.
LEMMA CatIsRight ==
  ASSUME NEW a, Sound(a), NEW end \in Nat, NEW want, want.dot \in BOOLEAN
  PROVE  CatRight(a, end, want, Cat(a.entries, a.headers, end, want))
<1> DEFINE k == First(MeantOf(a, want))
<1> SUFFICES ASSUME CompleteOf(a, end)
             PROVE  Cat(a.entries, a.headers, end, want) =
                      IF k = NotFound THEN Failed ELSE DataStart(a, k)
  BY DEF CatRight
<1> HIDE DEF k
<1>1. /\ k = NotFound => \A i \in MeantOf(a, want) : TrailerOf(a) <= i
      /\ k # NotFound =>
           /\ k \in 1 .. Len(a.entries) /\ k <= TrailerOf(a)
           /\ \A i \in MeantOf(a, want) : k <= i
           /\ ~IsTrailer(a.entries[k]) /\ FilenameMatch(a.entries[k], want)
  BY FirstMeant DEF k
<1>2. end > 0 /\ TrailerOf(a) \in 1 .. Len(a.entries) /\ IsTrailer(a.entries[TrailerOf(a)])
  BY CompleteFacts, TrailerFacts DEF CompleteOf
<1>3. CASE k = NotFound
  <2>1. TrailerOf(a) <= TrailerOf(a)
    BY <1>2
  <2>2. \A i \in 1 .. TrailerOf(a) - 1 : CatPasses(a.entries, a.headers, end, want, i)
    BY <1>1, <1>2, <1>3, <2>1, PassedOver
  <2> QED BY <1>2, <1>3, <2>2, CatFinds DEF Sound
<1>4. CASE k # NotFound
  <2>1. \A i \in 1 .. k - 1 : CatPasses(a.entries, a.headers, end, want, i)
    BY <1>1, <1>4, PassedOver
  <2> QED BY <1>1, <1>2, <1>4, <2>1, CatFinds DEF Sound, DataStart, DataAt
<1> QED BY <1>3, <1>4

\* No two entries have their data at the same place.
LEMMA DataApart ==
  ASSUME NEW es, NEW hs, IsNewc(es, hs), NEW i \in 1 .. Len(es), NEW k \in 1 .. Len(es),
         DataAt(es, hs, i) = DataAt(es, hs, k)
  PROVE  i = k
<1>0. Len(es) \in Nat
  BY Indices
<1>1. ASSUME NEW x \in 1 .. Len(es), NEW y \in 1 .. Len(es), x < y
      PROVE  DataAt(es, hs, x) # DataAt(es, hs, y)
  <2>1. x \in 1 .. y - 1
    BY <1>0, <1>1
  <2>2. hs[x + 1] = hs[x] + NextOff(es[x]) /\ hs[x + 1] <= hs[y]
    BY <2>1, NextPlace
  <2>3. hs[x] \in Nat /\ hs[y] \in Nat
    BY EntryHere
  <2>4. /\ DataOff(es[x]) \in Nat /\ es[x].filesize \in Nat /\ NextOff(es[x]) \in Nat
        /\ NextOff(es[x]) >= DataOff(es[x]) + es[x].filesize
        /\ DataOff(es[y]) \in Nat /\ DataOff(es[y]) >= HeaderSize + es[y].namesize
        /\ es[y].namesize \in Nat
    BY EntrySizes
  <2>5. hs[x] + NextOff(es[x]) <= hs[y]
    BY <2>2
  <2>6. DataOff(es[x]) <= NextOff(es[x])
    BY <2>4
  <2>7. DataOff(es[y]) \in Nat /\ DataOff(es[y]) > 0
    BY <2>4 DEF HeaderSize
  <2>8. DataOff(es[x]) \in Nat /\ NextOff(es[x]) \in Nat
    BY <2>4
  <2> QED BY <2>3, <2>5, <2>6, <2>7, <2>8 DEF DataAt
<1>2. i < k \/ k < i \/ i = k
  BY <1>0
<1> QED BY <1>1, <1>2

\* What user_load_image_from_initrd takes for the size is that of the entry found.
LEMMA LoadsWhatIsFound ==
  ASSUME NEW a, Sound(a), NEW end \in Nat, NEW want, NEW j \in 1 .. Len(a.entries),
         FindFile(a.entries, a.headers, end, want) = DataStart(a, j)
  PROVE  LoadImage(a.entries, a.headers, end, want, MaxSize) =
           IF a.entries[j].filesize \notin 1 .. MaxSize THEN Failed ELSE DataStart(a, j)
<1> DEFINE es == a.entries
           hs == a.headers
           i == CHOOSE k \in DOMAIN es : hs[k] + DataOff(es[k]) = DataStart(a, j)
<1>1. DOMAIN es = 1 .. Len(es) /\ es[j].filesize \in Nat /\ MaxSize \in Nat
  BY Indices, EntrySizes, RamdiskAssumption DEF Sound
<1>2. DataStart(a, j) = DataAt(es, hs, j) /\ DataStart(a, j) # Failed
  <2>1. hs[j] \in Nat /\ DataOff(es[j]) \in Nat
    BY EntryHere, EntrySizes DEF Sound
  <2> QED BY <2>1 DEF DataStart, DataAt, Failed
<1>3. i = j
  <2>1. \E k \in DOMAIN es : hs[k] + DataOff(es[k]) = DataStart(a, j)
    BY <1>1, <1>2 DEF DataAt
  <2>2. i \in 1 .. Len(es) /\ DataAt(es, hs, i) = DataAt(es, hs, j)
    BY <1>1, <1>2, <2>1 DEF DataAt
  <2> HIDE DEF i
  <2> QED BY <2>2, DataApart DEF Sound
<1>4. LoadImage(es, hs, end, want, MaxSize) =
        IF es[i].filesize = 0 \/ es[i].filesize > MaxSize THEN Failed ELSE DataStart(a, j)
  BY <1>2 DEF LoadImage
<1> HIDE DEF i
<1> QED BY <1>1, <1>3, <1>4

\* user_load_image_from_initrd is right, on archives that are cut off, too.
LEMMA ExecIsRight ==
  ASSUME NEW a, Sound(a), NEW end \in Nat, NEW want, want.dot \in BOOLEAN
  PROVE  ExecRight(a, end, want, LoadImage(a.entries, a.headers, end, want, MaxSize))
<1> DEFINE k == First(MeantOf(a, want))
           size == a.entries[k].filesize
           find == FindFile(a.entries, a.headers, end, want)
           found == LoadImage(a.entries, a.headers, end, want, MaxSize)
<1>1. ASSUME found # Failed
      PROVE  /\ k # NotFound /\ found = DataStart(a, k)
             /\ DataStart(a, k) + size <= end /\ size \in 1 .. MaxSize
  <2>1. find # Failed
    BY <1>1 DEF LoadImage
  <2>2. PICK j \in 1 .. Len(a.entries) :
          /\ FindStopsAt(a.entries, a.headers, end, want, j)
          /\ \A i \in 1 .. j - 1 : FindPasses(a.entries, a.headers, end, want, i)
          /\ find = DataAt(a.entries, a.headers, j)
    BY <2>1, FindFound DEF Sound
  <2>3. Len(a.entries) \in Nat
    BY Indices DEF Sound
  <2>4. j = k
    <3>1. TrailerOf(a) = NotFound \/ j < TrailerOf(a)
      <4> SUFFICES ASSUME TrailerOf(a) # NotFound, ~(j < TrailerOf(a)) PROVE FALSE
        OBVIOUS
      <4>1. TrailerOf(a) \in 1 .. Len(a.entries) /\ IsTrailer(a.entries[TrailerOf(a)])
        BY TrailerFacts
      <4>2. TrailerOf(a) = j \/ TrailerOf(a) \in 1 .. j - 1
        BY <2>3, <4>1
      <4> QED BY <2>2, <4>1, <4>2 DEF FindStopsAt, FindPasses
    <3>2. j \in MeantOf(a, want)
      BY <2>2, <3>1, MeantFacts DEF FindStopsAt
    <3>3. k \in 1 .. Len(a.entries) /\ k \in MeantOf(a, want) /\ k <= j
      BY <3>2, MeantFacts
    <3>4. FilenameMatch(a.entries[k], want)
      BY <3>3, MeantFacts
    <3>5. k \notin 1 .. j - 1
      BY <2>2, <3>4 DEF FindPasses
    <3> QED BY <2>3, <3>3, <3>5
  <2>5. found = IF size \notin 1 .. MaxSize THEN Failed ELSE DataStart(a, k)
    <3>1. find = DataStart(a, j)
      BY <2>2 DEF DataAt, DataStart
    <3> HIDE DEF k, find
    <3> QED BY <2>4, <3>1, LoadsWhatIsFound DEF find
  <2>6. DataStart(a, k) + size <= end /\ k # NotFound
    <3>1. Inside(a.entries, a.headers, end, j)
      BY <2>2 DEF FindStopsAt
    <3> HIDE DEF k
    <3> QED BY <2>3, <2>4, <3>1 DEF Inside, DataAt, DataStart, NotFound
  <2> QED BY <1>1, <2>5, <2>6
<1>2. ASSUME found = Failed, CompleteOf(a, end), k # NotFound, size \in 1 .. MaxSize
      PROVE  FALSE
  <2> HIDE DEF k
  <2>1. /\ k \in 1 .. Len(a.entries) /\ k <= TrailerOf(a)
        /\ \A i \in MeantOf(a, want) : k <= i
        /\ ~IsTrailer(a.entries[k]) /\ FilenameMatch(a.entries[k], want)
        /\ Inside(a.entries, a.headers, end, k)
    BY <1>2, FirstMeant DEF k
  <2>2. FindStopsAt(a.entries, a.headers, end, want, k)
    BY <2>1 DEF FindStopsAt
  <2>3. \A i \in 1 .. k - 1 : FindPasses(a.entries, a.headers, end, want, i)
    BY <1>2, <2>1, PassedOver
  <2>4. end > 0
    BY <1>2, CompleteFacts
  <2>5. find = DataStart(a, k)
    BY <2>1, <2>2, <2>3, <2>4, FindFinds DEF Sound, DataStart, DataAt
  <2>6. found = DataStart(a, k)
    <3> HIDE DEF find
    <3> QED BY <1>2, <2>1, <2>5, LoadsWhatIsFound DEF find
  <2>7. DataStart(a, k) # Failed
    <3>1. a.headers[k] \in Nat /\ DataOff(a.entries[k]) \in Nat
      BY <2>1, EntryHere, EntrySizes DEF Sound
    <3> QED BY <3>1 DEF DataStart, Failed
  <2> QED BY <1>2, <2>6, <2>7
<1> QED BY <1>1, <1>2 DEF ExecRight

\* The shell's readers are right about whatever is in memory at initrd_start, which
\* nothing changes once there is an answer.
RamdiskInv ==
  /\ Sound(archive)
  /\ answer = NoAnswer \/ stage \in {"shell", "stopped"}
  /\ FilesFound

\* initrd_end is a place.
LEMMA EndNat == Sound(archive) => ArchiveEnd \in Nat
BY DEF Sound, ArchiveEnd

\* Before there is an answer it is not wrong.
LEMMA NoAnswerRight == answer = NoAnswer => FilesFound
BY DEF FilesFound, NoAnswer

\* Nor is it then after a step.
LEMMA NoAnswerRightNext == answer' = NoAnswer => FilesFound'
BY DEF FilesFound, NoAnswer

\* The same after a step.
LEMMA FilesFoundNext == FilesFound' <=> RightAnswer(archive', ArchiveEnd', answer')
BY DEF FilesFound, RightAnswer, LsRight, CatRight, ExecRight, IsComplete, CompleteOf, Trailer,
       TrailerOf, Meant, MeantOf, DataOf, DataStart

\* No archive at all is an archive without entries.
LEMMA GarbageSound == Sound(Garbage)
BY DEF Sound, Garbage, IsNewc

\* A command answers what the archive holds.
LEMMA CommandRight ==
  ASSUME RamdiskInv, Ls \/ CatFile \/ Exec
  PROVE  RightAnswer(archive, ArchiveEnd, answer')
<1>1. Sound(archive) /\ ArchiveEnd \in Nat
  BY EndNat DEF RamdiskInv
<1>2. CASE Ls
  <2>1. /\ answer'.cmd = "ls"
        /\ answer'.found = List(archive.entries, archive.headers, ArchiveEnd)
    BY <1>2 DEF Ls, Answers
  <2> QED BY <1>1, <2>1, LsIsRight DEF RightAnswer
<1>3. CASE CatFile
  <2>1. PICK f \in Names :
          /\ answer'.cmd = "cat" /\ answer'.name = f
          /\ answer'.found = Cat(archive.entries, archive.headers, ArchiveEnd, f)
    BY <1>3 DEF CatFile, Answers
  <2>2. f.dot \in BOOLEAN
    BY RamdiskAssumption
  <2> QED BY <1>1, <2>1, <2>2, CatIsRight DEF RightAnswer
<1>4. CASE Exec
  <2>1. PICK f \in Names :
          /\ answer'.cmd = "exec" /\ answer'.name = f
          /\ answer'.found = LoadImage(archive.entries, archive.headers, ArchiveEnd, f, MaxSize)
    BY <1>4 DEF Exec, Answers
  <2>2. f.dot \in BOOLEAN
    BY RamdiskAssumption
  <2> QED BY <1>1, <2>1, <2>2, ExecIsRight DEF RightAnswer
<1> QED BY <1>2, <1>3, <1>4

\* Each step keeps the answer right.
LEMMA RamdiskStep ==
  ASSUME RamdiskInv, [Next]_vars
  PROVE  RamdiskInv'
<1>1. CASE Ls \/ CatFile \/ Exec
  <2>1. /\ archive' = archive /\ range' = range
        /\ stage' \in {"shell", "stopped"}
    BY <1>1 DEF Ls, CatFile, Exec, Answers, At
  <2>2. ArchiveEnd' = ArchiveEnd
    BY <2>1 DEF ArchiveEnd, InitrdAvailable
  <2>3. RightAnswer(archive', ArchiveEnd', answer')
    BY <1>1, <2>1, <2>2, CommandRight
  <2>4. FilesFound'
    BY <2>3, FilesFoundNext
  <2> QED BY <2>1, <2>4 DEF RamdiskInv
<1>2. ASSUME UNCHANGED <<range, archive, answer>>,
             answer = NoAnswer \/ (stage \in {"shell", "stopped"} /\ stage' = stage)
      PROVE  RamdiskInv'
  <2>1. ArchiveEnd' = ArchiveEnd
    BY <1>2 DEF ArchiveEnd, InitrdAvailable
  <2>2. RightAnswer(archive', ArchiveEnd', answer')
    BY <1>2, <2>1, FilesFoundIs DEF RamdiskInv
  <2>3. FilesFound'
    BY <2>2, FilesFoundNext
  <2> QED BY <1>2, <2>3 DEF RamdiskInv
<1>3. CASE \/ StartS \/ EnterKernel \/ UartInit \/ MmInit \/ TestEnds
           \/ CreateUserPgd \/ MapUserPages \/ Mapper
  <2>1. UNCHANGED <<range, archive, answer>> /\ stage \notin {"shell", "stopped"}
    BY <1>3 DEF StartS, SetStack, CallSetupVm, JumpHigh, SetStackAndStvec, CallDropIdentityMap,
      EnterKernel, UartInit, MmInit, TestEnds, CreateUserPgd, MapUserPages, Mapper, VmTest,
      OnlyVm, KeepTree, At
  <2> QED BY <1>2, <2>1 DEF RamdiskInv
<1>4. CASE InitrdSetRange \/ PlicInit
  <2>1. answer = NoAnswer /\ answer' = answer
    BY <1>4 DEF InitrdSetRange, PlicInit, At, RamdiskInv
  <2>2. archive' \in Archives \cup {Garbage, archive}
    BY <1>4 DEF InitrdSetRange, PlicInit
  <2>3. Sound(archive')
    BY <2>2, GarbageSound, RamdiskAssumption DEF Sound, RamdiskInv
  <2> QED BY <2>1, <2>3, NoAnswerRightNext DEF RamdiskInv
<1>5. CASE Halted \/ UNCHANGED vars
  <2>1. UNCHANGED <<stage, range, archive, answer>>
    BY <1>5 DEF Halted, vars
  <2> QED BY <1>2, <2>1 DEF RamdiskInv
<1> QED BY <1>1, <1>3, <1>4, <1>5 DEF Next, StartKernel

\* initrd.c and user_loader.c: for every archive in the newc format, cut off anywhere,
\* and every name, ls lists the files before the trailer, cat and exec find the first
\* file that is meant, and exec never hands out data beyond the end of the archive.
THEOREM FilesAlwaysFound == Spec => []FilesFound
<1>1. Init => RamdiskInv
  BY GarbageSound, NoAnswerRight DEF Init, RamdiskInv
<1>2. RamdiskInv /\ [Next]_vars => RamdiskInv'
  BY RamdiskStep
<1>3. RamdiskInv => FilesFound
  BY DEF RamdiskInv
<1> QED BY <1>1, <1>2, <1>3, PTL DEF Spec

(***************************************************************************)
(* The device tree: which nodes are open at a place, token by token.       *)
(***************************************************************************)
\* The tokens of one kind among the first n.
Count(fdt, tok, n) == Cardinality({k \in 1 .. n : fdt[k].tok = tok})

LEMMA CountStep ==
  ASSUME NEW fdt, NEW tok, NEW n \in Nat
  PROVE  /\ Count(fdt, tok, n) \in Nat
         /\ Count(fdt, tok, n + 1) = Count(fdt, tok, n) + (IF fdt[n + 1].tok = tok THEN 1 ELSE 0)
<1> DEFINE Of(m) == {k \in 1 .. m : fdt[k].tok = tok}
<1>1. IsFiniteSet(Of(n))
  <2>1. IsFiniteSet(1 .. n) /\ Of(n) \subseteq 1 .. n
    BY FS_Interval
  <2> QED BY <2>1, FS_Subset
<1>2. Cardinality(Of(n)) \in Nat
  BY <1>1, FS_CardinalityType
<1>3. CASE fdt[n + 1].tok = tok
  <2>1. Of(n + 1) = Of(n) \cup {n + 1} /\ n + 1 \notin Of(n)
    BY <1>3
  <2> HIDE DEF Of
  <2>2. Cardinality(Of(n + 1)) = Cardinality(Of(n)) + 1
    BY <1>1, <2>1, FS_AddElement
  <2> QED BY <1>2, <1>3, <2>2 DEF Count, Of
<1>4. CASE fdt[n + 1].tok # tok
  <2>1. Of(n + 1) = Of(n)
    BY <1>4
  <2> HIDE DEF Of
  <2>2. Cardinality(Of(n + 1)) = Cardinality(Of(n))
    BY <2>1
  <2> QED BY <1>2, <1>4, <2>2 DEF Count, Of
<1> QED BY <1>3, <1>4

\* The depth goes up where a node begins, down where one ends, and nowhere else.
LEMMA DepthSteps ==
  ASSUME NEW fdt, NEW i \in Nat \ {0}
  PROVE  /\ Depth(fdt, i) \in Int /\ Depth(fdt, i - 1) \in Int
         /\ fdt[i].tok = "begin" => Depth(fdt, i) = Depth(fdt, i - 1) + 1
         /\ fdt[i].tok = "end" => Depth(fdt, i) = Depth(fdt, i - 1) - 1
         /\ fdt[i].tok \notin {"begin", "end"} => Depth(fdt, i) = Depth(fdt, i - 1)
<1>1. \A n \in Nat : Depth(fdt, n) = Count(fdt, "begin", n) - Count(fdt, "end", n)
  BY DEF Depth, Count
<1>2. i - 1 \in Nat /\ (i - 1) + 1 = i
  OBVIOUS
<1>3. /\ Count(fdt, "begin", i - 1) \in Nat
      /\ Count(fdt, "begin", i) =
           Count(fdt, "begin", i - 1) + (IF fdt[i].tok = "begin" THEN 1 ELSE 0)
  BY <1>2, CountStep
<1>4. /\ Count(fdt, "end", i - 1) \in Nat
      /\ Count(fdt, "end", i) = Count(fdt, "end", i - 1) + (IF fdt[i].tok = "end" THEN 1 ELSE 0)
  BY <1>2, CountStep
<1> QED BY <1>1, <1>2, <1>3, <1>4

LEMMA DepthAtStart == ASSUME NEW fdt PROVE Depth(fdt, 0) = 0
<1>1. \A tok : Count(fdt, tok, 0) = 0
  <2>1. \A tok : {k \in 1 .. 0 : fdt[k].tok = tok} = {}
    OBVIOUS
  <2> QED BY <2>1, FS_EmptySet DEF Count
<1> QED BY <1>1 DEF Depth, Count

LEMMA DepthTyped == ASSUME NEW fdt, NEW k \in Nat PROVE Depth(fdt, k) \in Int
<1>1. CASE k = 0
  BY <1>1, DepthAtStart
<1>2. CASE k # 0
  BY <1>2, DepthSteps
<1> QED BY <1>1, <1>2

\* A blob, token by token.
LEMMA BlobTokens ==
  ASSUME NEW fdt, IsBlob(fdt), NEW i \in 1 .. Len(fdt)
  PROVE  /\ Len(fdt) \in Nat /\ Len(fdt) >= 1 /\ i \in Nat \ {0}
         /\ fdt[i].tok \in {"begin", "end", "prop", "nop", "stop"}
         /\ fdt[i].tok = "stop" <=> i = Len(fdt)
         /\ Depth(fdt, i) \in Nat /\ Depth(fdt, i - 1) \in Nat
         /\ fdt[i].tok = "prop" => BeforeNodes(fdt, i)
<1>1. Len(fdt) \in Nat /\ Len(fdt) >= 1 /\ i \in Nat \ {0}
  BY DEF IsBlob
<1>2. \A j \in 1 .. Len(fdt) : InFormat(fdt, j)
  BY DEF IsBlob
<1>3. ASSUME NEW j \in 1 .. Len(fdt) PROVE Depth(fdt, j) \in Nat
  <2>1. Depth(fdt, j) >= 0 /\ j \in Nat \ {0}
    BY <1>2 DEF InFormat
  <2>2. Depth(fdt, j) \in Int
    BY <2>1, DepthSteps
  <2> QED BY <2>1, <2>2
<1>4. Depth(fdt, i - 1) \in Nat
  <2>1. i - 1 = 0 \/ i - 1 \in 1 .. Len(fdt)
    BY <1>1
  <2> QED BY <1>3, <2>1, DepthAtStart
<1>5. InFormat(fdt, i)
  BY <1>2
<1> QED BY <1>1, <1>3, <1>4, <1>5 DEF InFormat

\* The nodes that are open after a token.
LEMMA OpenFacts ==
  ASSUME NEW fdt, NEW i \in Nat, NEW j \in Around(fdt, i)
  PROVE  /\ j \in 1 .. i /\ fdt[j].tok = "begin" /\ Depth(fdt, j) <= Depth(fdt, i)
         /\ Depth(fdt, j - 1) \in Int /\ Depth(fdt, j) = Depth(fdt, j - 1) + 1
         /\ \A k \in j .. i : Depth(fdt, k) >= Depth(fdt, j)
<1>1. j \in 1 .. i /\ fdt[j].tok = "begin" /\ \A k \in j .. i : Depth(fdt, k) >= Depth(fdt, j)
  BY DEF Around
<1>2. Depth(fdt, j) <= Depth(fdt, i)
  <2>1. Depth(fdt, i) >= Depth(fdt, j) /\ i \in Nat \ {0} /\ j \in Nat \ {0}
    BY <1>1
  <2> QED BY <2>1, DepthSteps
<1> QED BY <1>1, <1>2, DepthSteps

LEMMA OpenStep ==
  ASSUME NEW fdt, NEW i \in Nat \ {0}
  PROVE  /\ fdt[i].tok = "begin" => Around(fdt, i) = Around(fdt, i - 1) \cup {i}
         /\ fdt[i].tok = "end" =>
              Around(fdt, i) = {j \in Around(fdt, i - 1) : Depth(fdt, j) <= Depth(fdt, i)}
         /\ fdt[i].tok \notin {"begin", "end"} => Around(fdt, i) = Around(fdt, i - 1)
<1>1. i - 1 \in Nat /\ 1 .. i = (1 .. i - 1) \cup {i}
  OBVIOUS
<1>2. /\ Depth(fdt, i) \in Int /\ Depth(fdt, i - 1) \in Int
      /\ fdt[i].tok # "end" => Depth(fdt, i) >= Depth(fdt, i - 1)
  <2>1. /\ Depth(fdt, i) \in Int /\ Depth(fdt, i - 1) \in Int
        /\ fdt[i].tok = "begin" => Depth(fdt, i) = Depth(fdt, i - 1) + 1
        /\ fdt[i].tok \notin {"begin", "end"} => Depth(fdt, i) = Depth(fdt, i - 1)
    BY DepthSteps
  <2>2. fdt[i].tok = "begin" \/ fdt[i].tok = "end" \/ fdt[i].tok \notin {"begin", "end"}
    OBVIOUS
  <2> QED BY <2>1, <2>2
<1>3. ASSUME NEW j \in 1 .. i - 1
      PROVE  j \in Around(fdt, i) <=> j \in Around(fdt, i - 1) /\ Depth(fdt, j) <= Depth(fdt, i)
  <2>1. j .. i = (j .. i - 1) \cup {i} /\ j \in Nat \ {0}
    OBVIOUS
  <2>2. Depth(fdt, j) \in Int
    BY <2>1, DepthSteps
  <2> QED BY <1>1, <1>2, <2>1, <2>2 DEF Around
<1>4. \A j \in Around(fdt, i - 1) : j \in 1 .. i - 1 /\ Depth(fdt, j) <= Depth(fdt, i - 1)
                                  /\ Depth(fdt, j) \in Int
  BY <1>1, OpenFacts
<1>5. i \in Around(fdt, i) <=> fdt[i].tok = "begin"
  <2>1. i .. i = {i} /\ i \in 1 .. i
    OBVIOUS
  <2> QED BY <1>2, <2>1 DEF Around
<1>6. Around(fdt, i) \subseteq 1 .. i
  BY DEF Around
<1>7. CASE fdt[i].tok = "end"
  BY <1>1, <1>3, <1>4, <1>5, <1>6, <1>7
<1>8. CASE fdt[i].tok # "end"
  <2>1. \A j \in 1 .. i - 1 : j \in Around(fdt, i) <=> j \in Around(fdt, i - 1)
    BY <1>2, <1>3, <1>4, <1>8
  <2> QED BY <1>1, <1>4, <1>5, <1>6, <1>8, <2>1
<1> QED BY <1>7, <1>8

\* There is an open node at every depth.
LEMMA OpenAtDepth ==
  ASSUME NEW fdt, IsBlob(fdt), NEW i \in 0 .. Len(fdt), NEW d \in 1 .. Depth(fdt, i)
  PROVE  \E j \in Around(fdt, i) : Depth(fdt, j) = d
<1> DEFINE Chain(k) == \A e \in 1 .. Depth(fdt, k) : \E j \in Around(fdt, k) : Depth(fdt, j) = e
           Bad == {k \in 0 .. Len(fdt) : ~Chain(k)}
<1>1. ASSUME Bad # {} PROVE FALSE
  <2>0. Len(fdt) \in Nat
    BY DEF IsBlob
  <2>1. PICK k \in Bad : \A m \in Bad : k <= m
    <3>1. Bad \in SUBSET Nat
      BY <2>0
    <3> QED BY <1>1, <3>1, LeastNatural
  <2>2. k \in 0 .. Len(fdt) /\ ~Chain(k)
    BY <2>1
  <2>3. k # 0
    <3>1. 1 .. Depth(fdt, 0) = {}
      BY DepthAtStart
    <3> QED BY <2>2, <3>1
  <2>4. k \in 1 .. Len(fdt) /\ k \in Nat \ {0} /\ k - 1 \in 0 .. Len(fdt) /\ ~(k <= k - 1)
    BY <2>0, <2>2, <2>3
  <2>5. Chain(k - 1)
    <3>1. k - 1 \notin Bad
      BY <2>1, <2>4
    <3> QED BY <2>4, <3>1
  <2>6. PICK e \in 1 .. Depth(fdt, k) : ~ \E j \in Around(fdt, k) : Depth(fdt, j) = e
    BY <2>2
  <2>7. Depth(fdt, k) \in Nat /\ Depth(fdt, k - 1) \in Nat
    BY <2>4, BlobTokens
  <2>8. CASE fdt[k].tok = "begin"
    <3>1. Depth(fdt, k) = Depth(fdt, k - 1) + 1 /\ Around(fdt, k) = Around(fdt, k - 1) \cup {k}
      BY <2>4, <2>8, DepthSteps, OpenStep
    <3>2. e # Depth(fdt, k)
      BY <2>6, <3>1
    <3>3. e \in 1 .. Depth(fdt, k - 1)
      BY <2>6, <2>7, <3>1, <3>2
    <3> QED BY <2>5, <2>6, <3>1, <3>3
  <2>9. CASE fdt[k].tok = "end"
    <3>1. Depth(fdt, k) = Depth(fdt, k - 1) - 1
      BY <2>4, <2>9, DepthSteps
    <3>2. Around(fdt, k) = {j \in Around(fdt, k - 1) : Depth(fdt, j) <= Depth(fdt, k)}
      BY <2>4, <2>9, OpenStep
    <3>3. e \in 1 .. Depth(fdt, k - 1) /\ e <= Depth(fdt, k)
      BY <2>6, <2>7, <3>1
    <3> QED BY <2>5, <2>6, <3>2, <3>3
  <2>10. CASE fdt[k].tok \notin {"begin", "end"}
    <3>1. Depth(fdt, k) = Depth(fdt, k - 1) /\ Around(fdt, k) = Around(fdt, k - 1)
      BY <2>4, <2>10, DepthSteps, OpenStep
    <3> QED BY <2>5, <2>6, <3>1
  <2> QED BY <2>8, <2>9, <2>10
<1>2. Chain(i)
  BY <1>1
<1> QED BY <1>2

(***************************************************************************)
(* fdt_path_offset.                                                        *)
(***************************************************************************)
\* A node whose name is the segment of the path for its depth.
Fits(fdt, path, j) == Depth(fdt, j) - 1 <= Len(path) /\ fdt[j].name = path[Depth(fdt, j) - 1]

\* What the loop knows of the nodes around a place, without a stack: as many as it has
\* matched fit, and the next one, if any, does not.
Knows(fdt, path, i, m) ==
  /\ m = 0 \/ m + 1 <= Depth(fdt, i)
  /\ \A j \in Around(fdt, i) : Depth(fdt, j) \in 2 .. m + 1 => Fits(fdt, path, j)
  /\ \A j \in Around(fdt, i) : Depth(fdt, j) = m + 2 => ~Fits(fdt, path, j)

\* A node that begins below the root is matched if all around it are and it fits.
LEMMA MatchFits ==
  ASSUME NEW fdt, IsBlob(fdt), NEW path, Len(path) \in Nat, NEW i \in 1 .. Len(fdt), fdt[i].tok = "begin",
         NEW m \in Nat, Knows(fdt, path, i - 1, m)
  PROVE  LET n == Match(fdt, path, Place(i, Depth(fdt, i - 1), m))
         IN  /\ n \in Nat /\ Knows(fdt, path, i, n)
             /\ n # m => n = 0 \/ (n = m + 1 /\ n + 1 = Depth(fdt, i))
<1> DEFINE d == Depth(fdt, i - 1)
           n == Match(fdt, path, Place(i, d, m))
<1>1. /\ i \in Nat \ {0} /\ d \in Nat /\ Depth(fdt, i) = d + 1
      /\ Around(fdt, i) = Around(fdt, i - 1) \cup {i}
  BY BlobTokens, DepthSteps, OpenStep
<1>2. \A j \in Around(fdt, i - 1) : Depth(fdt, j) \in Int /\ Depth(fdt, j) <= d
  <2>1. i - 1 \in Nat
    BY <1>1
  <2>2. ASSUME NEW j \in Around(fdt, i - 1) PROVE Depth(fdt, j) \in Int /\ Depth(fdt, j) <= d
    <3>1. Depth(fdt, j) <= d /\ Depth(fdt, j - 1) \in Int /\ Depth(fdt, j) = Depth(fdt, j - 1) + 1
      BY <2>1, OpenFacts
    <3> QED BY <3>1
  <2> QED BY <2>2
<1>3. n = IF d = 0 THEN 0 ELSE IF m = d - 1 /\ Fits(fdt, path, i) THEN m + 1 ELSE m
  <2>1. Depth(fdt, i) - 1 = d
    BY <1>1
  <2>2. Fits(fdt, path, i) <=> d <= Len(path) /\ fdt[i].name = path[d]
    BY <2>1 DEF Fits
  <2>3. d # 0 => (d \in 1 .. Len(path) <=> d <= Len(path))
    BY <1>1
  <2> HIDE DEF d
  <2>4. n = CASE d = 0 -> 0
              [] d \in 1 .. Len(path) /\ m = d - 1 /\ fdt[i].name = path[d] -> m + 1
              [] OTHER -> m
    BY DEF Match, Place
  <2>5. CASE d = 0
    <3>1. d \notin 1 .. Len(path)
      BY <2>5
    <3> QED BY <2>4, <2>5, <3>1
  <2> QED BY <2>2, <2>3, <2>4, <2>5
<1> HIDE DEF n, d
<1>4. m = 0 \/ m + 1 <= d
  BY DEF Knows, d
<1>5. \A j \in Around(fdt, i - 1) : Depth(fdt, j) \in 2 .. m + 1 => Fits(fdt, path, j)
  BY DEF Knows
<1>6. \A j \in Around(fdt, i - 1) : Depth(fdt, j) = m + 2 => ~Fits(fdt, path, j)
  BY DEF Knows
<1>7. n \in Nat /\ (n = 0 \/ n + 1 <= d + 1) /\ (n # m => n = 0 \/ (n = m + 1 /\ n = d))
  BY <1>1, <1>3, <1>4
<1>8. ASSUME NEW j \in Around(fdt, i), Depth(fdt, j) \in 2 .. n + 1 PROVE Fits(fdt, path, j)
  BY <1>1, <1>2, <1>3, <1>4, <1>5, <1>8
<1>9. ASSUME NEW j \in Around(fdt, i), Depth(fdt, j) = n + 2 PROVE ~Fits(fdt, path, j)
  BY <1>1, <1>2, <1>3, <1>4, <1>6, <1>9
<1> QED BY <1>1, <1>7, <1>8, <1>9 DEF Knows, n, d

\* At the end of a node, what it had matched is taken back.
LEMMA UnmatchFits ==
  ASSUME NEW fdt, IsBlob(fdt), NEW path, NEW i \in 1 .. Len(fdt), fdt[i].tok = "end",
         NEW m \in Nat, Knows(fdt, path, i - 1, m)
  PROVE  LET n == Unmatch(m, Depth(fdt, i - 1) - 1)
         IN  n \in Nat /\ Knows(fdt, path, i, n) /\ n <= m
<1> DEFINE d == Depth(fdt, i)
           n == Unmatch(m, Depth(fdt, i - 1) - 1)
<1>1. /\ i \in Nat \ {0} /\ d \in Nat /\ Depth(fdt, i - 1) = d + 1 /\ Depth(fdt, i - 1) - 1 = d
      /\ Around(fdt, i) = {j \in Around(fdt, i - 1) : Depth(fdt, j) <= d}
  BY BlobTokens, DepthSteps, OpenStep
<1>2. n = IF m <= d - 1 THEN m ELSE IF d = 0 THEN 0 ELSE d - 1
  BY <1>1 DEF Unmatch
<1> HIDE DEF n, d
<1>3. m = 0 \/ m <= d
  BY <1>1 DEF Knows, d
<1>4. n \in Nat /\ n <= m /\ (n = 0 \/ n + 1 <= d) /\ (n = m \/ n = d - 1 \/ d = 0)
  BY <1>1, <1>2, <1>3
<1>5. ASSUME NEW j \in Around(fdt, i)
      PROVE  Depth(fdt, j) \in Nat /\ Depth(fdt, j) >= 1 /\ Depth(fdt, j) <= d
             /\ j \in Around(fdt, i - 1)
  <2>1. i \in Nat /\ i <= Len(fdt) /\ Len(fdt) \in Nat
    BY <1>1 DEF IsBlob
  <2>2. j \in 1 .. i
    BY <2>1, OpenFacts
  <2>3. j \in 1 .. Len(fdt)
    BY <2>1, <2>2
  <2>4. Depth(fdt, j) = Depth(fdt, j - 1) + 1 /\ Depth(fdt, j - 1) \in Nat
    BY <2>1, <2>3, OpenFacts, BlobTokens
  <2> QED BY <1>1, <2>4
<1>6. ASSUME NEW j \in Around(fdt, i), Depth(fdt, j) \in 2 .. n + 1 PROVE Fits(fdt, path, j)
  <2>1. Depth(fdt, j) \in 2 .. m + 1 /\ j \in Around(fdt, i - 1)
    BY <1>4, <1>5, <1>6
  <2> QED BY <2>1 DEF Knows
<1>7. ASSUME NEW j \in Around(fdt, i), Depth(fdt, j) = n + 2 PROVE ~Fits(fdt, path, j)
  <2>1. n = m
    BY <1>1, <1>4, <1>5, <1>7
  <2> QED BY <1>5, <1>7, <2>1 DEF Knows
<1> QED BY <1>4, <1>6, <1>7 DEF Knows, n, d

\* Properties and FDT_NOPs change nothing.
LEMMA OthersKeep ==
  ASSUME NEW fdt, NEW path, NEW i \in Nat \ {0}, fdt[i].tok \notin {"begin", "end"},
         NEW m, Knows(fdt, path, i - 1, m)
  PROVE  Knows(fdt, path, i, m) /\ Depth(fdt, i) = Depth(fdt, i - 1)
<1>1. Depth(fdt, i) = Depth(fdt, i - 1) /\ Around(fdt, i) = Around(fdt, i - 1)
  BY DepthSteps, OpenStep
<1> QED BY <1>1 DEF Knows

\* A node is the one the path names just when as many nodes as the path has segments
\* are matched where it begins.
LEMMA NamedIsMatched ==
  ASSUME NEW fdt, IsBlob(fdt), NEW path, Len(path) \in Nat, NEW i \in 1 .. Len(fdt),
         fdt[i].tok = "begin", NEW n \in Nat, Knows(fdt, path, i, n)
  PROVE  /\ i \in NodesAt(fdt, path) => n = Len(path)
         /\ n = Len(path) /\ Depth(fdt, i) = n + 1 => i \in NodesAt(fdt, path)
<1>1. ASSUME NEW j \in Around(fdt, i) PROVE Depth(fdt, j) \in Int /\ Depth(fdt, j) <= Depth(fdt, i)
  <2>1. i \in Nat
    BY DEF IsBlob
  <2>2. /\ Depth(fdt, j) <= Depth(fdt, i)
        /\ Depth(fdt, j - 1) \in Int /\ Depth(fdt, j) = Depth(fdt, j - 1) + 1
    BY <2>1, OpenFacts
  <2> QED BY <2>2
<1>2. Depth(fdt, i) \in Nat /\ i \in 0 .. Len(fdt)
  BY BlobTokens
<1>3. ASSUME i \in NodesAt(fdt, path) PROVE n = Len(path)
  <2>1. Depth(fdt, i) = Len(path) + 1
    BY <1>3 DEF NodesAt
  <2>2. \A j \in Around(fdt, i) : Depth(fdt, j) > 1 => fdt[j].name = path[Depth(fdt, j) - 1]
    BY <1>3 DEF NodesAt
  <2>3. n <= Len(path)
    BY <2>1 DEF Knows
  <2>4. ASSUME n < Len(path) PROVE FALSE
    <3>1. n + 2 \in 1 .. Depth(fdt, i)
      BY <2>1, <2>4
    <3>2. PICK j \in Around(fdt, i) : Depth(fdt, j) = n + 2
      BY <1>2, <3>1, OpenAtDepth
    <3>3. Fits(fdt, path, j)
      BY <2>2, <2>4, <3>2 DEF Fits
    <3> QED BY <3>2, <3>3 DEF Knows
  <2> QED BY <2>3, <2>4
<1>4. ASSUME n = Len(path), Depth(fdt, i) = n + 1 PROVE i \in NodesAt(fdt, path)
  <2>1. ASSUME NEW j \in Around(fdt, i), Depth(fdt, j) > 1
        PROVE  fdt[j].name = path[Depth(fdt, j) - 1]
    <3>1. Depth(fdt, j) \in 2 .. n + 1
      BY <1>1, <1>4, <2>1
    <3>2. Fits(fdt, path, j)
      BY <3>1 DEF Knows
    <3> QED BY <3>2 DEF Fits
  <2> QED BY <1>4, <2>1 DEF NodesAt
<1> QED BY <1>3, <1>4

(***************************************************************************)
(* The loops of fdt.c, as functions of the values of their variables.      *)
(***************************************************************************)
\* A loop that stops at some values, and at the others goes on to values that are
\* further in a blob of `bound` tokens.
Advances(P, at, bound, stop, nxt) ==
  \A p \in P : p \notin stop => nxt[p] \in P /\ at[nxt[p]] > at[p] /\ at[p] < bound

Follows(f, P, stop, res, nxt) ==
  \A p \in P : f[p] = IF p \in stop THEN res[p] ELSE f[nxt[p]]

\* Such a loop finds something, wherever it starts.
LEMMA LoopDefined ==
  ASSUME NEW P, NEW S, NEW at \in [P -> Nat], NEW bound \in Nat, NEW stop, NEW nxt,
         Advances(P, at, bound, stop, nxt), NEW res \in [P -> S]
  PROVE  \E f \in [P -> S] : Follows(f, P, stop, res, nxt)
<1> USE DEF Advances
<1> DEFINE Right(f, p) == f[p] = IF p \in stop THEN res[p] ELSE f[nxt[p]]
           RightFrom(f, m) == \A p \in P : at[p] >= bound - m => Right(f, p)
           Bad == {m \in 0 .. bound : ~ \E f \in [P -> S] : RightFrom(f, m)}
<1>1. ASSUME Bad # {} PROVE FALSE
  <2>1. PICK m \in Bad : \A k \in Bad : m <= k
    <3>1. Bad \in SUBSET Nat
      OBVIOUS
    <3> QED BY <1>1, <3>1, LeastNatural
  <2>2. m \in 0 .. bound /\ ~ \E f \in [P -> S] : RightFrom(f, m)
    BY <2>1
  <2>3. m # 0
    <3>1. RightFrom(res, 0)
      <4>1. \A p \in P : at[p] >= bound => p \in stop
        OBVIOUS
      <4> QED BY <4>1
    <3> QED BY <2>2, <3>1
  <2>4. PICK f \in [P -> S] : RightFrom(f, m - 1)
    <3>1. m - 1 \in 0 .. bound /\ ~(m <= m - 1)
      BY <2>2, <2>3
    <3>2. m - 1 \notin Bad
      BY <2>1, <3>1
    <3> QED BY <3>1, <3>2
  <2> DEFINE q == bound - m
             v(p) == IF p \in stop THEN res[p] ELSE f[nxt[p]]
             g == [p \in P |-> IF at[p] = q THEN v(p) ELSE f[p]]
  <2>5. q \in Nat
    BY <2>2
  <2>6. \A p \in P : v(p) \in S
    BY <2>5
  <2>7. g \in [P -> S]
    BY <2>6
  <2>8. \A p \in P : g[p] = IF at[p] = q THEN v(p) ELSE f[p]
    OBVIOUS
  <2> HIDE DEF g
  <2>9. ASSUME NEW p \in P, at[p] >= q PROVE Right(g, p)
    <3>1. p \notin stop => g[nxt[p]] = f[nxt[p]]
      <4>1. p \notin stop => nxt[p] \in P /\ at[nxt[p]] # q
        BY <2>5, <2>9
      <4> QED BY <2>8, <4>1
    <3>2. CASE at[p] = q
      BY <2>8, <3>1, <3>2
    <3>3. CASE at[p] # q
      <4>1. at[p] >= bound - (m - 1)
        BY <2>2, <2>9, <3>3
      <4>2. Right(f, p)
        BY <2>4, <4>1
      <4> QED BY <2>8, <3>1, <3>3, <4>2
    <3> QED BY <3>2, <3>3
  <2> QED BY <2>2, <2>7, <2>9
<1>2. \E f \in [P -> S] : RightFrom(f, bound)
  <2>1. bound \in 0 .. bound
    OBVIOUS
  <2>2. bound \notin Bad
    BY <1>1
  <2> HIDE DEF RightFrom
  <2> QED BY <2>1, <2>2
<1>3. PICK f \in [P -> S] : RightFrom(f, bound)
  BY <1>2
<1>4. \A p \in P : Right(f, p)
  BY <1>3
<1> QED BY <1>4 DEF Follows

PathPlaces(fdt) == [at : 1 .. Len(fdt), depth : Int, matched : Nat]

\* One turn of the loop of fdt_path_offset, where `on` is what it finds from there on.
PathTurn(fdt, path, p, on) ==
  CASE fdt[p.at].tok = "begin" ->
         IF Match(fdt, path, p) = Len(path) THEN p.at
         ELSE on[Place(p.at + 1, p.depth + 1, Match(fdt, path, p))]
    [] fdt[p.at].tok = "end" ->
         on[Place(p.at + 1, p.depth - 1, Unmatch(p.matched, p.depth - 1))]
    [] fdt[p.at].tok \in {"prop", "nop"} -> on[Place(p.at + 1, p.depth, p.matched)]
    [] OTHER -> NotFound

\* Where it stops, and where else it goes on.
PathStops(fdt, path, p) ==
  \/ fdt[p.at].tok = "stop"
  \/ fdt[p.at].tok = "begin" /\ Match(fdt, path, p) = Len(path)

PathNext(fdt, path, p) ==
  CASE fdt[p.at].tok = "begin" -> Place(p.at + 1, p.depth + 1, Match(fdt, path, p))
    [] fdt[p.at].tok = "end" -> Place(p.at + 1, p.depth - 1, Unmatch(p.matched, p.depth - 1))
    [] OTHER -> Place(p.at + 1, p.depth, p.matched)

\* The recursion of the translation, and what the call returns.
RunsPath(scan, fdt, path) ==
  /\ PathOffset(fdt, path) = scan[Place(1, 0, 0)]
  /\ \A p \in PathPlaces(fdt) : scan[p] = PathTurn(fdt, path, p, scan)

LEMMA PathTurns ==
  ASSUME NEW fdt, IsBlob(fdt), NEW path, NEW p \in PathPlaces(fdt), NEW on
  PROVE  PathTurn(fdt, path, p, on) =
           IF PathStops(fdt, path, p)
           THEN IF fdt[p.at].tok = "begin" THEN p.at ELSE NotFound
           ELSE on[PathNext(fdt, path, p)]
<1>1. p.at \in 1 .. Len(fdt)
  BY DEF PathPlaces
<1>2. fdt[p.at].tok \in {"begin", "end", "prop", "nop", "stop"}
  BY <1>1, BlobTokens
<1> QED BY <1>2 DEF PathTurn, PathStops, PathNext

LEMMA PathAdvances ==
  ASSUME NEW fdt, IsBlob(fdt), NEW path, NEW p \in PathPlaces(fdt), ~PathStops(fdt, path, p)
  PROVE  /\ PathNext(fdt, path, p) \in PathPlaces(fdt)
         /\ PathNext(fdt, path, p).at = p.at + 1 /\ p.at < Len(fdt)
<1>1. p.at \in 1 .. Len(fdt) /\ p.depth \in Int /\ p.matched \in Nat
  BY DEF PathPlaces
<1>2. fdt[p.at].tok # "stop" /\ Len(fdt) \in Nat
  BY <1>1, BlobTokens DEF PathStops
<1>3. p.at + 1 \in 1 .. Len(fdt) /\ p.at < Len(fdt)
  <2>1. p.at # Len(fdt)
    BY <1>1, <1>2, BlobTokens
  <2> QED BY <1>1, <1>2, <2>1
<1>4. Match(fdt, path, p) \in Nat
  BY <1>1 DEF Match
<1>5. Unmatch(p.matched, p.depth - 1) \in Nat
  BY <1>1 DEF Unmatch
<1>6. \A d \in Int, m \in Nat : Place(p.at + 1, d, m) \in PathPlaces(fdt)
                              /\ Place(p.at + 1, d, m).at = p.at + 1
  BY <1>3 DEF Place, PathPlaces
<1>7. /\ Place(p.at + 1, p.depth + 1, Match(fdt, path, p)) \in PathPlaces(fdt)
      /\ Place(p.at + 1, p.depth + 1, Match(fdt, path, p)).at = p.at + 1
  BY <1>1, <1>4, <1>6
<1>8. /\ Place(p.at + 1, p.depth - 1, Unmatch(p.matched, p.depth - 1)) \in PathPlaces(fdt)
      /\ Place(p.at + 1, p.depth - 1, Unmatch(p.matched, p.depth - 1)).at = p.at + 1
  BY <1>1, <1>5, <1>6
<1>9. /\ Place(p.at + 1, p.depth, p.matched) \in PathPlaces(fdt)
      /\ Place(p.at + 1, p.depth, p.matched).at = p.at + 1
  BY <1>1, <1>6
<1> QED BY <1>3, <1>7, <1>8, <1>9 DEF PathNext

\* fdt_path_offset is that loop: on a blob it is defined everywhere.
LEMMA PathLoop ==
  ASSUME NEW fdt, IsBlob(fdt), NEW path
  PROVE  \E scan : RunsPath(scan, fdt, path)
<1> DEFINE P == PathPlaces(fdt)
           Loop(f) == [p \in P |-> PathTurn(fdt, path, p, f)]
           scan == CHOOSE f : f = Loop(f)
           at == [p \in P |-> p.at]
           stop == {p \in P : PathStops(fdt, path, p)}
           nxt == [p \in P |-> PathNext(fdt, path, p)]
           res == [p \in P |-> IF fdt[p.at].tok = "begin" THEN p.at ELSE NotFound]
<1>1. PathOffset(fdt, path) = scan[Place(1, 0, 0)]
  BY DEF PathOffset, PathTurn, PathPlaces
<1>2. \A p \in P : p.at \in 1 .. Len(fdt)
  BY DEF PathPlaces
<1>3. at \in [P -> Nat] /\ res \in [P -> Nat] /\ Len(fdt) \in Nat
  BY <1>2 DEF IsBlob, NotFound
<1>4. Advances(P, at, Len(fdt), stop, nxt)
  <2>1. ASSUME NEW p \in P, p \notin stop PROVE nxt[p] \in P /\ at[nxt[p]] > at[p] /\ at[p] < Len(fdt)
    <3>1. ~PathStops(fdt, path, p)
      BY <2>1
    <3>2. nxt[p] \in P /\ nxt[p].at = p.at + 1 /\ p.at < Len(fdt)
      BY <3>1, PathAdvances
    <3> QED BY <1>2, <3>2
  <2> HIDE DEF P, at, nxt, stop
  <2> QED BY <2>1 DEF Advances
<1>5. PICK f \in [P -> Nat] : Follows(f, P, stop, res, nxt)
  <2> HIDE DEF P, at, nxt, stop, res
  <2> QED BY <1>3, <1>4, LoopDefined
<1>6. ASSUME NEW p \in P PROVE f[p] = PathTurn(fdt, path, p, f)
  <2>1. f[p] = IF p \in stop THEN res[p] ELSE f[nxt[p]]
    BY <1>5 DEF Follows
  <2>2. p \in stop <=> PathStops(fdt, path, p)
    OBVIOUS
  <2>3. /\ res[p] = IF fdt[p.at].tok = "begin" THEN p.at ELSE NotFound
        /\ nxt[p] = PathNext(fdt, path, p)
    OBVIOUS
  <2> QED BY <2>1, <2>2, <2>3, PathTurns
<1>7. f = Loop(f)
  BY <1>6
<1>8. scan = Loop(scan)
  BY <1>7
<1> HIDE DEF scan
<1>9. \A p \in P : scan[p] = PathTurn(fdt, path, p, scan)
  BY <1>8
<1> QED BY <1>1, <1>9 DEF RunsPath

\* No node before the i-th token is the one the path names.
NoneBefore(fdt, path, i) == \A k \in NodesAt(fdt, path) : k >= i

\* From every place that the loop reaches, it finds the first node that the path names.
PathRight(scan, fdt, path, i) ==
  \A m \in Nat :
    m < Len(path) /\ Knows(fdt, path, i - 1, m) /\ NoneBefore(fdt, path, i) =>
      scan[Place(i, Depth(fdt, i - 1), m)] = First(NodesAt(fdt, path))

LEMMA PathRightHere ==
  ASSUME NEW fdt, IsBlob(fdt), NEW path, Len(path) \in Nat, NEW scan, RunsPath(scan, fdt, path),
         NEW i \in 1 .. Len(fdt), i < Len(fdt) => PathRight(scan, fdt, path, i + 1)
  PROVE  PathRight(scan, fdt, path, i)
<1> SUFFICES ASSUME NEW m \in Nat, m < Len(path), Knows(fdt, path, i - 1, m),
                    NoneBefore(fdt, path, i)
             PROVE  scan[Place(i, Depth(fdt, i - 1), m)] = First(NodesAt(fdt, path))
  BY DEF PathRight
<1> DEFINE p == Place(i, Depth(fdt, i - 1), m)
<1>1. /\ Len(fdt) \in Nat /\ i \in Nat \ {0} /\ (i + 1) - 1 = i
      /\ fdt[i].tok \in {"begin", "end", "prop", "nop", "stop"}
      /\ fdt[i].tok = "stop" <=> i = Len(fdt)
      /\ Depth(fdt, i) \in Nat /\ Depth(fdt, i - 1) \in Nat
  BY BlobTokens
<1>2. p \in PathPlaces(fdt) /\ p.at = i /\ p.depth = Depth(fdt, i - 1) /\ p.matched = m
  BY <1>1 DEF PathPlaces, Place
<1> HIDE DEF p
<1>3. scan[p] = PathTurn(fdt, path, p, scan)
  BY <1>2 DEF RunsPath
<1>4. ASSUME i \notin NodesAt(fdt, path), i < Len(fdt), NEW n \in Nat, n < Len(path), Knows(fdt, path, i, n)
      PROVE  scan[Place(i + 1, Depth(fdt, i), n)] = First(NodesAt(fdt, path))
  <2>1. NoneBefore(fdt, path, i + 1)
    <3>1. \A k \in NodesAt(fdt, path) : k \in Nat
      BY <1>1 DEF NodesAt
    <3> QED BY <1>1, <1>4, <3>1 DEF NoneBefore
  <2> QED BY <1>1, <1>4, <2>1 DEF PathRight
<1>5. CASE fdt[i].tok = "begin"
  <2> DEFINE n == Match(fdt, path, p)
  <2>1. /\ n \in Nat /\ Knows(fdt, path, i, n)
        /\ n # m => n = 0 \/ (n = m + 1 /\ n + 1 = Depth(fdt, i))
    BY <1>5, MatchFits DEF p
  <2>2. Depth(fdt, i) = Depth(fdt, i - 1) + 1
    BY <1>1, <1>5, DepthSteps
  <2>3. scan[p] = IF n = Len(path) THEN i ELSE scan[Place(i + 1, Depth(fdt, i), n)]
    BY <1>2, <1>3, <1>5, <2>2 DEF PathTurn
  <2> HIDE DEF n
  <2>4. CASE n = Len(path)
    <3>1. i \in NodesAt(fdt, path)
      BY <1>5, <2>1, <2>4, NamedIsMatched
    <3>2. NodesAt(fdt, path) \in SUBSET (Nat \ {0})
      BY <1>1 DEF NodesAt
    <3>3. /\ First(NodesAt(fdt, path)) \in NodesAt(fdt, path)
          /\ First(NodesAt(fdt, path)) <= i
      BY <3>1, <3>2, FirstFacts
    <3>4. First(NodesAt(fdt, path)) >= i /\ First(NodesAt(fdt, path)) \in Nat
      BY <3>2, <3>3 DEF NoneBefore
    <3> QED BY <1>1, <2>3, <2>4, <3>3, <3>4 DEF p
  <2>5. CASE n # Len(path)
    <3>1. i \notin NodesAt(fdt, path)
      BY <1>5, <2>1, <2>5, NamedIsMatched
    <3>2. n < Len(path)
      BY <2>1, <2>5
    <3>3. i < Len(fdt)
      BY <1>1, <1>5
    <3> QED BY <1>4, <2>1, <2>3, <2>5, <3>1, <3>2, <3>3 DEF p
  <2> QED BY <2>4, <2>5
<1>6. ASSUME fdt[i].tok # "begin" PROVE i \notin NodesAt(fdt, path)
  BY <1>6 DEF NodesAt
<1>7. CASE fdt[i].tok = "end"
  <2> DEFINE n == Unmatch(m, Depth(fdt, i - 1) - 1)
  <2>1. n \in Nat /\ Knows(fdt, path, i, n) /\ n <= m
    BY <1>7, UnmatchFits
  <2>2. Depth(fdt, i) = Depth(fdt, i - 1) - 1 /\ i < Len(fdt)
    BY <1>1, <1>7, DepthSteps
  <2>3. scan[p] = scan[Place(i + 1, Depth(fdt, i), n)]
    BY <1>2, <1>3, <1>7, <2>2 DEF PathTurn
  <2> HIDE DEF n
  <2> QED BY <1>4, <1>6, <1>7, <2>1, <2>2, <2>3 DEF p
<1>8. CASE fdt[i].tok \in {"prop", "nop"}
  <2>1. Knows(fdt, path, i, m) /\ Depth(fdt, i) = Depth(fdt, i - 1)
    BY <1>1, <1>8, OthersKeep
  <2>2. scan[p] = scan[Place(i + 1, Depth(fdt, i), m)] /\ i < Len(fdt)
    BY <1>1, <1>2, <1>3, <1>8, <2>1 DEF PathTurn
  <2> QED BY <1>4, <1>6, <1>8, <2>1, <2>2 DEF p
<1>9. CASE fdt[i].tok = "stop"
  <2>1. scan[p] = NotFound
    BY <1>2, <1>3, <1>9 DEF PathTurn
  <2>2. NodesAt(fdt, path) = {}
    <3>1. \A k \in NodesAt(fdt, path) : k \in 1 .. Len(fdt) /\ k >= i /\ k # i
      BY <1>6, <1>9 DEF NodesAt, NoneBefore
    <3> QED BY <1>1, <1>9, <3>1
  <2> QED BY <2>1, <2>2 DEF First, p
<1> QED BY <1>1, <1>5, <1>7, <1>8, <1>9

\* fdt_path_offset returns the first node that the path names, if there is one.
LEMMA PathOffsetRight ==
  ASSUME NEW fdt, IsBlob(fdt), NEW path, Len(path) \in Nat \ {0}
  PROVE  PathOffset(fdt, path) = First(NodesAt(fdt, path))
<1>1. PICK scan : RunsPath(scan, fdt, path)
  BY PathLoop
<1>2. Len(fdt) \in Nat /\ Len(fdt) >= 1
  BY DEF IsBlob
<1> DEFINE Bad == {d \in 0 .. Len(fdt) - 1 : ~PathRight(scan, fdt, path, Len(fdt) - d)}
<1>3. ASSUME Bad # {} PROVE FALSE
  <2>1. PICK d \in Bad : \A e \in Bad : d <= e
    <3>1. Bad \in SUBSET Nat
      BY <1>2
    <3> QED BY <1>3, <3>1, LeastNatural
  <2> DEFINE i == Len(fdt) - d
  <2>2. d \in 0 .. Len(fdt) - 1 /\ ~PathRight(scan, fdt, path, i)
    BY <2>1
  <2>3. i \in 1 .. Len(fdt)
    BY <1>2, <2>2
  <2>4. ASSUME i < Len(fdt) PROVE PathRight(scan, fdt, path, i + 1)
    <3>1. d - 1 \in 0 .. Len(fdt) - 1 /\ ~(d <= d - 1) /\ Len(fdt) - (d - 1) = i + 1
      BY <1>2, <2>2, <2>4
    <3>2. d - 1 \notin Bad
      BY <2>1, <3>1
    <3> QED BY <3>1, <3>2
  <2> QED BY <1>1, <2>2, <2>3, <2>4, PathRightHere
<1>4. PathRight(scan, fdt, path, 1)
  <2>1. Len(fdt) - 1 \in 0 .. Len(fdt) - 1 /\ Len(fdt) - (Len(fdt) - 1) = 1
    BY <1>2
  <2>2. Len(fdt) - 1 \notin Bad
    BY <1>3
  <2> QED BY <2>1, <2>2
<1>5. Knows(fdt, path, 0, 0) /\ NoneBefore(fdt, path, 1)
  <2>1. Around(fdt, 0) = {}
    BY DEF Around
  <2>2. \A k \in NodesAt(fdt, path) : k >= 1
    BY <1>2 DEF NodesAt
  <2> QED BY <2>1, <2>2 DEF Knows, NoneBefore
<1>6. scan[Place(1, 0, 0)] = First(NodesAt(fdt, path))
  <2>1. 1 - 1 = 0 /\ Depth(fdt, 0) = 0 /\ 0 < Len(path)
    BY DepthAtStart
  <2>2. 0 \in Nat /\ 0 < Len(path) /\ Knows(fdt, path, 1 - 1, 0)
    BY <1>5, <2>1
  <2>3. scan[Place(1, Depth(fdt, 1 - 1), 0)] = First(NodesAt(fdt, path))
    BY <1>4, <1>5, <2>2 DEF PathRight
  <2> QED BY <2>1, <2>3
<1> QED BY <1>1, <1>6 DEF RunsPath

(***************************************************************************)
(* fdt_getprop.                                                            *)
(***************************************************************************)
PropPlaces(fdt) == [at : 1 .. Len(fdt), depth : Nat]

\* One turn of its loop.
PropTurn(fdt, name, p, on) ==
  CASE fdt[p.at].tok = "prop" ->
         IF fdt[p.at].name = name THEN p.at ELSE on[PlaceIn(p.at + 1, p.depth)]
    [] fdt[p.at].tok = "begin" -> on[PlaceIn(p.at + 1, p.depth + 1)]
    [] fdt[p.at].tok = "end" ->
         IF p.depth = 0 THEN NotFound ELSE on[PlaceIn(p.at + 1, p.depth - 1)]
    [] fdt[p.at].tok = "nop" -> on[PlaceIn(p.at + 1, p.depth)]
    [] OTHER -> NotFound

\* Where it stops, and where else it goes on.
PropStops(fdt, name, p) ==
  \/ fdt[p.at].tok = "stop"
  \/ fdt[p.at].tok = "prop" /\ fdt[p.at].name = name
  \/ fdt[p.at].tok = "end" /\ p.depth = 0

PropNext(fdt, p) ==
  CASE fdt[p.at].tok = "begin" -> PlaceIn(p.at + 1, p.depth + 1)
    [] fdt[p.at].tok = "end" -> PlaceIn(p.at + 1, p.depth - 1)
    [] OTHER -> PlaceIn(p.at + 1, p.depth)

\* The recursion of the translation, and what the call returns.
RunsProp(scan, fdt, node, name) ==
  /\ GetProp(fdt, node, name) = scan[PlaceIn(node + 1, 0)]
  /\ \A p \in PropPlaces(fdt) : scan[p] = PropTurn(fdt, name, p, scan)

LEMMA PropTurns ==
  ASSUME NEW fdt, IsBlob(fdt), NEW name, NEW p \in PropPlaces(fdt), NEW on
  PROVE  PropTurn(fdt, name, p, on) =
           IF PropStops(fdt, name, p)
           THEN IF fdt[p.at].tok = "prop" THEN p.at ELSE NotFound
           ELSE on[PropNext(fdt, p)]
<1>1. p.at \in 1 .. Len(fdt)
  BY DEF PropPlaces
<1>2. fdt[p.at].tok \in {"begin", "end", "prop", "nop", "stop"}
  BY <1>1, BlobTokens
<1> QED BY <1>2 DEF PropTurn, PropStops, PropNext

LEMMA PropAdvances ==
  ASSUME NEW fdt, IsBlob(fdt), NEW name, NEW p \in PropPlaces(fdt), ~PropStops(fdt, name, p)
  PROVE  /\ PropNext(fdt, p) \in PropPlaces(fdt)
         /\ PropNext(fdt, p).at = p.at + 1 /\ p.at < Len(fdt)
<1>1. p.at \in 1 .. Len(fdt) /\ p.depth \in Nat
  BY DEF PropPlaces
<1>2. fdt[p.at].tok # "stop" /\ Len(fdt) \in Nat /\ (fdt[p.at].tok = "end" => p.depth # 0)
  BY <1>1, BlobTokens DEF PropStops
<1>3. p.at + 1 \in 1 .. Len(fdt) /\ p.at < Len(fdt)
  <2>1. p.at # Len(fdt)
    BY <1>1, <1>2, BlobTokens
  <2> QED BY <1>1, <1>2, <2>1
<1>4. \A d \in Nat : PlaceIn(p.at + 1, d) \in PropPlaces(fdt) /\ PlaceIn(p.at + 1, d).at = p.at + 1
  BY <1>3 DEF PlaceIn, PropPlaces
<1>5. p.depth + 1 \in Nat /\ (fdt[p.at].tok = "end" => p.depth - 1 \in Nat)
  BY <1>1, <1>2
<1> QED BY <1>1, <1>3, <1>4, <1>5 DEF PropNext

\* fdt_getprop is that loop: on a blob it is defined everywhere.
LEMMA PropLoop ==
  ASSUME NEW fdt, IsBlob(fdt), NEW node, NEW name
  PROVE  \E scan : RunsProp(scan, fdt, node, name)
<1> DEFINE P == PropPlaces(fdt)
           Loop(f) == [p \in P |-> PropTurn(fdt, name, p, f)]
           scan == CHOOSE f : f = Loop(f)
           at == [p \in P |-> p.at]
           stop == {p \in P : PropStops(fdt, name, p)}
           nxt == [p \in P |-> PropNext(fdt, p)]
           res == [p \in P |-> IF fdt[p.at].tok = "prop" THEN p.at ELSE NotFound]
<1>1. GetProp(fdt, node, name) = scan[PlaceIn(node + 1, 0)]
  BY DEF GetProp, PropTurn, PropPlaces
<1>2. \A p \in P : p.at \in 1 .. Len(fdt)
  BY DEF PropPlaces
<1>3. at \in [P -> Nat] /\ res \in [P -> Nat] /\ Len(fdt) \in Nat
  BY <1>2 DEF IsBlob, NotFound
<1>4. Advances(P, at, Len(fdt), stop, nxt)
  <2>1. ASSUME NEW p \in P, p \notin stop PROVE nxt[p] \in P /\ at[nxt[p]] > at[p] /\ at[p] < Len(fdt)
    <3>1. ~PropStops(fdt, name, p)
      BY <2>1
    <3>2. nxt[p] \in P /\ nxt[p].at = p.at + 1 /\ p.at < Len(fdt)
      BY <3>1, PropAdvances
    <3> QED BY <1>2, <3>2
  <2> HIDE DEF P, at, nxt, stop
  <2> QED BY <2>1 DEF Advances
<1>5. PICK f \in [P -> Nat] : Follows(f, P, stop, res, nxt)
  <2> HIDE DEF P, at, nxt, stop, res
  <2> QED BY <1>3, <1>4, LoopDefined
<1>6. ASSUME NEW p \in P PROVE f[p] = PropTurn(fdt, name, p, f)
  <2>1. f[p] = IF p \in stop THEN res[p] ELSE f[nxt[p]]
    BY <1>5 DEF Follows
  <2>2. p \in stop <=> PropStops(fdt, name, p)
    OBVIOUS
  <2>3. /\ res[p] = IF fdt[p.at].tok = "prop" THEN p.at ELSE NotFound
        /\ nxt[p] = PropNext(fdt, p)
    OBVIOUS
  <2> QED BY <2>1, <2>2, <2>3, PropTurns
<1>7. f = Loop(f)
  BY <1>6
<1>8. scan = Loop(scan)
  BY <1>7
<1> HIDE DEF scan
<1>9. \A p \in P : scan[p] = PropTurn(fdt, name, p, scan)
  BY <1>8
<1> QED BY <1>1, <1>9 DEF RunsProp

\* The properties of that name in the node or in one inside it.
Within(fdt, node, name) == {k \in Named(fdt, name) : node \in Around(fdt, k)}

\* From every place in the node that the loop reaches, it finds the first of them.
PropRight(scan, fdt, node, name, i) ==
  node \in Around(fdt, i - 1) /\ (\A k \in Within(fdt, node, name) : k >= i) =>
    scan[PlaceIn(i, Depth(fdt, i - 1) - Depth(fdt, node))] = First(Within(fdt, node, name))

LEMMA PropRightHere ==
  ASSUME NEW fdt, IsBlob(fdt), NEW node, NEW name, NEW scan, RunsProp(scan, fdt, node, name),
         NEW i \in 1 .. Len(fdt), i < Len(fdt) => PropRight(scan, fdt, node, name, i + 1)
  PROVE  PropRight(scan, fdt, node, name, i)
<1> DEFINE all == Within(fdt, node, name)
           d == Depth(fdt, i - 1) - Depth(fdt, node)
           p == PlaceIn(i, d)
<1> SUFFICES ASSUME node \in Around(fdt, i - 1), \A k \in all : k >= i
             PROVE  scan[p] = First(all)
  BY DEF PropRight
<1>1. /\ Len(fdt) \in Nat /\ i \in Nat \ {0} /\ i - 1 \in Nat /\ (i + 1) - 1 = i
      /\ fdt[i].tok \in {"begin", "end", "prop", "nop", "stop"}
      /\ fdt[i].tok = "stop" <=> i = Len(fdt)
      /\ Depth(fdt, i) \in Nat /\ Depth(fdt, i - 1) \in Nat
  BY BlobTokens
<1>2. /\ node \in 1 .. i - 1 /\ fdt[node].tok = "begin" /\ Depth(fdt, node) \in Int
      /\ Depth(fdt, node) <= Depth(fdt, i - 1)
  <2>1. /\ node \in 1 .. i - 1 /\ fdt[node].tok = "begin" /\ Depth(fdt, node) <= Depth(fdt, i - 1)
        /\ Depth(fdt, node - 1) \in Int /\ Depth(fdt, node) = Depth(fdt, node - 1) + 1
    BY <1>1, OpenFacts
  <2> QED BY <2>1
<1>3. d \in Nat /\ p \in PropPlaces(fdt) /\ p.at = i /\ p.depth = d
  <2>1. d \in Nat
    BY <1>1, <1>2
  <2> HIDE DEF d
  <2> QED BY <2>1 DEF PropPlaces, PlaceIn
<1>4. scan[p] = PropTurn(fdt, name, p, scan)
  BY <1>3 DEF RunsProp
<1>5. all \subseteq 1 .. Len(fdt) /\ \A k \in all : fdt[k].tok = "prop" /\ fdt[k].name = name
                                                /\ node \in Around(fdt, k)
  BY DEF Within, Named
<1> HIDE DEF p, d, all
<1>6. ASSUME i \notin all, i < Len(fdt), node \in Around(fdt, i)
      PROVE  scan[PlaceIn(i + 1, Depth(fdt, i) - Depth(fdt, node))] = First(all)
  <2>1. \A k \in all : k >= i + 1
    BY <1>1, <1>5, <1>6
  <2> QED BY <1>1, <1>6, <2>1 DEF PropRight, all
<1>7. CASE fdt[i].tok = "prop"
  <2>1. node \in Around(fdt, i) /\ Depth(fdt, i) = Depth(fdt, i - 1) /\ i < Len(fdt)
    <3>1. fdt[i].tok \notin {"begin", "end"} /\ i # Len(fdt)
      BY <1>1, <1>7
    <3>2. Depth(fdt, i) = Depth(fdt, i - 1) /\ Around(fdt, i) = Around(fdt, i - 1)
      BY <1>1, <3>1, OpenStep, DepthSteps
    <3> QED BY <1>1, <3>1, <3>2
  <2>2. i \in all <=> fdt[i].name = name
    BY <1>7, <2>1 DEF all, Within, Named
  <2>3. CASE fdt[i].name = name
    <3>1. scan[p] = i
      BY <1>3, <1>4, <1>7, <2>3 DEF PropTurn
    <3>2. all \in SUBSET (Nat \ {0})
      BY <1>1, <1>5
    <3>3. First(all) \in all /\ First(all) <= i /\ First(all) >= i
      BY <2>2, <2>3, <3>2, FirstFacts
    <3>4. First(all) \in Nat
      BY <3>2, <3>3
    <3>5. First(all) = i
      BY <1>1, <3>3, <3>4
    <3> QED BY <3>1, <3>5
  <2>4. CASE fdt[i].name # name
    <3>1. scan[p] = scan[PlaceIn(i + 1, Depth(fdt, i) - Depth(fdt, node))]
      BY <1>3, <1>4, <1>7, <2>1, <2>4 DEF PropTurn, d
    <3> QED BY <1>6, <2>1, <2>2, <2>4, <3>1
  <2> QED BY <2>3, <2>4
<1>8. ASSUME fdt[i].tok # "prop" PROVE i \notin all
  BY <1>5, <1>8
<1>9. CASE fdt[i].tok = "begin"
  <2>1. node \in Around(fdt, i) /\ Depth(fdt, i) = Depth(fdt, i - 1) + 1 /\ i < Len(fdt)
    BY <1>1, <1>9, OpenStep, DepthSteps
  <2>2. d + 1 = Depth(fdt, i) - Depth(fdt, node)
    BY <1>1, <1>2, <2>1 DEF d
  <2>3. scan[p] = scan[PlaceIn(i + 1, Depth(fdt, i) - Depth(fdt, node))]
    BY <1>3, <1>4, <1>9, <2>2 DEF PropTurn
  <2> QED BY <1>6, <1>8, <1>9, <2>1, <2>3
<1>10. CASE fdt[i].tok = "end"
  <2>1. /\ Depth(fdt, i) = Depth(fdt, i - 1) - 1 /\ i < Len(fdt)
        /\ Around(fdt, i) = {j \in Around(fdt, i - 1) : Depth(fdt, j) <= Depth(fdt, i)}
    BY <1>1, <1>10, OpenStep, DepthSteps
  <2>2. CASE d = 0
    <3>1. Depth(fdt, i) < Depth(fdt, node)
      BY <1>1, <1>2, <2>1, <2>2 DEF d
    <3>2. ASSUME NEW k \in all PROVE FALSE
      <4>1. k \in Nat /\ i \in node .. k
        BY <1>1, <1>2, <1>5
      <4>2. Depth(fdt, i) >= Depth(fdt, node)
        BY <1>5, <4>1, OpenFacts
      <4> QED BY <1>1, <1>2, <3>1, <4>2
    <3>3. scan[p] = NotFound
      BY <1>3, <1>4, <1>10, <2>2 DEF PropTurn
    <3> QED BY <3>2, <3>3 DEF First
  <2>3. CASE d # 0
    <3>1. Depth(fdt, node) <= Depth(fdt, i) /\ d - 1 = Depth(fdt, i) - Depth(fdt, node)
      BY <1>1, <1>2, <1>3, <2>1, <2>3 DEF d
    <3>2. scan[p] = scan[PlaceIn(i + 1, Depth(fdt, i) - Depth(fdt, node))]
      BY <1>3, <1>4, <1>10, <2>3, <3>1 DEF PropTurn
    <3> QED BY <1>6, <1>8, <1>10, <2>1, <3>1, <3>2
  <2> QED BY <2>2, <2>3
<1>11. CASE fdt[i].tok = "nop"
  <2>1. node \in Around(fdt, i) /\ Depth(fdt, i) = Depth(fdt, i - 1) /\ i < Len(fdt)
    <3>1. fdt[i].tok \notin {"begin", "end"} /\ i # Len(fdt)
      BY <1>1, <1>11
    <3>2. Depth(fdt, i) = Depth(fdt, i - 1) /\ Around(fdt, i) = Around(fdt, i - 1)
      BY <1>1, <3>1, OpenStep, DepthSteps
    <3> QED BY <1>1, <3>1, <3>2
  <2>2. scan[p] = scan[PlaceIn(i + 1, Depth(fdt, i) - Depth(fdt, node))]
    BY <1>3, <1>4, <1>11, <2>1 DEF PropTurn, d
  <2> QED BY <1>6, <1>8, <1>11, <2>1, <2>2
<1>12. CASE fdt[i].tok = "stop"
  <2>1. scan[p] = NotFound
    BY <1>3, <1>4, <1>12 DEF PropTurn
  <2>2. all = {}
    BY <1>1, <1>5, <1>8, <1>12
  <2> QED BY <2>1, <2>2 DEF First
<1> QED BY <1>1, <1>7, <1>9, <1>10, <1>11, <1>12

\* fdt_getprop returns the first property of the name in the node or inside it.
LEMMA GetPropFirst ==
  ASSUME NEW fdt, IsBlob(fdt), NEW node \in 1 .. Len(fdt), fdt[node].tok = "begin", NEW name
  PROVE  GetProp(fdt, node, name) = First(Within(fdt, node, name))
<1>1. PICK scan : RunsProp(scan, fdt, node, name)
  BY PropLoop
<1>2. Len(fdt) \in Nat /\ node \in Nat \ {0} /\ node < Len(fdt) /\ Depth(fdt, node) \in Nat
  <2>1. Len(fdt) \in Nat /\ node \in Nat \ {0} /\ node # Len(fdt) /\ Depth(fdt, node) \in Nat
    BY BlobTokens
  <2> QED BY <2>1
<1> DEFINE Right(i) == PropRight(scan, fdt, node, name, i)
           Bad == {d \in 0 .. Len(fdt) - 1 : ~Right(Len(fdt) - d)}
<1>3. ASSUME Bad # {} PROVE FALSE
  <2>1. PICK d \in Bad : \A e \in Bad : d <= e
    <3>1. Bad \in SUBSET Nat
      BY <1>2
    <3> QED BY <1>3, <3>1, LeastNatural
  <2> DEFINE i == Len(fdt) - d
  <2>2. d \in 0 .. Len(fdt) - 1 /\ ~Right(i)
    BY <2>1
  <2>3. i \in 1 .. Len(fdt)
    BY <1>2, <2>2
  <2>4. ASSUME i < Len(fdt) PROVE Right(i + 1)
    <3>1. d - 1 \in 0 .. Len(fdt) - 1 /\ ~(d <= d - 1) /\ Len(fdt) - (d - 1) = i + 1
      BY <1>2, <2>2, <2>4
    <3>2. d - 1 \notin Bad
      BY <2>1, <3>1
    <3> QED BY <3>1, <3>2
  <2> QED BY <1>1, <2>2, <2>3, <2>4, PropRightHere
<1>4. Right(node + 1)
  <2>1. Len(fdt) - (node + 1) \in 0 .. Len(fdt) - 1 /\ Len(fdt) - (Len(fdt) - (node + 1)) = node + 1
    BY <1>2
  <2>2. Len(fdt) - (node + 1) \notin Bad
    BY <1>3
  <2> QED BY <2>1, <2>2
<1>5. node \in Around(fdt, node) /\ \A k \in Within(fdt, node, name) : k >= node + 1
  <2>1. node \in Around(fdt, node)
    BY <1>2, OpenStep
  <2>2. ASSUME NEW k \in Within(fdt, node, name) PROVE k >= node + 1
    <3>1. k \in 1 .. Len(fdt) /\ fdt[k].tok = "prop" /\ node \in Around(fdt, k)
      BY DEF Within, Named
    <3>2. k \in Nat /\ node \in 1 .. k /\ k # node
      BY <1>2, <3>1, OpenFacts
    <3> QED BY <3>2
  <2> QED BY <2>1, <2>2
<1>6. (node + 1) - 1 = node /\ Depth(fdt, node) - Depth(fdt, node) = 0
  BY <1>2
<1>7. scan[PlaceIn(node + 1, 0)] = First(Within(fdt, node, name))
  BY <1>4, <1>5, <1>6 DEF PropRight
<1> QED BY <1>1, <1>7 DEF RunsProp

\* While no node ends, the depth does not go down.
LEMMA NoEndNoDrop ==
  ASSUME NEW fdt, NEW a \in Nat, NEW b \in Nat, a <= b,
         \A k \in a + 1 .. b : fdt[k].tok # "end"
  PROVE  Depth(fdt, a) <= Depth(fdt, b)
<1>0. \A k \in Nat : Depth(fdt, k) \in Int
  BY DepthTyped
<1> DEFINE Bad == {k \in a .. b : ~(Depth(fdt, a) <= Depth(fdt, k))}
<1>1. ASSUME Bad # {} PROVE FALSE
  <2>1. PICK k \in Bad : \A m \in Bad : k <= m
    <3>1. Bad \in SUBSET Nat
      OBVIOUS
    <3> QED BY <1>1, <3>1, LeastNatural
  <2>2. k \in a .. b /\ ~(Depth(fdt, a) <= Depth(fdt, k))
    BY <2>1
  <2>3. k # a /\ k \in a + 1 .. b /\ k - 1 \in a .. b /\ k \in Nat \ {0} /\ ~(k <= k - 1)
    BY <1>0, <2>2
  <2>4. Depth(fdt, a) <= Depth(fdt, k - 1)
    <3>1. k - 1 \notin Bad
      BY <2>1, <2>3
    <3> QED BY <2>3, <3>1
  <2>5. Depth(fdt, k) >= Depth(fdt, k - 1) /\ Depth(fdt, k - 1) \in Int
    <3>1. fdt[k].tok = "begin" \/ fdt[k].tok \notin {"begin", "end"}
      BY <2>3
    <3>2. Depth(fdt, k) \in Int /\ Depth(fdt, k - 1) \in Int
      BY <2>3, DepthSteps
    <3> QED BY <2>3, <3>1, <3>2, DepthSteps
  <2> QED BY <1>0, <2>2, <2>3, <2>4, <2>5
<1>2. b \notin Bad
  BY <1>1
<1> QED BY <1>2

\* No property of the node stands behind a node in it: between them there would be an
\* end, and after the last end before a property a node begins.
LEMMA OwnBeforeInner ==
  ASSUME NEW fdt, IsBlob(fdt), NEW node, NEW name, NEW q \in PropsOf(fdt, node, name),
         NEW p \in 1 .. q - 1, NEW s \in Around(fdt, p), s > node, node \in 1 .. Len(fdt)
  PROVE  FALSE
<1>1. /\ q \in 1 .. Len(fdt) /\ fdt[q].tok = "prop" /\ node \in Around(fdt, q)
      /\ \A j \in Around(fdt, q) : j <= node
  BY DEF PropsOf, Named
<1>2. /\ Len(fdt) \in Nat /\ q \in Nat \ {0} /\ p \in Nat \ {0} /\ p < q /\ node \in Nat
      /\ BeforeNodes(fdt, q)
  <2>1. Len(fdt) \in Nat /\ q \in Nat \ {0} /\ BeforeNodes(fdt, q)
    BY <1>1, BlobTokens
  <2>2. node \in Nat
    BY <2>1
  <2> QED BY <2>1, <2>2
<1>3. /\ s \in 1 .. p /\ fdt[s].tok = "begin" /\ Depth(fdt, s) \in Int
      /\ \A k \in s .. p : Depth(fdt, k) >= Depth(fdt, s)
  <2>1. /\ s \in 1 .. p /\ fdt[s].tok = "begin"
        /\ Depth(fdt, s - 1) \in Int /\ Depth(fdt, s) = Depth(fdt, s - 1) + 1
        /\ \A k \in s .. p : Depth(fdt, k) >= Depth(fdt, s)
    BY <1>2, OpenFacts
  <2> QED BY <2>1
<1>4. \A k \in Nat : Depth(fdt, k) \in Int
  BY DepthTyped
<1> DEFINE Ends == {e \in p + 1 .. q : fdt[e].tok = "end"}
<1>5. Ends # {}
  <2> SUFFICES ASSUME Ends = {} PROVE FALSE
    OBVIOUS
  <2>1. ASSUME NEW k \in s .. q PROVE Depth(fdt, k) >= Depth(fdt, s)
    <3>1. CASE k <= p
      BY <1>3, <2>1, <3>1
    <3>2. CASE k > p
      <4>1. k \in Nat /\ p <= k /\ \A m \in p + 1 .. k : fdt[m].tok # "end"
        BY <1>2, <1>3, <2>1, <3>2
      <4>2. Depth(fdt, p) <= Depth(fdt, k)
        BY <1>2, <4>1, NoEndNoDrop
      <4>3. Depth(fdt, p) >= Depth(fdt, s)
        BY <1>3
      <4> QED BY <1>2, <1>3, <1>4, <4>1, <4>2, <4>3
    <3> QED BY <1>2, <1>3, <3>1, <3>2
  <2>2. s \in Around(fdt, q)
    BY <1>2, <1>3, <2>1 DEF Around
  <2> QED BY <1>1, <1>2, <1>3, <2>2
<1>6. PICK e \in Ends : \A f \in Ends : f <= e
  <2> DEFINE Back == {d \in 0 .. q : q - d \in Ends}
  <2>1. Back # {}
    <3>1. PICK e \in Ends : TRUE
      BY <1>5
    <3>2. q - e \in 0 .. q /\ q - (q - e) = e
      BY <1>2, <3>1
    <3> QED BY <3>1, <3>2
  <2>2. PICK d \in Back : \A f \in Back : d <= f
    <3>1. Back \in SUBSET Nat
      OBVIOUS
    <3> QED BY <2>1, <3>1, LeastNatural
  <2>3. q - d \in Ends
    BY <2>2
  <2>4. ASSUME NEW f \in Ends PROVE f <= q - d
    <3>1. q - f \in 0 .. q /\ q - (q - f) = f /\ f \in Nat
      BY <1>2
    <3>2. q - f \in Back
      BY <3>1
    <3>3. d <= q - f /\ d \in Nat
      BY <2>2, <3>2
    <3> QED BY <1>2, <3>1, <3>3
  <2> QED BY <2>3, <2>4
<1>7. e \in 1 .. q /\ e > p /\ fdt[e].tok = "end"
  BY <1>2
<1>8. PICK b \in e .. q : fdt[b].tok = "begin"
  BY <1>2, <1>7 DEF BeforeNodes
<1>9. b \in 1 .. q /\ b > e /\ b \in Nat
  BY <1>2, <1>7, <1>8
<1>10. ASSUME NEW k \in b .. q PROVE Depth(fdt, k) >= Depth(fdt, b)
  <2>1. k \in Nat /\ b <= k /\ \A m \in b + 1 .. k : fdt[m].tok # "end"
    BY <1>2, <1>6, <1>7, <1>9
  <2>2. Depth(fdt, b) <= Depth(fdt, k)
    BY <1>9, <2>1, NoEndNoDrop
  <2> QED BY <1>4, <1>9, <2>1, <2>2
<1>11. b \in Around(fdt, q)
  BY <1>8, <1>9, <1>10 DEF Around
<1> QED BY <1>1, <1>2, <1>3, <1>7, <1>9, <1>11

\* If the node has a property of that name itself, it is the first that is found.
LEMMA OwnFound ==
  ASSUME NEW fdt, IsBlob(fdt), NEW node \in 1 .. Len(fdt), NEW name,
         PropsOf(fdt, node, name) # {}
  PROVE  First(Within(fdt, node, name)) = First(PropsOf(fdt, node, name))
<1> DEFINE all == Within(fdt, node, name)
           own == PropsOf(fdt, node, name)
<1>1. own \subseteq all
  BY DEF Within, PropsOf
<1>2. all \in SUBSET (Nat \ {0})
  BY DEF Within, Named, IsBlob
<1>3. own = {i \in all : \A j \in Around(fdt, i) : j <= node}
  BY DEF Within, PropsOf
<1> HIDE DEF all, own
<1>4. own # {} /\ all # {} /\ own \in SUBSET (Nat \ {0})
  BY <1>1, <1>2 DEF own
<1>5. First(all) \in all /\ \A y \in all : First(all) <= y
  BY <1>2, <1>4, FirstFacts
<1>6. First(own) \in own /\ \A y \in own : First(own) <= y
  BY <1>4, FirstFacts
<1>7. First(all) \in own
  <2> SUFFICES ASSUME First(all) \notin own PROVE FALSE
    OBVIOUS
  <2> DEFINE p == First(all)
             q == First(own)
  <2>1. p \in Nat \ {0} /\ q \in Nat \ {0} /\ p <= q /\ p # q
    BY <1>1, <1>2, <1>4, <1>5, <1>6
  <2>2. p \in 1 .. q - 1
    BY <2>1
  <2>3. PICK s \in Around(fdt, p) : ~(s <= node)
    BY <1>3, <1>5
  <2>4. s \in 1 .. p /\ node \in Nat
    BY <2>1, OpenFacts DEF IsBlob
  <2>5. s > node
    BY <2>1, <2>3, <2>4
  <2>6. q \in PropsOf(fdt, node, name)
    BY <1>6 DEF own
  <2> HIDE DEF p, q
  <2> QED BY <2>2, <2>3, <2>5, <2>6, OwnBeforeInner
<1>8. First(all) = First(own)
  <2>1. First(all) \in Nat /\ First(own) \in Nat
    BY <1>2, <1>4, <1>5, <1>6
  <2> QED BY <1>1, <1>5, <1>6, <1>7, <2>1
<1> QED BY <1>8 DEF all, own

\* The property of Boot, for one tree.
Answered(fdt) ==
  \A path \in {<<"soc", "serial">>, <<"soc", "uart">>, <<"chosen">>, <<"memory">>} :
    LET node == PathOffset(fdt, path)
    IN  fdt # <<>> =>
          /\ node = First(NodesAt(fdt, path))
          /\ node # NotFound =>
               \A name \in {"reg", "linux,initrd-start", "linux,initrd-end"} :
                 LET prop == GetProp(fdt, node, name)
                     own == PropsOf(fdt, node, name)
                 IN  IF own # {} THEN prop = First(own)
                     ELSE prop # NotFound =>
                            prop \in Named(fdt, name) /\ node \in Around(fdt, prop)

LEMMA PropAnswered ==
  ASSUME NEW fdt, IsBlob(fdt), NEW node \in 1 .. Len(fdt), fdt[node].tok = "begin", NEW name
  PROVE  IF PropsOf(fdt, node, name) # {}
         THEN GetProp(fdt, node, name) = First(PropsOf(fdt, node, name))
         ELSE GetProp(fdt, node, name) # NotFound =>
                /\ GetProp(fdt, node, name) \in Named(fdt, name)
                /\ node \in Around(fdt, GetProp(fdt, node, name))
<1>1. GetProp(fdt, node, name) = First(Within(fdt, node, name))
  BY GetPropFirst
<1>2. CASE PropsOf(fdt, node, name) # {}
  BY <1>1, <1>2, OwnFound
<1>3. CASE PropsOf(fdt, node, name) = {}
  <2>1. Within(fdt, node, name) \in SUBSET (Nat \ {0})
    BY DEF Within, Named, IsBlob
  <2>2. First(Within(fdt, node, name)) # NotFound =>
          First(Within(fdt, node, name)) \in Within(fdt, node, name)
    BY <2>1, FirstFacts
  <2> QED BY <1>1, <1>3, <2>2 DEF Within
<1> QED BY <1>2, <1>3

LEMMA BlobAnswered ==
  ASSUME NEW fdt, IsBlob(fdt)
  PROVE  Answered(fdt)
<1>1. ASSUME NEW path \in {<<"soc", "serial">>, <<"soc", "uart">>, <<"chosen">>, <<"memory">>}
      PROVE  Len(path) \in Nat \ {0}
  OBVIOUS
<1>2. ASSUME NEW path \in {<<"soc", "serial">>, <<"soc", "uart">>, <<"chosen">>, <<"memory">>},
             PathOffset(fdt, path) # NotFound
      PROVE  /\ PathOffset(fdt, path) \in 1 .. Len(fdt)
             /\ fdt[PathOffset(fdt, path)].tok = "begin"
  <2>1. PathOffset(fdt, path) = First(NodesAt(fdt, path))
    BY <1>1, PathOffsetRight
  <2>2. NodesAt(fdt, path) \in SUBSET (Nat \ {0})
    BY DEF NodesAt, IsBlob
  <2>3. PathOffset(fdt, path) \in NodesAt(fdt, path)
    BY <1>2, <2>1, <2>2, FirstFacts
  <2> QED BY <2>3 DEF NodesAt
<1>3. ASSUME NEW path \in {<<"soc", "serial">>, <<"soc", "uart">>, <<"chosen">>, <<"memory">>}
      PROVE  PathOffset(fdt, path) = First(NodesAt(fdt, path))
  BY <1>1, PathOffsetRight
<1>4. ASSUME NEW path \in {<<"soc", "serial">>, <<"soc", "uart">>, <<"chosen">>, <<"memory">>},
             PathOffset(fdt, path) # NotFound, NEW name
      PROVE  IF PropsOf(fdt, PathOffset(fdt, path), name) # {}
             THEN GetProp(fdt, PathOffset(fdt, path), name) =
                    First(PropsOf(fdt, PathOffset(fdt, path), name))
             ELSE GetProp(fdt, PathOffset(fdt, path), name) # NotFound =>
                    /\ GetProp(fdt, PathOffset(fdt, path), name) \in Named(fdt, name)
                    /\ PathOffset(fdt, path) \in Around(fdt, GetProp(fdt, PathOffset(fdt, path), name))
  BY <1>2, <1>4, PropAnswered
<1> QED BY <1>3, <1>4 DEF Answered

\* fdt.c: for every device tree blob in the format, the lookups of the boot find the
\* first node at their path, and its first property of the name if it has one.
THEOREM LookupsAlwaysRight == Spec => []LookupsRight
<1> DEFINE Given == tree = <<>> \/ tree \in Trees
<1>1. Init => Given
  BY DEF Init
<1>2. Given /\ [Next]_vars => Given'
  <2> SUFFICES ASSUME Given, [Next]_vars PROVE tree' \in {tree, <<>>}
    OBVIOUS
  <2> QED BY DEF Next, StartS, StartKernel, SetStack, CallSetupVm, JumpHigh, SetStackAndStvec,
         CallDropIdentityMap, EnterKernel, UartInit, InitrdSetRange, MmInit, TestEnds, PlicInit,
         CreateUserPgd, MapUserPages, Mapper, Ls, CatFile, Exec, Answers, Halted, OnlyVm,
         KeepTree, vars
<1>3. Given => LookupsRight
  <2>1. tree \in Trees => Answered(tree)
    BY FirmwareAssumption, BlobAnswered
  <2>2. LookupsRight <=> Answered(tree)
    BY DEF LookupsRight, Answered
  <2>3. tree = <<>> => Answered(tree)
    BY DEF Answered
  <2> QED BY <2>1, <2>2, <2>3
<1> QED BY <1>1, <1>2, <1>3, PTL DEF Spec
=============================================================================
