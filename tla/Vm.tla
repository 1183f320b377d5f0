--------------------------------- MODULE Vm ---------------------------------
(***************************************************************************)
(* The page tables of vm.c (lab 6): the early tables that setup_vm builds  *)
(* and drop_identity_map prunes, and the tables of user address spaces,    *)
(* which vm_create_user_pgd and map_pages_to build from allocated pages.   *)
(*                                                                         *)
(* Addresses count pages.  A virtual page is the three indices of Sv39 in  *)
(* one number; `tables` gives the contents of every page that is a table.  *)
(***************************************************************************)
EXTENDS Integers, Sequences

CONSTANTS
  Entries,   \* SV39_PT_ENTRIES
  EarlyGib,  \* EARLY_MAP_GIB
  Mmio,      \* the 2 MiB windows of devices, numbered from physical address 0
  EarlyPtes, \* EARLY_PTE_TABLES
  Static,    \* the first of the pages that hold the early tables
  Pool       \* the pages alloc_pages may give out

VARIABLES
  satp,    \* the root of the address space, or Bare
  tables,  \* the tables, by the page that holds them
  free,    \* the free pages of the allocator
  spaces,  \* the user PGDs
  call     \* the call of map_pages_to in progress

vmVars == <<satp, tables, free, spaces, call>>

Bare == -1
Index == 0 .. Entries - 1
KernelBase == Entries \div 2                \* the PGD index of KERNEL_VA_OFFSET
Pages == 0 .. EarlyGib * Entries * Entries - 1
VPages == 0 .. Entries * Entries * Entries - 1
High(pa) == KernelBase * Entries * Entries + pa

Vpn2(v) == v \div (Entries * Entries)
Vpn1(v) == (v \div Entries) % Entries
Vpn0(v) == v % Entries

EarlyPgd == Static
EarlyPmd(gib) == Static + 1 + gib

\* Mutant: the first of the tables is left out.
MutEarlyPte(k) == Static + EarlyGib + k + 1

EarlyPte(k) == Static + EarlyGib + k        \* k counts from 1

ASSUME VmAssumption ==
  /\ Entries \in Nat \ {0, 1} /\ EarlyGib \in 1 .. KernelBase
  /\ Mmio \in Seq(0 .. EarlyGib * Entries - 1)
  /\ EarlyPtes \in Nat /\ Static \in Nat /\ Static + EarlyGib + EarlyPtes \in Pages
  /\ Pool \subseteq Pages \ (Static .. Static + EarlyGib + EarlyPtes)

None == [is |-> "none"]
Node(p) == [is |-> "node", to |-> p]
Leaf(p, prot) == [is |-> "leaf", to |-> p, prot |-> prot]
EmptyTable == [i \in Index |-> None]

KernelProt == {"R", "W", "X"}
MmioProt == {"R", "W"}

Idle == [at |-> "idle"]

VmInit ==
  /\ satp = Bare
  /\ tables = [p \in {} |-> EmptyTable]
  /\ free = {} /\ spaces = {} /\ call = Idle

(***************************************************************************)
(* What the hardware makes of a table.                                     *)
(***************************************************************************)
Translate(root, v) ==
  LET top == tables[root][Vpn2(v)]
      mid == tables[top.to][Vpn1(v)]
  IN  IF top.is = "none" \/ mid.is = "none" THEN None
      ELSE IF mid.is = "leaf" THEN [mid EXCEPT !.to = @ + Vpn0(v)]
      ELSE tables[mid.to][Vpn0(v)]

(***************************************************************************)
(* The early tables.                                                       *)
(***************************************************************************)
MmioTable(w) == [i \in Index |-> Leaf(w * Entries + i, MmioProt)]

\* The windows that get a table: those for which early_pte has room.
Windows == {k \in DOMAIN Mmio : k <= EarlyPtes}

PmdEntry(w) ==
  IF \E k \in Windows : Mmio[k] = w
  THEN Node(EarlyPte(CHOOSE k \in Windows : Mmio[k] = w))
  ELSE Leaf(w * Entries, KernelProt)

EarlyPgdTable ==
  [i \in Index |->
     IF i < EarlyGib THEN Node(EarlyPmd(i))
     ELSE IF i - KernelBase \in 0 .. EarlyGib - 1 THEN Node(EarlyPmd(i - KernelBase))
     ELSE None]

SetupVm ==
  /\ tables' = [p \in Static .. Static + EarlyGib + EarlyPtes |->
                  IF p = EarlyPgd THEN EarlyPgdTable
                  ELSE IF p <= Static + EarlyGib
                  THEN [i \in Index |-> PmdEntry((p - Static - 1) * Entries + i)]
                  ELSE IF p - Static - EarlyGib \in Windows
                  THEN MmioTable(Mmio[p - Static - EarlyGib])
                  ELSE EmptyTable]
  /\ satp' = EarlyPgd
  /\ UNCHANGED <<free, spaces, call>>

LowHalf == 0 .. EarlyGib - 1

DropIdentityMap ==
  /\ tables' = [tables EXCEPT ![EarlyPgd] =
                  [i \in Index |-> IF i \in LowHalf THEN None ELSE @[i]]]
  /\ UNCHANGED <<satp, free, spaces, call>>

(***************************************************************************)
(* User address spaces.                                                    *)
(***************************************************************************)
\* A page of alloc_pages(0), which clear_table and the caller fill.
NewTable(tb, p, t) == [q \in DOMAIN tb \cup {p} |-> IF q = p THEN t ELSE tb[q]]

UserPgd == [i \in Index |-> IF i >= KernelBase THEN tables[EarlyPgd][i] ELSE None]

VmCreateUserPgd ==
  /\ \E p \in free :
       /\ free' = free \ {p}
       /\ tables' = NewTable(tables, p, UserPgd)
       /\ spaces' = spaces \cup {p}
  /\ UNCHANGED <<satp, call>>

\* A call with n > 0 pages: its arguments, and the loop variable i.
MapPagesTo(pgd, v, n, pa, prot) ==
  call' = [at |-> "map", pgd |-> pgd, va |-> v, n |-> n, pa |-> pa, prot |-> prot, i |-> 0]

CurVa == call.va + call.i
Top == tables[call.pgd][Vpn2(CurVa)]
Mid == tables[Top.to][Vpn1(CurVa)]

\* Mutant: failure is reported as success.
MutFails == call' = [call EXCEPT !.at = "done"]

Fails == call' = [call EXCEPT !.at = "failed"]

\* One level of walk_create: link a new table into `from`, or fail for want of memory.
Link(from, at) ==
  IF free = {}
  THEN Fails /\ UNCHANGED <<satp, tables, free, spaces>>
  ELSE /\ \E p \in free :
            /\ free' = free \ {p}
            /\ tables' = NewTable([tables EXCEPT ![from][at] = Node(p)], p, EmptyTable)
       /\ UNCHANGED <<satp, spaces, call>>

Mapping == call.at = "map" /\ call.i < call.n

CreatePmd ==
  /\ Mapping /\ Top.is = "none"
  /\ Link(call.pgd, Vpn2(CurVa))

CreatePte ==
  /\ Mapping /\ Top.is = "node" /\ Mid.is = "none"
  /\ Link(Top.to, Vpn1(CurVa))

\* Mutant: an entry that is in use is overwritten.
MutTaken == FALSE

\* A superpage in the way, or a page that is mapped already.
Taken == Mid.is = "leaf" \/ tables[Mid.to][Vpn0(CurVa)].is = "leaf"

MapPage ==
  /\ Mapping /\ Top.is = "node" /\ Mid.is # "none"
  /\ IF Taken
     THEN Fails /\ UNCHANGED tables
     ELSE /\ tables' = [tables EXCEPT ![Mid.to][Vpn0(CurVa)] =
                          Leaf(call.pa + call.i, call.prot)]
          /\ call' = [call EXCEPT !.i = @ + 1]
  /\ UNCHANGED <<satp, free, spaces>>

MapDone ==
  /\ call.at = "map" /\ call.i = call.n
  /\ call' = [call EXCEPT !.at = "done"]
  /\ UNCHANGED <<satp, tables, free, spaces>>

Return ==
  /\ call.at \in {"done", "failed"}
  /\ call' = Idle
  /\ UNCHANGED <<satp, tables, free, spaces>>

MapStep == CreatePmd \/ CreatePte \/ MapPage \/ MapDone \/ Return
=============================================================================
