----------------------------- MODULE BootProps ------------------------------
(***************************************************************************)
(* What the boot, the page tables and the two parsers must guarantee.      *)
(***************************************************************************)
EXTENDS Boot, FiniteSets, SequencesExt

Entry(e) == e = None \/ (e.is = "node" /\ e.to \in DOMAIN tables)
                     \/ (e.is = "leaf" /\ e.to \in Pages)

\* Table entries are empty, lead to tables, or to memory; tables are not free.
TypeOK ==
  /\ satp \in {Bare} \cup DOMAIN tables
  /\ DOMAIN tables \subseteq Pages /\ DOMAIN tables \cap free = {}
  /\ \A p \in DOMAIN tables : \A i \in Index : Entry(tables[p][i])
  /\ spaces \subseteq DOMAIN tables /\ free \subseteq Pool
  /\ call.at \in {"idle", "map", "done", "failed"}

Reaches(va) == IF satp = Bare THEN Leaf(va, KernelProt) ELSE Translate(satp, va)

\* From the first instruction to the shell, whatever the state of the MMU, every
\* address in use reaches the page it stands for: the code can be executed, and the
\* registers of devices, in the windows that have tables, cannot.
AddressesReach ==
  \A n \in DOMAIN ptr :
    LET leaf == Reaches(ptr[n].va)
    IN  /\ leaf # None /\ leaf.to = ptr[n].pa
        /\ n \in {"pc", "stvec"} => "X" \in leaf.prot
        /\ n \in {"uart", "plic"} => "X" \notin leaf.prot

\* map_pages_to: what is mapped so far are the first i pages of the request, with
\* the permissions asked for; success means all of them, failure not all.
RequestPrefix ==
  call # Idle =>
    /\ \A j \in 0 .. call.i - 1 :
         Translate(call.pgd, call.va + j) = Leaf(call.pa + j, call.prot)
    /\ call.at = "done" => call.i = call.n
    /\ call.at = "failed" => call.i < call.n

(***************************************************************************)
(* The page tables as partial maps.                                        *)
(***************************************************************************)
MapOf(root) ==
  LET mapped == {v \in VPages : Translate(root, v) # None}
  IN  [v \in mapped |-> Translate(root, v)]

\* The higher half: all of the early memory, devices not executable.
Linear(base) ==
  LET device == {w * Entries + i : w \in {Mmio[k] : k \in DOMAIN Mmio}, i \in Index}
  IN  [v \in {base + p : p \in Pages} |->
         Leaf(v - base, IF v - base \in device THEN MmioProt ELSE KernelProt)]

Promised ==
  INSTANCE PageMap WITH
    KernelMap <- Linear(High(0)),
    BootMap <- [v \in Pages \cup {High(p) : p \in Pages} |->
                  IF v \in Pages THEN Linear(0)[v] ELSE Linear(High(0))[v]],
    Kernel <- EarlyPgd,
    maps <- [s \in ({satp} \ {Bare}) \cup spaces |-> MapOf(s)]

\* Page tables implement partial maps: the kernel half is the same in every address
\* space and for ever, user mappings are only added, and never replace others.
TablesAreMaps == Promised!Spec

(***************************************************************************)
(* The device tree, as a tree.                                             *)
(***************************************************************************)
\* The nodes that are open at a place: that began, and have not ended since.
Around(fdt, i) ==
  {j \in 1 .. i : fdt[j].tok = "begin" /\ \A k \in j .. i : Depth(fdt, k) >= Depth(fdt, j)}

\* The nodes that the path names: below the root, one segment for each depth.
NodesAt(fdt, path) ==
  {i \in 1 .. Len(fdt) :
     /\ fdt[i].tok = "begin" /\ Depth(fdt, i) = Len(path) + 1
     /\ \A j \in Around(fdt, i) :
          Depth(fdt, j) > 1 => fdt[j].name = path[Depth(fdt, j) - 1]}

Named(fdt, name) == {i \in 1 .. Len(fdt) : fdt[i].tok = "prop" /\ fdt[i].name = name}

\* The properties of that name in the node, and not in one inside it.
PropsOf(fdt, node, name) ==
  {i \in Named(fdt, name) : node \in Around(fdt, i) /\ \A j \in Around(fdt, i) : j <= node}

First(S) == IF S = {} THEN NotFound ELSE Min(S)

\* fdt.c finds, in one pass and without a stack, the first node at a path, and its
\* first property of a name.  A node without such a property may be answered for by
\* a node inside it, but by no other.
LookupsRight ==
  \A path \in {<<"soc", "serial">>, <<"soc", "uart">>, <<"chosen">>, <<"memory">>} :
    LET node == PathOffset(tree, path)
    IN  tree # <<>> =>
          /\ node = First(NodesAt(tree, path))
          /\ node # NotFound =>
               \A name \in {"reg", "linux,initrd-start", "linux,initrd-end"} :
                 LET prop == GetProp(tree, node, name)
                     own == PropsOf(tree, node, name)
                 IN  IF own # {} THEN prop = First(own)
                     ELSE prop # NotFound =>
                            prop \in Named(tree, name) /\ node \in Around(tree, prop)

(***************************************************************************)
(* The files of the archive.                                               *)
(***************************************************************************)
Trailer == First({k \in DOMAIN archive.entries : IsTrailer(archive.entries[k])})
IsComplete == Trailer # NotFound /\ archive.headers[Trailer] + HeaderSize < ArchiveEnd

\* The files before the trailer that a name means.
Meant(want) ==
  {k \in DOMAIN archive.entries :
     /\ Trailer = NotFound \/ k < Trailer
     /\ LET e == archive.entries[k]
        IN  e.name = want.name /\ (e.dot = want.dot \/ e.dot)}

DataOf(k) == archive.headers[k] + DataOff(archive.entries[k])

\* The three readers of the archive agree with its format and, on archives that are
\* complete, with each other: ls lists the files before the trailer, cat and exec
\* find the first file that is meant, and exec never hands out data that reaches
\* beyond the archive, complete or not.
FilesFound ==
  LET k == First(Meant(answer.name))
      size == archive.entries[k].filesize
  IN  /\ answer.cmd = "ls" /\ IsComplete => answer.found = [j \in 1 .. Trailer - 1 |-> j]
      /\ answer.cmd = "cat" /\ IsComplete =>
           answer.found = IF k = NotFound THEN Failed ELSE DataOf(k)
      /\ answer.cmd = "exec" /\ answer.found # Failed =>
           /\ k # NotFound /\ answer.found = DataOf(k)
           /\ DataOf(k) + size <= ArchiveEnd /\ size \in 1 .. MaxSize
      /\ answer.cmd = "exec" /\ answer.found = Failed /\ IsComplete =>
           k = NotFound \/ size \notin 1 .. MaxSize
=============================================================================
