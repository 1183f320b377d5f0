-------------------------------- MODULE Fdt ---------------------------------
(***************************************************************************)
(* The device tree parser of fdt.c.  The structure block is a sequence of  *)
(* tokens; a place in it is an index.  A node name is its part before "@", *)
(* which is all that node_name_match looks at; a property is its name, its *)
(* length and the numbers fdt64 would read there.                          *)
(***************************************************************************)
EXTENDS Integers, Sequences, FiniteSets

Begin(name) == [tok |-> "begin", name |-> name]
FdtEnd == [tok |-> "end"]
Prop(name, len, val) == [tok |-> "prop", name |-> name, len |-> len, val |-> val]
Nop == [tok |-> "nop"]
FdtStop == [tok |-> "stop"]                 \* FDT_END
NotFound == 0

\* How many nodes are open after the i-th token.
Depth(fdt, i) ==
  LET Count(tok) == Cardinality({k \in 1 .. i : fdt[k].tok = tok})
  IN  Count("begin") - Count("end")

\* The properties of a node stand before the nodes in it.
BeforeNodes(fdt, prop) ==
  \A e \in 1 .. prop : fdt[e].tok = "end" => \E b \in e .. prop : fdt[b].tok = "begin"

\* FDT_END is the last token, and no node ends that did not begin.
InFormat(fdt, i) ==
  /\ fdt[i].tok \in {"begin", "end", "prop", "nop", "stop"}
  /\ fdt[i].tok = "stop" <=> i = Len(fdt)
  /\ Depth(fdt, i) >= 0
  /\ fdt[i].tok = "prop" => BeforeNodes(fdt, i)

\* The format of the structure block, on which the parser relies once it has seen the
\* magic number.
IsBlob(fdt) ==
  /\ Len(fdt) \in Nat \ {0} /\ DOMAIN fdt = 1 .. Len(fdt)
  /\ \A i \in 1 .. Len(fdt) : InFormat(fdt, i)

\* Mutant: what was matched is kept at the end of a node.
MutUnmatch(matched, depth) == matched

\* What remains matched at the end of a node that leaves `depth` nodes open.
Unmatch(matched, depth) ==
  IF matched <= depth - 1 THEN matched ELSE IF depth <= 0 THEN 0 ELSE depth - 1

\* The variables of the loop of fdt_path_offset: a place, the depth there, and the number
\* of path segments that the nodes around it match.
Place(at, depth, matched) == [at |-> at, depth |-> depth, matched |-> matched]

\* What is matched once the node that begins there is compared.
Match(fdt, path, p) ==
  CASE p.depth = 0 -> 0
    [] /\ p.depth \in 1 .. Len(path) /\ p.matched = p.depth - 1
       /\ fdt[p.at].name = path[p.depth] -> p.matched + 1
    [] OTHER -> p.matched

\* fdt_path_offset: one pass, without a stack.
PathOffset(fdt, path) ==
  LET scan[p \in [at : 1 .. Len(fdt), depth : Int, matched : Nat]] ==
        CASE fdt[p.at].tok = "begin" ->
               IF Match(fdt, path, p) = Len(path) THEN p.at
               ELSE scan[Place(p.at + 1, p.depth + 1, Match(fdt, path, p))]
          [] fdt[p.at].tok = "end" ->
               scan[Place(p.at + 1, p.depth - 1, Unmatch(p.matched, p.depth - 1))]
          [] fdt[p.at].tok \in {"prop", "nop"} -> scan[Place(p.at + 1, p.depth, p.matched)]
          [] OTHER -> NotFound
  IN  scan[Place(1, 0, 0)]

\* The variables of the loop of fdt_getprop: a place, and how many nodes inside the node
\* are open there.
PlaceIn(at, depth) == [at |-> at, depth |-> depth]

\* fdt_getprop: the first property of that name from the node on, whatever the
\* depth, before the node ends.
GetProp(fdt, node, name) ==
  LET scan[p \in [at : 1 .. Len(fdt), depth : Nat]] ==
        CASE fdt[p.at].tok = "prop" ->
               IF fdt[p.at].name = name THEN p.at ELSE scan[PlaceIn(p.at + 1, p.depth)]
          [] fdt[p.at].tok = "begin" -> scan[PlaceIn(p.at + 1, p.depth + 1)]
          [] fdt[p.at].tok = "end" ->
               IF p.depth = 0 THEN NotFound ELSE scan[PlaceIn(p.at + 1, p.depth - 1)]
          [] fdt[p.at].tok = "nop" -> scan[PlaceIn(p.at + 1, p.depth)]
          [] OTHER -> NotFound
  IN  scan[PlaceIn(node + 1, 0)]

\* The property `name` of the node at `path`, if it has at least `len` bytes.
Lookup(fdt, path, name, len) ==
  LET node == PathOffset(fdt, path)
      prop == IF node = NotFound THEN NotFound ELSE GetProp(fdt, node, name)
  IN  IF prop # NotFound /\ fdt[prop].len >= len THEN prop ELSE NotFound

\* dtb_get_u64_prop and dtb_get_reg_base: 0 stands for a missing value.
DtbGetU64Prop(fdt, path, name) ==
  LET prop == Lookup(fdt, path, name, 8)
  IN  IF prop = NotFound THEN 0 ELSE fdt[prop].val[1]

DtbGetRegBase(fdt, path) == DtbGetU64Prop(fdt, path, "reg")

GetUartBaseFromDtb(fdt) ==
  LET serial == DtbGetRegBase(fdt, <<"soc", "serial">>)
  IN  IF serial # 0 THEN serial ELSE DtbGetRegBase(fdt, <<"soc", "uart">>)

\* dtb_get_memory_region: base and size, as 64-bit or else as 32-bit numbers.
DtbGetMemoryRegion(fdt) ==
  LET prop == Lookup(fdt, <<"memory">>, "reg", 8)
  IN  IF prop = NotFound THEN <<>> ELSE fdt[prop].val
=============================================================================
