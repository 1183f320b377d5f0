------------------------------- MODULE MCBoot -------------------------------
(***************************************************************************)
(* Instances of Boot: a memory of 32 pages in 8 windows of 4, small device *)
(* trees and small archives.                                               *)
(***************************************************************************)
EXTENDS BootProps

Windows2 == <<5, 6>>
PoolPages == 10 .. 14
Vas == {0, 3, 15}

(***************************************************************************)
(* Device trees: what the firmware may put under "/", in any order.        *)
(***************************************************************************)
Reg(v) == Prop("reg", 8, <<v>>)
Wrap(name, inner) == <<Begin(name)>> \o inner \o <<FdtEnd>>

\* What may be inside a node of a device: nothing, a register of its own, one too
\* short, or a node inside it with a register.
Serials ==
  {Wrap("serial", <<>>), Wrap("serial", <<Nop, Reg(20)>>),
   Wrap("serial", <<Prop("reg", 4, <<22>>)>>), Wrap("serial", Wrap("port", <<Reg(21)>>))}

Uarts == {Wrap("uart", <<Reg(21)>>), Wrap("other", Wrap("serial", <<Reg(22)>>))}

Socs ==
  {Wrap("soc", <<>>)} \cup {Wrap("soc", a) : a \in Serials \cup Uarts}
    \cup {Wrap("soc", a \o b) : a \in Serials, b \in Uarts}
    \cup {Wrap("soc", b \o a) : a \in Serials, b \in Uarts}

\* The same names in other places.
Decoy ==
  Wrap("bus", Wrap("serial", <<Reg(23)>>) \o Wrap("soc", Wrap("serial", <<Reg(23)>>)))

InitrdProps(from, to) ==
  Wrap("chosen",
       (IF from = 0 THEN <<>> ELSE <<Prop("linux,initrd-start", 8, <<from>>)>>)
         \o (IF to = 0 THEN <<>> ELSE <<Prop("linux,initrd-end", 8, <<to>>)>>))

Chosens == {InitrdProps(17, 18), InitrdProps(0, 0), InitrdProps(0, 18)}
Memory == Wrap("memory", <<Prop("reg", 16, <<0, 32>>)>>)

Orders == {<<"soc", "chosen", "memory">>, <<"decoy", "memory", "chosen", "soc">>,
           <<"soc", "decoy">>, <<"memory", "soc", "soc", "chosen">>}

FirmwareTrees ==
  {Wrap("root", FlattenSeq([i \in DOMAIN o |->
                  CASE o[i] = "soc" -> s [] o[i] = "chosen" -> c
                    [] o[i] = "memory" -> Memory [] o[i] = "decoy" -> Decoy]))
     \o <<FdtStop>> : o \in Orders, s \in Socs, c \in Chosens}

(***************************************************************************)
(* Archives: files with names and sizes of all remainders, cut off at any  *)
(* header, name or data, or complete.                                      *)
(***************************************************************************)
File(dot, name, size) == Header(dot, name, IF dot THEN 4 ELSE 3, size)
TrailerEntry == Header(FALSE, "TRAILER!!!", 11, 0)

Contents ==
  {<<File(d, "a", n), File(TRUE, b, m), TrailerEntry>> :
     d \in BOOLEAN, b \in {"a", "b"}, n \in {0, 1, 4, 6}, m \in {3, 9}}
  \cup {<<TrailerEntry, File(TRUE, "a", 4)>>, <<File(FALSE, "b", 2)>>}

\* Where the headers are: each entry begins at the next multiple of 4.
HeadersOf(es) ==
  LET size(e) == Align4(Align4(HeaderSize + e.namesize) + e.filesize)
  IN  [k \in DOMAIN es |-> FoldFunctionOnSet(+, 0, [j \in DOMAIN es |-> size(es[j])], 1 .. k - 1)]

FirmwareArchives ==
  {[entries |-> es, headers |-> HeadersOf(es), end |-> e] :
     es \in Contents, e \in {100, 112, 116, 120, 230, 236, 240, 360, 400}}

FileNames == {[dot |-> d, name |-> n] : d \in BOOLEAN, n \in {"a", "b"}}
=============================================================================
