-------------------------------- MODULE Boot --------------------------------
(***************************************************************************)
(* From _start to the shell (lab 6): start.S brings the kernel from        *)
(* physical addresses into the higher half, start_kernel finds its devices *)
(* and its memory in the device tree and tries a user mapping, and the     *)
(* shell serves files of the initial ramdisk.                              *)
(*                                                                         *)
(* `ptr` holds the addresses that the code uses at this moment, each with  *)
(* the physical page it is meant to reach.                                 *)
(***************************************************************************)
EXTENDS Vm, Fdt, Cpio

CONSTANTS
  Trees,       \* the device trees a firmware may pass
  Archives,    \* the archives that may be in memory at Ramdisk
  Ramdisk,     \* where the firmware puts the archive
  Text, Stack, DeviceTree,     \* other pages: code, kernel stack, device tree
  PlicBase, PlicContext,       \* PLIC: priorities and enables, threshold and claim
  UserProg,    \* the page of USER_PROG_BASE
  MaxSize,     \* USER_PROG_MAX_SIZE
  Names,       \* the file names given to commands
  UserVas      \* where mappings are requested

VARIABLES
  stage,    \* how far the boot is
  tree,     \* the tokens of the device tree
  ptr,      \* the addresses in use
  range,    \* initrd_start and initrd_end
  archive,  \* what is in memory at initrd_start
  answer    \* what the last command found

vars == <<vmVars, stage, tree, ptr, range, archive, answer>>

InWindow(pa) == pa \in Pages /\ pa \div Entries \in {Mmio[k] : k \in DOMAIN Mmio}

\* There are tables for all the windows.  The kernel is not in one of them, the
\* device that firmware names as UART is, and users ask for their half only.
ASSUME BootAssumption ==
  /\ Len(Mmio) <= EarlyPtes
  /\ {Text, Stack, DeviceTree, PlicContext} \subseteq Pages
  /\ ~InWindow(Text) /\ InWindow(PlicBase)
  /\ \A t \in Trees : GetUartBaseFromDtb(t) = 0 \/ InWindow(GetUartBaseFromDtb(t))
  /\ \A v \in UserVas : v \in Nat /\ v + 1 < High(0)

\* What firmware passes is a device tree blob.
ASSUME FirmwareAssumption == \A t \in Trees : IsBlob(t)

\* What is at Ramdisk is an archive, or the beginning of one.
ASSUME RamdiskAssumption ==
  /\ \A a \in Archives : IsNewc(a.entries, a.headers) /\ a.end \in Nat
  /\ \A f \in Names : f.dot \in BOOLEAN
  /\ MaxSize \in Nat

Points(va, pa) == [va |-> va, pa |-> pa]
InHighHalf(pa) == Points(High(pa), pa)

Use(name, to) ==
  ptr' = [n \in DOMAIN ptr \cup {name} |-> IF n = name THEN to ELSE ptr[n]]

Garbage == [entries |-> <<>>, headers |-> <<>>, end |-> 0]
NoAnswer == [cmd |-> "none"]

Init ==
  /\ VmInit
  /\ stage = "start" /\ tree \in Trees
  /\ ptr = [n \in {"pc"} |-> Points(Text, Text)]
  /\ range = <<0, 0>> /\ archive = Garbage /\ answer = NoAnswer

(***************************************************************************)
(* start.S                                                                 *)
(***************************************************************************)
At(s, next) == stage = s /\ stage' = next
KeepTree == UNCHANGED <<tree, range, archive, answer>>

SetStack ==
  /\ At("start", "stack")
  /\ Use("sp", Points(Stack, Stack))
  /\ UNCHANGED vmVars /\ KeepTree

CallSetupVm ==
  /\ At("stack", "paged")
  /\ SetupVm
  /\ UNCHANGED ptr /\ KeepTree

JumpHigh ==
  /\ At("paged", "high")
  /\ Use("pc", InHighHalf(Text))
  /\ UNCHANGED vmVars /\ KeepTree

\* Mutant: the stack pointer is left where it was.
MutStackHigh == ptr["sp"]

StackHigh == InHighHalf(Stack)

SetStackAndStvec ==
  /\ At("high", "moved")
  /\ ptr' = [n \in DOMAIN ptr \cup {"stvec"} |->
               CASE n = "sp" -> StackHigh [] n = "stvec" -> InHighHalf(Text) [] OTHER -> ptr[n]]
  /\ UNCHANGED vmVars /\ KeepTree

CallDropIdentityMap ==
  /\ At("moved", "dropped")
  /\ DropIdentityMap
  /\ UNCHANGED ptr /\ KeepTree

(***************************************************************************)
(* start_kernel                                                            *)
(***************************************************************************)
EnterKernel ==
  /\ At("dropped", "uart")
  /\ Use("fdt", InHighHalf(DeviceTree))
  /\ UNCHANGED vmVars /\ KeepTree

UartInit ==
  /\ stage = "uart"
  /\ LET base == GetUartBaseFromDtb(tree)
     IN  IF base = 0
         THEN stage' = "halted" /\ UNCHANGED ptr
         ELSE stage' = "initrd" /\ Use("uart", InHighHalf(base))
  /\ UNCHANGED vmVars /\ KeepTree

Chosen(name) == High(DtbGetU64Prop(tree, <<"chosen">>, name))

InitrdSetRange ==
  /\ At("initrd", "mm")
  /\ range' = <<Chosen("linux,initrd-start"), Chosen("linux,initrd-end")>>
  /\ UNCHANGED <<vmVars, tree, ptr, archive, answer>>

\* mm_init; the pages it will give out are the constant Pool.  Nothing reads the
\* device tree after it.
MmInit ==
  /\ stage = "mm"
  /\ IF DtbGetMemoryRegion(tree) = <<>>
     THEN stage' = "halted" /\ UNCHANGED free
     ELSE stage' = "vmtest" /\ free' = Pool
  /\ tree' = <<>>
  /\ UNCHANGED <<satp, tables, spaces, call, ptr, range, archive, answer>>

(***************************************************************************)
(* Uses of the interface of vm.h: vm_user_mapping_test, and others of its  *)
(* kind that map one page or two and try the same address again.           *)
(***************************************************************************)
UserProt == {"U", "R", "W"}
OnlyVm == UNCHANGED <<stage, tree, ptr, range, archive, answer>>
VmTest == stage = "vmtest" /\ call = Idle

CreateUserPgd == VmTest /\ VmCreateUserPgd /\ OnlyVm

MapUserPages ==
  /\ VmTest
  /\ \E pgd \in spaces, v \in UserVas, n \in 1 .. 2, p \in free :
       /\ p .. p + n - 1 \subseteq free
       /\ free' = free \ (p .. p + n - 1)
       /\ MapPagesTo(pgd, v, n, p, UserProt)
  /\ UNCHANGED <<satp, tables, spaces>> /\ OnlyVm

Mapper == stage = "vmtest" /\ MapStep /\ OnlyVm

\* The test keeps no pointer to what it made: its tables and pages are lost.
TestEnds ==
  /\ VmTest /\ stage' = "plic"
  /\ tables' = [p \in Static .. Static + EarlyGib + EarlyPtes |-> tables[p]]
  /\ free' = {} /\ spaces' = {}
  /\ UNCHANGED <<satp, call, tree, ptr, range, archive, answer>>

PlicInit ==
  /\ At("plic", "shell")
  /\ ptr' = [n \in DOMAIN ptr \cup {"plic", "claim"} |->
               CASE n = "plic" -> InHighHalf(PlicBase)
                 [] n = "claim" -> InHighHalf(PlicContext)
                 [] OTHER -> ptr[n]]
  /\ archive' \in IF range[1] = High(Ramdisk) THEN Archives ELSE {Garbage}
  /\ UNCHANGED <<vmVars, tree, range, answer>>

(***************************************************************************)
(* The shell's commands on the ramdisk.                                    *)
(***************************************************************************)
InitrdAvailable == range[1] # 0 /\ range[2] # 0 /\ range[2] > range[1]
ArchiveEnd == IF InitrdAvailable THEN archive.end ELSE 0

Answers(a) ==
  /\ stage = "shell" /\ stage' = stage /\ answer' = a
  /\ UNCHANGED <<vmVars, tree, ptr, range, archive>>

Ls == Answers([cmd |-> "ls", found |-> List(archive.entries, archive.headers, ArchiveEnd)])

CatFile ==
  \E f \in Names :
    Answers([cmd |-> "cat", name |-> f,
             found |-> Cat(archive.entries, archive.headers, ArchiveEnd, f)])

\* exec up to the copy into the program region, which faults when the region is not
\* mapped; do_trap stops then.
Exec ==
  \E f \in Names :
    LET at == LoadImage(archive.entries, archive.headers, ArchiveEnd, f, MaxSize)
    IN  IF at = Failed \/ Translate(satp, UserProg) # None
        THEN Answers([cmd |-> "exec", name |-> f, found |-> at])
        ELSE /\ At("shell", "stopped")
             /\ answer' = [cmd |-> "exec", name |-> f, found |-> at]
             /\ UNCHANGED <<vmVars, tree, ptr, range, archive>>

Halted == stage \in {"halted", "stopped"} /\ UNCHANGED vars

StartS ==
  SetStack \/ CallSetupVm \/ JumpHigh \/ SetStackAndStvec \/ CallDropIdentityMap

StartKernel == EnterKernel \/ UartInit \/ InitrdSetRange \/ MmInit \/ TestEnds \/ PlicInit

Next ==
  StartS \/ StartKernel \/ CreateUserPgd \/ MapUserPages \/ Mapper
    \/ Ls \/ CatFile \/ Exec \/ Halted

Spec == Init /\ [][Next]_vars
=============================================================================
