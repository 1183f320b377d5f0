# Verification of the OrangePi RV2 kernel

This directory holds TLA+ specifications of the kernel in `lab5/OrangePiVer` (the last
snapshot whose user processes run), of the memory allocator, the page tables and the boot of
`lab6/OrangePiVer`, the TLC configurations that check them on small instances, and proofs checked by TLAPS.
Everything is translated from the C and assembly sources; paths below are relative to
`lab5/OrangePiVer` unless they start with a lab.

## 1. The system

The kernel runs on one hart in S-mode; user processes run in U-mode without address
translation. There is no in-kernel preemption: a task loses the hart only by calling
`schedule()` or `thread_exit()`, or to a timer interrupt that arrives in U-mode. Interrupts
that arrive in S-mode run their handler and the deferred tasks, and return.

| Component | State | Operations | Interacts with |
|---|---|---|---|
| Threads, scheduler (`Src/thread.c`) | `tasks[]`, the ring at `run_queue_tail`, `tp`, `next_pid` | create, schedule, exit, kill, reap, `kill_zombies` | everything that creates or waits for tasks |
| User processes (`Src/user.c`, `Src/user_loader.c`) | trap frame, user and kernel stack, parent, the image at `USER_PROG_BASE` | create, enter U-mode, fork, exec | scheduler, signals, initrd |
| Signals (`Src/signal.c`) | handlers, pending set, `handling_signal`, saved trap frame | signal, kill, deliver on return to U-mode, sigreturn | trap exit, fork, exec, task_kill |
| System calls, trap dispatch (`Src/syscall.c`, `Src/trap.c`) | the trap frame | 11 system calls, timer and external interrupts | all of the above, deferred tasks |
| Trap entry, context switch (`start.S`, `trap_entry.S`) | sepc, sstatus, sscratch, registers | save and restore, `switch_to` | all tasks |
| Software timers (`Src/timer.c`) | sorted list, pool of 32, `sched_next_tick`, the comparator | `add_timer`, the timer interrupt, `timer_trigger_now` | SBI, deferred tasks |
| Deferred tasks (`Src/task.c`) | priority list, pool of 64, `task_current_priority` | `add_task`, `run_pending_task` with nested interrupts | trap exit |
| UART (`Src/uart.c`, `Src/plic.c`) | rx ring, overflow count | interrupt handler, `uart_getc`, `uart_try_getc` | shell, loader, `uart_read` |
| Loader (`Src/loader.c`, host `send_kernel.py`) | the image at 0x20000000 | receive a header and an image, jump | UART |
| Shell (`Src/shell.c`, `Src/thread_test.c`) | the command line, `timeout_msgs[16]` | commands that create tasks and wait, `setTimeout`, `tasktest` | all of the above; it *is* the idle task |
| Allocator (`lab6 Src/mm.c`) | frames, free lists, chunk pools, reservations | alloc, free, split, merge, reserve | vm, boot |
| Virtual memory (`lab6 Src/vm.c`) | page tables, `satp` | early map, drop identity map, user PGD, map pages | allocator, boot |
| Device tree, initrd (`lab6 Src/fdt.c`, `Src/initrd.c`) | read-only blobs, the range of the ramdisk | path and property lookup; list, print, find a file | boot, shell, loader of programs |
| Boot (`lab6 start.S`, `Src/main.c`) | pc, sp, stvec, the addresses of devices | enable paging, move to the higher half, initialise | all of the above |

What is hard here, and why tests hardly reach it: a process can be killed at any of the
points where its kernel code waits; slots of `tasks[]` are recycled while others hold
pointers to them; signals, fork and exec meet in one trap frame; interrupts nest in
callbacks and change lists that interrupted code will look at again; two lists and a
hardware comparator have to agree on what fires next; `sstatus.SIE` follows the hart, not
the task; the receive ring is drained by its reader as well as by the interrupt handler.
`PROJECT.json` lists each hazard with its line and the properties that cover it.

What makes each component correct:

* scheduler: the ring holds exactly the runnable tasks; every task gets the hart again, unless
  tasks are created for ever; a pid names one task;
* exit and wait: a zombie is collected once, by its parent; whoever waits for a task waits
  for that task and returns when it is over;
* processes: no two live processes share a stack;
* signals: none is lost, a handler always returns to the context it interrupted;
* timers and tasks: every timeout fires, once, in order; nothing of lower priority preempts;
  no node or message slot leaks;
* UART: the ring is a bounded queue; a reader that drains the receiver keeps the interrupt
  handler out, and does not depend on it; an image is stored as it was sent;
* allocator: blocks are disjoint, inside memory and off the reserved regions; no page or
  chunk is lost; free blocks merge back as far as they can;
* trap path: every process gets its own registers back, kernel code its stack and
  registers, and nothing interrupts code that holds sepc or sscratch in the CSRs;
* virtual memory: a request maps a prefix of its pages, all of them if it says so; nothing
  mapped is replaced; the kernel half is the same everywhere;
* boot: every address in use, at every point, reaches the page it stands for;
* device tree and ramdisk: the one-pass readers find what the formats mean.

## 2. Modules

| Module | Content |
|---|---|
| `Proc` | the process layer: `thread.c`, `user.c`, `signal.c`, the scheduling part of `syscall.c` and `trap.c`, and the waiting loops of the shell |
| `ProcProps`, `MCProc` | its properties; the sets of system calls the programs of a run may make |
| `ProcProofs`, `ProcSafety` | proofs about `Proc`: types and run queue; then what it guarantees to processes |
| `Deferred` | `timer.c`, `task.c`, nested traps, `setTimeout` and `tasktest` |
| `Timeouts` | abstract specification of `setTimeout`: a queue ordered by due time |
| `DeferredProps`, `MCDeferred` | properties, the refinement mapping to `Timeouts`; model values |
| `DeferredProofs` | proofs about `Deferred` |
| `UartRing` | the receive side of `uart.c` and what the loader stores |
| `ByteQueue` | abstract specification of the ring: a bounded queue with a drop count |
| `UartProps`, `MCUart` | properties, the refinement mapping to `ByteQueue`; bytes |
| `UartProofs` | proofs about `UartRing`, among them the refinement |
| `Buddy` | the allocator of lab 6: `mm_init`, `alloc_pages`, `free_pages`, the chunk pools |
| `Heap` | abstract specification of an allocator: disjoint extents, off the reserved ones |
| `BuddyProps`, `MCBuddy` | properties, the refinement mapping to `Heap`; a small memory |
| `BuddyProofs` | proofs about `Buddy` |
| `TrapPath` | `start.S` and `trap_entry.S` at the level of registers, and the C code that prepares what they load |
| `Contexts` | abstract specification of the above: each process has registers of its own |
| `TrapProps`, `MCTrap` | properties, the refinement mapping to `Contexts` |
| `TrapProofs` | proofs about `TrapPath`: the invariant, then the refinement |
| `Vm` | `vm.c` of lab 6: early tables, user tables, `map_pages_to` turn by turn |
| `PageMap` | abstract specification of page tables: partial maps |
| `Fdt`, `Cpio` | the readers of `fdt.c` and `initrd.c`, as functions of the blob |
| `Boot` | composes `Vm`, `Fdt` and `Cpio`: from `_start` to the commands of the shell |
| `BootProps`, `MCBoot` | properties, the refinement mapping to `PageMap`, reference definitions of the lookups; device trees and archives |
| `BootProofs` | proofs about `Vm`, `Cpio`, `Fdt` and `Boot`, among them the refinement of `PageMap` |
| `NatFacts` | lemmas about natural numbers, division and remainder, for the other proofs |

Each module stands for a part that shares almost no state with the others: `Proc`,
`Deferred` and `UartRing` meet in `do_trap` (which `Proc` and `Deferred` both model, each
the branches that concern it) and in the shell; `TrapPath` is the floor that `Proc` and
`Deferred` stand on, with the choice of tasks left open; `Buddy` is a sequential component
that the others of lab 6 call, and `Boot` sees it as a set of free pages.

### Proc

`task[s]` is `tasks[s]`, except for its `next` pointer: those of all tasks are `runq.next`,
next to `run_queue_tail`, `runq.tail`. `RunqAdd`, `RunqRemove` and `PickNext` do the pointer
surgery and the walks of the code; a walk that follows a null pointer ends at `Nil`, where
the code would crash, and `RunQueueExact` excludes it. `cur` is `tp`. `kpc[t]` says where the kernel code of `t`
continues when it gets the hart again, with what its waiting loop watches (`on`), since
that code keeps `task_struct` pointers on its stack. A stretch of kernel code between two
`schedule()` calls is one action; timer interrupts in S-mode do not schedule, so nothing
interferes in between.

| Code | Actions |
|---|---|
| `thread_trampoline`, `user_process_entry`, `test_thread` | `Start`, `KThread` |
| timer interrupt in U-mode, other traps | `Tick`, `PlainTrap` |
| the system calls | `SysFork`, `SysExec`, `SysWaitpid` and `WaitpidStep`, `SysExit`, `SysStop`, `SysKill`, `SysSignal`, `Sigreturn`, `SysPoll` and `Poll` (`uart_read`, `usleep`) |
| end of `do_trap`: `signal_try_deliver`, sret | `TrapReturn` |
| shell: prompt, exec and the test programs, `threadtest` | `ShellIdle`, `ShellRun` and `ShellWait`, `ShellThreadTest`, `ShellSpawn` and `ThreadsWait` |

The registers of a process are abstracted to a `Context`: which code it executes (main
program, handler, or the endless loop behind a failed sigreturn), the stack `sp` points
into, and the image `pc` points into. Programs are arbitrary: in U-mode a process may make
any system call of the set `Calls` at any time. Two constants restrict them: `EndsOthers` says
whether they may end others than themselves and their own children (`MayEnd`), by `stop` or
by a signal without a handler, and `HandlerForks` whether a handler may fork. The programs
linked into the kernel (`user_test.c`) make the calls in `LinkedCalls`. Tasks may be created
without end: `Later` counts `next_pid` up to `MaxPid` and takes all later pids for one value. Not in the model: exit statuses and return
values, the text printed, kernel stacks, and the contents of images.

### Deferred

`timers` and `tasks` are the two sorted lists, `hw` the comparator that `sbi_set_timer`
writes; a timer interrupt is pending when `hw <= now`. `frames` is the stack of traps in
progress; a frame that runs a callback keeps the `prev_priority` that `run_pending_task`
holds in a local variable. `sie` is `sstatus.SIE`: a trap clears it, `sret` restores it, a
callback runs with it set, and `switch_to` leaves it alone, so the shell continues with it
clear after a user process has ended (`ProgramEnds`). The hart takes a pending interrupt
before the next instruction that runs with interrupts enabled (`Quiet`), as the privileged
architecture requires after a CSR write. User processes are reduced to "one runs or none
does"; their interleaving is the business of `Proc`.

### UartRing

`fifo` is the hardware receiver (external: its depth is a constant, a byte that finds it
full is lost), `buf`, `r`, `w`, `overflow` are `rx_buf`, `rx_r`, `rx_w`, `rx_overflow`.
`sie` is `sstatus.SIE`. A reader is in `uart_getc` or `uart_try_getc`, the handler may be in
progress on top of it (`isr`). Reading is split where an interrupt can come between: `Check` (the
look at the ring, with interrupts masked), `Poll` (the look at LSR, with interrupts as the
caller had them), `Lock` (the `local_irq_save` of `uart_handle_irq`), `Fetch` and `Store` (one
turn of the draining loop: the receiver is read, then the ring is written; shared by reader
and interrupt handler), `Drained` (`local_irq_restore`). Nothing but `sie` keeps `Interrupt`
out of a reader that drains: with `MutLock`, a lost mask, the handler's bytes overtake the
one the reader has in its hand, and `BytesInPlace` is violated. `sent` and `taken` are history
variables; `Image` is what `load_image_and_boot` stores of what was taken. Transmission is
polled and the tx ring is never filled, so it is left out.

### Buddy

`frames` is `frame_array` with its metadata, `freeArea[o]` and `chunks[p]` are the linked
lists of `free_area[o]` and of pool `p` read from the head (`list_add` puts a block at the
head, `list_del` takes it out wherever it is), `early` is `early_reserved`, whose last
entry becomes `frame_array` itself. `call` is the loop of `mm.c` that is running, with its
local variables; `held` is a history variable, the pointers that callers were given and
the sizes they asked for. Addresses count bytes from `managed_base`.

| Code | Actions |
|---|---|
| `startup_alloc`, and its failure | `Startup`, `Halt` |
| `mm_init` step 7: the largest blocks that fit | `Fill` |
| `mm_init` step 8: `memory_reserve` of each region, order by order | `Reserve` |
| `allocate`, `alloc_chunk` from a list, entry to `alloc_pages` | `Allocate` |
| the splitting loop of `alloc_pages`, and its return through `refill_chunk_pool` | `Split`, `AllocDone` |
| `free`, `free_chunk`, entry to `free_pages` | `Free` |
| the merging loop of `free_pages`, and its end | `Merge`, `MergeDone` |

Callers are legal: they free what they hold, once. Left out: the log, the argument checks of
`free_pages` that no such caller meets, and where the regions come from (device tree, linker).

### TrapPath

`hart` is the registers: mode, pc, sp, tp, sepc, sscratch, the three bits of sstatus, and
one value `x` for all other general registers. A stack pointer is a stack and a number of
trap frames on it; `stack` holds the frames by the sp that points to them, `context` and
`trapframe` are fields of `task_struct`. Instructions between which no interrupt can be
seen are one action, so the way out of a trap is five actions and `return_to_user` is five;
an interrupt can come before each that `sie` allows. `Switch(next, ret)` chooses any living
task. The kernel's registers are taken to be a value that depends on the stack and depth
(`KernelRegs`), which is how a property can tell that they came back.

| Code | Actions |
|---|---|
| `handle_exception` up to `do_trap` | `Interrupt`, `Fault`, `Ecall` |
| `do_trap` | `Timer`, `External`, `SysFork` to `SysOther`, `Poll`, `Stopped`, `RunCallback`, `CallbackEnds` |
| `handle_exception` after `do_trap` | `ExitSepc` to `ExitSret` |
| `switch_to` | `SwitchSave`, `SwitchLoad`, `SwitchTp` |
| `thread_trampoline`, `user_process_entry`, `return_to_user` | `TrampolineThread`, `UserProcessEntry`, `ReturnToUserSstatus` to `ReturnToUserSret` |
| threads, shell, programs | `Thread`, `ShellRun`, `ShellThreads`, `ShellWait`, `Compute` |

`t0` is exempt: `handle_exception` computes with it before it saves it (`start.S:41`), so
every trap loses what the interrupted code had in it. Signals are left out here: they
change the frame in memory and not the path, and are the business of `Proc`.

### Vm, Fdt, Cpio, Boot

`tables[p]` is the content of page `p` while it is a table; addresses count pages, and the
three indices of a virtual page are its digits in base `Entries`. `Translate` is the walk
of the hardware (external). `call` is the call of `map_pages_to` in progress; one turn of
its loop is `MapPage`, preceded by `CreatePmd` and `CreatePte` when `walk_create` needs
tables. `Fdt` works on a sequence of tokens and `Cpio` on headers with offsets; their loops
are recursive functions with the local variables of the C functions as arguments.

`Boot` runs them in order: `stage` says how far `_start` and `start_kernel` are. `ptr` is a
history variable with the addresses in use and the page each is meant to reach: pc, sp,
stvec, the device tree, the registers of the UART and of the PLIC. `MapUserPages` is
`vm_user_mapping_test` generalised to requests of one or two pages at any of a few
addresses, several times, so that requests collide and memory runs out in the middle.

## 3. Runs

| Run | Question | Result |
|---|---|---|
| `proc` | are task table, ring and pids consistent under all interleavings; do waits end on the right task; does only the parent collect; are contexts, stacks and pending signals right; while the shell waits for a command, does waitpid return, and does every task get the hart again unless tasks are created for ever? (programs end only themselves and their own children, handlers do not fork) | holds |
| `proc_shell_reaps` | does only the parent collect, if programs end children of others? | violated |
| `proc_handler_fork` | are stacks disjoint if handlers fork? | violated |
| `deferred_core` | are pools, comparator, message slots and priorities consistent under all nestings? | holds |
| `deferred_order` | do the lists implement `Timeouts`, if the task pool suffices, and does every timeout fire unless the shell is left with interrupts disabled? | holds |
| `deferred_sie` | does every timeout fire, with user processes? | violated |
| `uart_ring` | does the ring implement `ByteQueue`; do bytes come out of it as they were sent until one is lost, whoever drains the receiver; does `uart_getc` return without the help of interrupts? | holds |
| `uart_image` | does the loader store the image that the host sent? | violated |
| `buddy` | does the allocator implement `Heap`, lose nothing, merge as far as possible, and end every loop, whatever the regions at boot? | holds |
| `trap` | do processes and kernel code get their registers and stacks back, whatever nests, if no interrupt hits `return_to_user`? | holds |
| `trap_first_sret` | does sret always enter the program? | violated |
| `boot` | do all addresses in use reach their pages, do page tables implement `PageMap`, are lookups and files right? | holds |

The violations are disagreements between the code and what its comments say; `findings` in
`PROJECT.json` quotes both sides.

* The shell keeps a `task_struct` pointer over `schedule()`. If its program is stopped and
  the slot recycled by a fork, it waits for, and reaps, somebody else's child. `stop` by a
  process other than the parent is essential: `thread_exit` runs the parent next, which
  closes the window for programs that exit, and `proc` shows that this suffices.
* A fork inside a handler copies a stack pointer into the signal stack of the parent.
* The loader reads a binary image through `uart_getc`, which turns 0x0d into 0x0a
  (`uart.c:247`): an image with such a byte is not stored as it was sent. `uart_getc_raw`
  (`uart.c:261`), which does not convert, has no caller. The magic number and the size pass
  through `uart_getc` too.
* After the first process has ended, the shell runs with interrupts disabled for ever and
  timeouts do not fire until another process runs in U-mode.
* `setup_user_sstatus` copies the current sstatus into the frame of a new process. The first
  process is created with SIE set; `return_to_user` then runs interruptible, an interrupt
  replaces sepc, and sret enters U-mode inside `return_to_user`. `trap` excludes it by
  `QuietWindow`; later processes are created with SIE clear.

Weaknesses of the code that are in the models, or were met while writing them, without a run
of their own:

* The shell is the idle task and does not yield at its prompt (`shell.c:145`), although
  `thread.c:247` says that the idle task does: background processes stop until the next
  command. `EveryTaskRuns` and `WaitpidReturns` speak of the time while the shell waits.
* `run_thread_test` watches slots, not threads: when a zombie of the test is swept by a fork
  and its slot reused, the test waits for the new owner.
* All images of lab 5 share one region at `USER_PROG_BASE`, so an exec in a child replaces
  the code its parent executes (`loaded` against the `img` of a context).
* Tasks can be starved by an endless creation of others. `thread_exit` gives the hart to a
  living parent and not to the next on the ring (`thread.c:202-205`): a process that forks, loses
  the hart to its child by a tick, gets it back by the child's exit, collects the child
  and forks again passes all others over, for ever, although ticks keep coming. A chain of
  processes that fork and are ended by their children does the same, because `runq_add` puts a
  new task behind the one added last (`thread.c:18-28`), not behind the one that runs.
  `EveryTaskRuns` therefore excepts behaviours in which tasks are created infinitely often, and
  says that nothing else starves a task: no loop of yields, waits, polls, signals, exits or ticks.
* After a lost byte the loader waits for ever for the last one.
* Every trap loses `t0` (`start.S:41`).
* `task.c:120` compares with `>`, so a callback can be interrupted by one of its own priority
  between its start and its `uart_puts`. The callbacks of timeouts all have priority 1: they
  start in order (`PrintsInOrder`), but an interrupt at that place lets a later one print first.
* In lab 6, `exec` writes to `USER_PROG_BASE` (`user_loader.c:41`) through an address of the
  low half, which `drop_identity_map` has unmapped: the store faults and the machine stops
  (`Boot!Exec`). The same holds for the loader's `load` at 0x20000000.
* The PLIC's threshold and claim registers (`plic.c:12`) lie 2 MiB above its base and so
  outside the window that `setup_vm` maps for devices: they are reached through an executable
  superpage. `AddressesReach` therefore asks for non-executable pages of `plic` but not of `claim`.
* `fdt_getprop` answers with a property of a node inside the one asked for, if that has none
  of the name. `LookupsRight` says exactly this much.
* A device tree with `linux,initrd-end` and no `linux,initrd-start` passes `initrd_available`,
  since 0 has become a kernel address; the first header is then read from there.
* `ls` and `cat` check the end of the archive only between entries; only `exec` checks it
  for the data. `FilesFound` promises `ls` and `cat` for complete archives only.
* `user_loader.c:36` checks `USER_PROG_MAX_SIZE`; `USER_PROG_LOAD_MAX_SIZE` (`user_addr.h:38`),
  which leaves room for the trampoline, is never used.
* `map_pages_to` that fails keeps the tables it has linked and the pages it has mapped, and
  `vm_user_mapping_test` keeps no pointer to what it made (`PageMap!Lose`).

### Bounds

* `Proc`: 3 slots (the shell, a parent and a child, or the shell and two threads), which the
  programs, the shell and a thread test of 3 threads fill, so that creation fails; one `schedule()` per
  thread, one image besides the linked ones. Two signals are the least for one to be pending while
  another is handled. `next_pid` is the only unbounded counter. `MaxPid` does not limit how
  many tasks are created: pids up to 2 are told apart and all later ones are one value,
  which no decision of the code depends on; `PidsUnique` and `WaitsForSameTask`, which compare
  pids, see the reuse of a slot within the first three creations. The theorems of section 4 hold for
  every number of slots and every `MaxPid`, so for pids that are told apart for any length of time.
* `Deferred`: 2 message slots, pools of 2 (exhausted by two timeouts and a `tasktest`),
  a tick every 2 time units, delays of -1, 0, 1 and 2, the clock up to 3 or 4 (`Horizon`):
  timers before, at and after a tick, late handling, ties. A command is given only if its
  timeout fits below `Horizon`. Pools of 3 in `deferred_order`, where exhaustion of the task
  pool would let a callback overtake those that wait. Message slots are interchangeable, so
  `deferred_core` uses them as a symmetry set.
* `UartRing`: a ring of 3 (2 usable) and a receiver of 2 against 5 bytes: both fill up, the
  indices wrap twice. `MaxBytes` bounds what is sent, so that a draining loop ends, as it does at the
  rate of the line. `uart_image` needs one byte.
* `TrapPath`: 4 tasks (shell, parent, child, one more that is a thread or a process), two
  values of the registers, at most 2 traps nested on one stack (`Depth`), which is a trap
  from U-mode, or of the shell, and one that interrupts its callback. Nothing else is
  unbounded.
* `Boot`: tables of 4 entries, 2 early "GiB" of 16 pages, windows of 4 pages, 5 pages to
  allocate: enough for an address space and its two levels of tables, and too few for most
  sequences of requests. The requests start at the first page, at the last of a table and
  at the last of the "GiB", so that two-page requests cross both levels. Device trees have
  the nodes in four orders, absent, doubled, nested, or under the wrong parent. Archives
  have files of all remainders modulo 4, a decoy behind the trailer, and end at places
  before, in and after each part.
* `Buddy`: 9 pages, so that the last is a block of its own whose buddy lies outside memory,
  blocks of up to 4 pages, pages of 4 bytes in chunks of 2 (two to a page) or 3 (one, with a
  rest), `frame_array` of 2 pages. Four sets of boot regions: ones that leave a block of the
  largest order; ones that share a page, overlap, or lie across or beyond the ends of memory;
  ones that leave odd pieces; ones that leave no room for `frame_array`, so that boot halts.
  Requests for both pools, for one and for two pages, and for the largest block. Memory is
  exhausted on many paths. Nothing is unbounded.

### Fairness

* `Proc` (`FairSpec`): weak fairness of kernel code, which is straight-line between two
  scheduling points, and strong fairness of `Tick`: the comparator is armed for every 1/32 s
  and a tick that arrives in S-mode stays pending until the `sret`. There is no fairness of
  user programs or of the person at the shell: a process may compute for ever and never make a
  call. So `EveryTaskRuns` and `WaitpidReturns` speak of the time while the shell waits for a
  command, for at its prompt it does not yield, and `EveryTaskRuns` of behaviours in which tasks
  are not created for ever (section 3). `WaitpidReturns` needs no such exception: what ends
  the child, in programs that end only their own, gives the hart to the parent or is the parent.
* `Deferred` (`FairSpec`): time passes; trap code, which runs with interrupts disabled,
  continues; a pending interrupt, an interrupted callback and an interrupted command are not
  put off for ever by further interrupts, because devices raise finitely many at a time.
* `UartRing` (`FairSpec`): only the code of readers and of a started handler continues. There
  is no fairness of the interrupt, so `GetcReturns` shows that polling suffices.
* `TrapPath` and `Boot` state no liveness: who runs next is left open in the one, and the
  other is a sequence that ends.
* `Buddy` (`FairSpec`): the turns of a loop that was entered follow each other, for nothing
  else runs. Nobody has to allocate or free.

## 4. Proofs

`ProcProofs` proves, for every number of slots, every finite set of signals, every set of
images, any `Calls`, and any `MaxPid`:

* `TypeCorrect`: `Spec => []TypeOK`,
* `RunQueueCorrect`: `Spec => []RunQueueExact`,
* `NextInv`: the inductive step both rest on.

The only assumption is `ProcAssumption` (at least one slot, signals are positive numbers,
the linked programs are no file). `RunQueueExact` alone is not inductive: `PickNext` returns
a slot only because `cur` is on the ring and everybody on the ring is runnable, and typing
is needed to talk of either. The invariant is `Inv == TypeOK /\ RunQueueExact`. What makes
the proof short is how `OneRing` says that the pointers form one cycle: no non-empty set of
tasks but all of them is closed under `next`. A set of tasks that the pointers do not leave
is therefore everything, which serves as induction along the ring: it shows that what
`runq_add` and `runq_remove` leave is one ring again, that some task points to the removed
one, and that the loop of `runq_remove` ends there and not on coming round to the tail. The
loops are recursive functions, so each proof also exhibits a function that satisfies the
recursion (for `Before`, by the set of tasks whose walk gets to the one looked for). The
argument has three layers:

1. facts about operators: `AddRing`, `BeforeFacts`, `RemoveRing`, `PickNextFacts`,
   `UnlinkedSame` (the links that a reap clears are null already), `ReapFacts`,
   `AllocFacts` (with `LeastNatural` of `NatFacts` for the "first free slot");
2. one lemma per operation of `thread.c`: `ScheduleInv`, `ThreadExitInv`, `TerminateInv`,
   `CreateInv`, `WaitLoopInv`, and `FrameInv` for steps that leave queue and states alone;
3. one step per action in `KernelStepInv`, `UserStepInv`, `ShellStepInv`.

`ProcSafety` builds on it, again for every value of the constants. Two theorems need no
more: `PidsAlwaysUnique` and `SignalsAlwaysKept`. The others hold under the condition that a
violated run of section 3 shows to be necessary:

* `HandlersReturn` (`HandlerContext`) and `StacksAlwaysDisjoint`, if `~HandlerForks`; without
  it the run `proc_handler_fork` has a counterexample;
* `WaitsAlwaysSameTask` and `ParentAlwaysCollects`, if `~EndsOthers`: no process ends a
  task but itself and its children, by `stop` or by the default action of a signal. Without it
  the run `proc_shell_reaps` has a counterexample.

Most of its work is one classification of steps, `Kinds`, proved once (`StepKinds`): a step
changes the states of tasks and perhaps frees zombies (`Lifecycle`), creates a task
(`Creation`), or changes one field of one task, as `kill`, `sigreturn`, exec and a delivery do.
Each invariant is then a matter of a few kinds, not of every action. `ContextsOK` says which
stacks the registers of a process point into and when a context is saved. `WaitsOK` says, for
each place where kernel code waits, what it may watch: `waitpid` children of the caller, the
shell one child of its own, which either is alive or has ended in the very step that gave the
shell the hart. That last clause is why `thread_exit` hands the hart to the parent, and it
is what a `stop` from elsewhere breaks. `Spares` says that the sweep of `kill_zombies` and a
reap free no zombie of another living user process.

`DeferredProofs` proves, for every number of message slots, size of the two pools, length of
a tick, set of delays and depth of nesting, from `DeferredAssumption` alone:

* `TypeCorrect`, `AlwaysArmed` (`EarliestArmed`), `PrioritiesAlwaysNest`: from
  `Inv == TypeOK /\ FrameRules /\ Masking /\ EarliestArmed /\ PrioritiesNest`. `FrameRules` and
  `Masking` say which traps can be under which: only callbacks are interrupted;
* `HigherAlwaysFirst` (`HigherRunsFirst`): from `Preempts`, which says that while a task of higher
  priority than the running one waits, an interrupt that will find it is pending or in progress;
* `SlotsAlwaysOwned` (`SlotsOwned`): from `SlotsInv`, which follows each message slot from the
  shell to the timer list, the task list and the callback that frees it;
* `TimeoutsAlwaysInOrder`: `Spec => PrintsInOrder`, the refinement of `Timeouts`, if `~TaskTests`
  and there are no more message slots than task nodes (the code has 16 and 64).

`Insert`, `InsertPlaces`, `InsertSorted` and `InsertHolds` say what insertion into a sorted list
does, once for both lists.

The refinement maps both lists to one: `Waiting` is the tasks followed by the timers. Handing an
expired timer on must then be a stutter (`DeliverWaits`): the task goes behind all others, and
that needs a node in the pool. `OnlyTimeouts` says that without `tasktest` every task is a timeout
of priority 1 that is due; by `SlotsInv` they are of different slots, and a counting argument
(`RoomForTask`) gives the node. `StartWaits` maps the start of a callback to `Emit`, `AddWaits` an
accepted command to `Accept`, where the sorting of the timers becomes that of the whole list, and
`QuietSteps` the rest to stuttering. The conditions are needed: with `tasktest` a task of higher
priority may be in the list, and an exhausted pool makes a callback overtake those that wait.

`UartProofs` proves, for every `UART_BUF_SIZE` from 1 up, every depth of the receiver and
every set of bytes, and without the bound on what is sent mattering:

* `TypeCorrect`: `Spec => []TypeOK`,
* `RingCorrect`: `Spec => RingIsQueue`, the refinement of `ByteQueue`,
* `BytesAlwaysInPlace`: `Spec => []BytesInPlace`,
* `ImageWithoutCr`: `Spec => []ImageFaithful` if no byte is 0x0d. That condition is what the run
  `uart_image` shows to be necessary.

The assumption is `UartAssumption`. `TypeOK` is not inductive: that `uart_getc` returns a
byte of the line, and not what an unwritten place of `rx_buf` holds, needs `RingTyped`,
which says that the places between `rx_r` and `rx_w` were written, and `Masked`, which says that while a
reader drains the receiver interrupts are off and no handler is in progress. `Wrap` replaces the
modulus (`ModWrap`, `RingIndices`), as the solver does not handle one by a constant of
unknown value; `RingPut`, `RingTake`, `RingFull` and `RingSame` say what a step does to the
queue that the ring stands for, and `NextInv` puts them together action by action.
`BytesInPlace` compares the two ends of the wire; its invariant `Stored` also says where the bytes
between them are: what was taken, the ring and the receiver, one after the other, are what was
sent, and are never longer. Once a byte is lost they stay shorter, for nothing puts one back.

`TrapProofs` proves, for every number of tasks, every set of register
values and every depth of nested traps, if no interrupt hits `return_to_user`:

* `TypeCorrect`, `KernelResumesAlways`, `KernelStackAlwaysReady`, `ExitAlwaysMasked`: the
  invariants of the run `trap`;
* `UserAlwaysInUserCode`: the property that `trap_first_sret` refutes without that condition;
* `RegistersAlwaysKept`: `Spec => RegistersKept`, the refinement of `Contexts`.

The assumptions are `TrapAssumption` and `QuietWindow`. None of the properties is inductive,
because what a task finds when it continues was put in memory long before: `Inv` says what
`context`, `trapframe` and every frame on the stack of the hart contain. It distinguishes
four kinds of place: kernel code outside of traps (`InKernel`), `return_to_user`
(`InReturn`), a program (`InUser`) and a trap (`InTrap`), in which the first frame is that
of a process or of kernel code and the others are those of callbacks (`Frames`). `Others`
says that whoever is alive and does not run has a context: that is why `switch_to` finds
one. The subtle part is `Masked`. An interrupt of kernel code uses the level above the one
where the kernel code is, and a process that waits in a system call keeps its registers in
exactly such a level of its own stack; between the loads of sp and tp in `switch_to` the
two could be the same. They are not, because the kernel outside of callbacks runs with
interrupts enabled only until the first process has trapped: while it does, nobody waits
inside a trap (`NoneDeep`). There is one lemma per action (`SwitchLoadInv`, `SysForkInv`,
...), built on `TrapMoves`, `KernelMoves`, `ReturnMoves`, `SwitchTo` and `ExitSwitch`, which
do what many actions share. For the refinement, `WaitingFrame` shows where the registers of
a process that does not run are; `UserTrapLeaves`, `FirstSretEnters`, `ForkSimulated` and
so on map each action to its step of `Contexts`, and `Hidden` the rest to stuttering.

`BuddyProofs` proves, for every number of pages, highest order, page size, set of pools, set
of regions at boot and set of requests, from `BuddyAssumption` alone:

* `TypeCorrect`, `ListsAlwaysExact` (`ListsExact`): from `BlockInv`;
* `FrameArrayAlwaysApart` (`FrameArrayApart`): from `BlockInv`, as the search of `startup_alloc`
  ends only where no region conflicts;
* `PagesAlwaysOwned` (`PagesOwned`): from `BlockInv /\ RegionsOK`;
* `ChunksAlwaysOnce` (`ChunksOnce`): from `BlockInv /\ ChunksOK`;
* `AllocatorIsHeap`: `Spec => IsHeap`, the refinement of `Heap`, from `BlockInv`, `RegionsOK` and
  `ChunksOK`;
* `NeverFragmented` (`Unfragmented`): from `BlockInv /\ MergedOK`.

`ListsExact` is not inductive: a split writes the metadata of a page it has never looked at,
and a merge that of two blocks, and both would spoil a list if that page began a block of
somebody else. `BlockInv` therefore adds `Tiles(frames, InHand, Divided)`: the live blocks (on
a list, in use, or in the hand of a loop) cover the pages below `Divided` one after the other,
so the second half of a block begins none. `SplitTiles`, `MergeTiles`, `SameTiles` and
`MoreTiles` say what a split, a merge, a change of use and a turn of `Fill` do to the tiling;
`ListAddFacts` and `ListDelFacts` what the list operations do to the sets on the lists;
`HeldOK` and `PoolsOK` that callers and pools hold blocks in use, and each block once.
`RegionsOK` follows `memory_reserve`: of the regions passed, and of the orders passed of the
current one, what is taken lies in a region and nothing else touches it; from there on
the blocks that no caller, pool or loop has are exactly the reserved pages. `PagesOwned`
counts blocks that contain a page; `OneBlock` says that they are one and the same, and
`CountBlocks` turns that into a sum. `ChunksOK` says of the chunks of each pool that the list
has none twice, that what is held is not listed, and that each is one or the other.

For the refinement, `ExtentFacts` turns blocks and chunks into bytes, `HeldApart` and
`HeldOffRegions` give the invariant `AllApart`, and `HeapSimulated` needs it before a step
(what `free` takes back is one extent and no other) and after it (what `allocate` gave out
is apart from the rest). `MergedOK` says that blocks begin at multiples of their size and that
no two buddies are free at once. `memory_reserve` breaks the latter for a time, when it
splits a block: `MergedOK` then says that such a pair touches the region it is about, and
`RegionsOK` that no free block does when it goes on to the next. `RunMerged` concludes: in a run of
free pages take the smallest block; its buddy is in the run too (`Within`), so it is free, and
neither part of a larger block nor split into smaller ones.

`BootProofs` proves, for every number of entries of a table, size of memory and of the mapping
of `setup_vm`, set of device windows and pool of pages, and for all requests:

* `TypeCorrect`: `Spec => []TypeOK`,
* `AddressesAlwaysReach` (`AddressesReach`), for every step from `_start` to the shell,
* `RequestAlwaysPrefix` (`RequestPrefix`),
* `TablesAlwaysMaps`: `Spec => TablesAreMaps`, the refinement of `PageMap`,
* `FilesAlwaysFound` (`FilesFound`), for every archive, wherever it is cut off, and every name,
* `LookupsAlwaysRight` (`LookupsRight`), for every device tree blob.

The assumptions are `VmAssumption`, `BootAssumption`, `FirmwareAssumption` and `RamdiskAssumption`. The second says what the addresses
compiled into the kernel and the firmware's device tree must satisfy: the MMIO windows have page
tables (`early_pte` has four, `setup_vm` asks for three windows); the kernel's text lies in none of
them, the PLIC and the UART named by the tree do (0xe0000000 and 0xd4017000; `vm.c:171-181`); and
users ask for addresses of their half. A device outside the windows would be reached through
an executable superpage, as `claim` is (section 3). `RamdiskAssumption` says that what
the firmware puts where `linux,initrd-start` points is an archive in the newc format
(`Cpio!IsNewc`: each entry begins where the one before it ends, padded), of any number
of entries with any sizes; `initrd_end` may cut it off anywhere. An archive whose headers
contradict each other is not covered. `FirmwareAssumption` says that the firmware passes a blob in
the device tree format (`Fdt!IsBlob`): known tokens, FDT_END at the end and nowhere else, no node
that ends without having begun, and the properties of a node before the nodes in it. `fdt.c`
checks the magic number and relies on the rest.

The invariant is `Inv == EarlyTables /\ Types /\ Trees3 /\ Request /\ Pointers /\ TreeGiven`.
`EarlyTables` gives the content of the early tables for each stage, `Pointers` where each address
in use points, before and after the jump to the higher half. Pages hold tables, and nothing in
the state says which table a page is: `Trees3` does. Kernel halves are those of `early_pgd`
(`KernelShared`); other entries lead to tables of the pool or to pages of it (`EntriesOK`); no
table hangs in two places (`OneParent`), which is why a store in one address space does not show in
another; and leaves are in the third level only (`Levels`), so that `walk_create`, which takes any
valid entry for a table, never follows a leaf. `LinkTrees`, `LeafTrees` and `PgdTrees` say that the
three ways of writing to a table keep it. `WalkEarly`, `KernelWalk` and `UserWalk` evaluate the
hardware's walk, with the arithmetic of the indices in `Compose` and `PageIndices`. For the refinement
`MapIn` describes the map of each address space: linking an empty table adds nothing to it, writing
a leaf adds one page that was not there.

The three readers of `Cpio` are recursive functions on the places of the archive. A function
defined by recursion is known to satisfy its equation only once some function is shown to:
`ScanDefined` does so for every loop that either stops or goes on at a later place before a
bound, and `FindLoop`, `CatLoop` and `ListLoop` apply it, since `NextOff` is positive and no
header lies behind the last (`EntrySizes`, `PlaceBehind`). `ScanReaches` and `ScanEnds` then
evaluate them: a loop that goes on at every entry before the j-th returns what it returns there. All
inductions are on a smallest counterexample (`LeastNatural`). `FindFound` and `FindFinds` say
of `initrd_find_file` that what it finds is a match with nothing but passed entries before it,
and the converse; `DataApart` that the place of the data tells which entry it belongs to.
The invariant `RamdiskInv` adds to `FilesFound` that nothing is answered before the shell runs and
that the archive does not change afterwards.

The two loops of `Fdt` have several variables, so `LoopDefined` does the same for a loop on any
set of values that get further in the blob; `PathLoop` and `PropLoop` apply it. `Around(fdt, i)` are
the nodes open after the i-th token; `DepthSteps`, `OpenStep` and `OpenAtDepth` say how it changes
with each token and that it has a node at every depth. `fdt_path_offset` keeps no such set. What it
knows of it is `Knows`: among the open nodes, as many as it has matched fit their segment of the
path, and the one below them, if any, does not. `MatchFits`, `UnmatchFits` and `OthersKeep` show
that each kind of token keeps this (the decrement at the end of a node is essential:
`MutUnmatch` breaks it), and `NamedIsMatched` that a node where everything is matched is
one that the path names and conversely. `PathRightHere` and `PropRightHere` then go backwards
through the blob: from every place that satisfies the invariant the loop finds the first of what is
behind it. That a property of the node itself comes before those of nodes inside it
(`OwnFound`) needs the order that the format prescribes: `OwnBeforeInner` takes the last end before a
property, behind which a node would have begun.

Only model-checked: all liveness properties (liveness under fairness is out of the prover's
reach).

## 5. What is not modelled

The components with status `not_modelled` in `PROJECT.json`: the string helpers, the SBI
wrappers and the display (straight-line code without state of their own); the first runner
of user programs, which nothing calls any more; the exercise templates and the snapshots of
labs 1 to 4, which later ones supersede; `bird.h` is an image. Within modelled components:
exit statuses and what is printed, the unit conversions of `timer_get_time_us`, line editing
in the shell, the transmit side of the UART, the contents of programs, `t0`.

## 6. Plan

Done: `Proc`, `Deferred`, `UartRing`, `Buddy`, `TrapPath`, `Vm`, `Fdt`, `Cpio` and `Boot`;
proofs of every safety property and every refinement the runs check. Nothing of the first
plan is left. A next step would be the components that are `partly` modelled, above all the
text input of the shell and the transmit side of the UART once the kernel uses it.
