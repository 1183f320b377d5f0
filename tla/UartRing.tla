------------------------------ MODULE UartRing ------------------------------
(***************************************************************************)
(* The receive side of uart.c in interrupt mode: the ring rx_buf between   *)
(* the interrupt handler and the readers, uart_getc of the shell and of    *)
(* the image loader and uart_try_getc of the system call uart_read, which  *)
(* drain the receiver themselves when no interrupt does.                   *)
(*                                                                         *)
(* What keeps the handler out of a reader is sstatus.SIE alone, and it is  *)
(* modelled: uart_handle_irq called by a reader clears it first, and an    *)
(* interrupt may come between any two steps of a reader that leave it set. *)
(* The readers' own critical section, which takes one byte, is one action. *)
(***************************************************************************)
EXTENDS Integers, Sequences

CONSTANTS
  Bytes,       \* the bytes a sender uses
  Calls,       \* the calls the readers make: "getc", "try" or both
  UartBufSize, \* UART_BUF_SIZE
  FifoDepth,   \* bytes the hardware receiver holds
  MaxBytes     \* bound on the number of bytes sent

Nul == "nul"

ASSUME UartAssumption ==
  /\ UartBufSize \in Nat \ {0} /\ FifoDepth \in Nat \ {0} /\ MaxBytes \in Nat
  /\ Calls \subseteq {"getc", "try"} /\ Nul \notin Bytes

VARIABLES
  fifo,      \* the bytes in the receiver, in the order of uart_rbr reads
  buf,       \* rx_buf
  r, w,      \* rx_r, rx_w
  overflow,  \* rx_overflow
  sie,       \* sstatus.SIE
  reader,    \* the read in progress and how far it is
  isr,       \* the interrupt handler: whether it runs and how far it is
  sent,      \* history: the bytes sent over the wire
  taken      \* history: the bytes read from the ring

vars == <<fifo, buf, r, w, overflow, sie, reader, isr, sent, taken>>

Indices == 0 .. UartBufSize - 1

\* Mutant: the index does not wrap.
MutNextIdx(i) == i + 1

NextIdx(i) == (i + 1) % UartBufSize

\* c is the byte that uart_handle_irq has read and not stored yet, s the SIE that
\* local_irq_restore or sret will put back.
Reader ==
  [call : {"none", "getc", "try"},
   at : {"check", "poll", "lock", "drain", "store", "again"},
   s : BOOLEAN, c : Bytes \cup {Nul}]

Isr == [at : {"off", "drain", "store"}, s : BOOLEAN, c : Bytes \cup {Nul}]

NoReader == [call |-> "none", at |-> "check", s |-> FALSE, c |-> Nul]
NoIsr == [at |-> "off", s |-> FALSE, c |-> Nul]

\* The state uart_enable_interrupt leaves, nothing received yet.
Init ==
  /\ fifo = <<>>
  /\ buf = [i \in Indices |-> Nul]
  /\ r = 0 /\ w = 0 /\ overflow = 0
  /\ sie \in BOOLEAN /\ reader = NoReader /\ isr = NoIsr
  /\ sent = <<>> /\ taken = <<>>

(***************************************************************************)
(* The hardware.                                                           *)
(***************************************************************************)
\* A byte that finds the receiver full is lost without a trace.
Arrive ==
  /\ Len(sent) < MaxBytes
  /\ \E b \in Bytes :
       /\ sent' = Append(sent, b)
       /\ fifo' = IF Len(fifo) < FifoDepth THEN Append(fifo, b) ELSE fifo
  /\ UNCHANGED <<buf, r, w, overflow, sie, reader, isr, taken>>

\* LSR_DR.
DataReady == fifo # <<>>

\* A process in U-mode is interrupted whatever SIE says, kernel code only if it is
\* set.  The trap clears it and its sret restores it.
Interrupt ==
  /\ isr.at = "off" /\ DataReady
  /\ reader.call = "none" \/ sie
  /\ isr' = [at |-> "drain", s |-> sie, c |-> Nul]
  /\ sie' = FALSE
  /\ UNCHANGED <<fifo, buf, r, w, overflow, reader, sent, taken>>

IsrReturn ==
  /\ isr.at = "drain" /\ ~DataReady
  /\ isr' = NoIsr
  /\ sie' = isr.s
  /\ UNCHANGED <<fifo, buf, r, w, overflow, reader, sent, taken>>

(***************************************************************************)
(* uart_handle_irq, called by the trap handler or by a reader.             *)
(***************************************************************************)
Reads(at) == isr.at = "off" /\ reader.call # "none" /\ reader.at = at

\* The loop finds LSR_DR set and reads uart_rbr.
Fetch ==
  /\ DataReady
  /\ \/ /\ isr.at = "drain"
        /\ isr' = [isr EXCEPT !.at = "store", !.c = Head(fifo)]
        /\ UNCHANGED reader
     \/ /\ Reads("drain")
        /\ reader' = [reader EXCEPT !.at = "store", !.c = Head(fifo)]
        /\ UNCHANGED isr
  /\ fifo' = Tail(fifo)
  /\ UNCHANGED <<buf, r, w, overflow, sie, sent, taken>>

\* Mutant: the ring is declared full one byte too late.
MutHasRoom == TRUE

HasRoom == NextIdx(w) # r

\* The byte goes into the ring, or is dropped and counted.
PutByte(c) ==
  IF HasRoom
  THEN buf' = [buf EXCEPT ![w] = c] /\ w' = NextIdx(w) /\ UNCHANGED overflow
  ELSE overflow' = overflow + 1 /\ UNCHANGED <<buf, w>>

Store ==
  /\ \/ /\ isr.at = "store"
        /\ PutByte(isr.c)
        /\ isr' = [isr EXCEPT !.at = "drain", !.c = Nul]
        /\ UNCHANGED reader
     \/ /\ Reads("store")
        /\ PutByte(reader.c)
        /\ reader' = [reader EXCEPT !.at = "drain", !.c = Nul]
        /\ UNCHANGED isr
  /\ UNCHANGED <<fifo, r, sie, sent, taken>>

(***************************************************************************)
(* uart_getc and uart_try_getc.                                            *)
(***************************************************************************)
Become(at) == reader' = [reader EXCEPT !.at = at]
Done == reader' = NoReader

\* switch_to leaves SIE as the task before had it: uart_getc, and after a schedule()
\* in sys_uart_read uart_try_getc too, may find it set or not.
Call ==
  /\ isr.at = "off" /\ reader.call = "none"
  /\ \E call \in Calls : reader' = [reader EXCEPT !.call = call]
  /\ sie' \in BOOLEAN
  /\ UNCHANGED <<fifo, buf, r, w, overflow, isr, sent, taken>>

\* The critical section that takes a byte; without one, uart_try_getc gives up
\* after its second look.
Check ==
  /\ Reads("check") \/ Reads("again")
  /\ IF r # w
     THEN /\ taken' = Append(taken, buf[r])
          /\ r' = NextIdx(r)
          /\ Done
     ELSE /\ IF reader.at = "again" THEN Done ELSE Become("poll")
          /\ UNCHANGED <<taken, r>>
  /\ UNCHANGED <<fifo, buf, w, overflow, sie, isr, sent>>

\* Mutant: no look at the receiver.
MutPoll ==
  /\ Reads("poll")
  /\ IF reader.call = "getc" THEN Become("check") ELSE Done
  /\ UNCHANGED <<fifo, buf, r, w, overflow, sie, isr, sent, taken>>

\* The look at LSR_DR, outside any critical section.
Poll ==
  /\ Reads("poll")
  /\ IF DataReady THEN Become("lock")
     ELSE IF reader.call = "getc" THEN Become("check") ELSE Done
  /\ UNCHANGED <<fifo, buf, r, w, overflow, sie, isr, sent, taken>>

\* Mutant: uart_handle_irq leaves interrupts as they are.
MutLock ==
  /\ Reads("lock")
  /\ reader' = [reader EXCEPT !.at = "drain", !.s = sie]
  /\ UNCHANGED <<fifo, buf, r, w, overflow, sie, isr, sent, taken>>

\* local_irq_save of the reader's own call of uart_handle_irq; the handler may have
\* emptied the receiver since the look.
Lock ==
  /\ Reads("lock")
  /\ reader' = [reader EXCEPT !.at = "drain", !.s = sie]
  /\ sie' = FALSE
  /\ UNCHANGED <<fifo, buf, r, w, overflow, isr, sent, taken>>

\* The loop is over: local_irq_restore.
Drained ==
  /\ Reads("drain") /\ ~DataReady
  /\ Become(IF reader.call = "getc" THEN "check" ELSE "again")
  /\ sie' = reader.s
  /\ UNCHANGED <<fifo, buf, r, w, overflow, isr, sent, taken>>

Next ==
  Arrive \/ Interrupt \/ IsrReturn \/ Fetch \/ Store
         \/ Call \/ Check \/ Poll \/ Lock \/ Drained

Spec == Init /\ [][Next]_vars

\* The code runs on; interrupts may come late or not at all.
FairSpec == Spec /\ WF_vars(IsrReturn \/ Fetch \/ Store \/ Check \/ Poll \/ Lock \/ Drained)

(***************************************************************************)
(* load_image_and_boot stores what uart_getc returns: '\r' becomes '\n'.   *)
(***************************************************************************)
Cooked(b) == IF b = "cr" THEN "lf" ELSE b
Image == [i \in 1 .. Len(taken) |-> Cooked(taken[i])]
=============================================================================
