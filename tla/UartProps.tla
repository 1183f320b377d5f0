----------------------------- MODULE UartProps -----------------------------
(***************************************************************************)
(* What the receive side of the UART must guarantee.                       *)
(***************************************************************************)
EXTENDS UartRing

\* Every variable keeps its type; the indices stay in rx_buf.
TypeOK ==
  /\ fifo \in Seq(Bytes) /\ Len(fifo) <= FifoDepth
  /\ buf \in [Indices -> Bytes \cup {Nul}] /\ r \in Indices /\ w \in Indices
  /\ overflow \in Nat /\ sie \in BOOLEAN
  /\ reader \in Reader /\ isr \in Isr
  /\ sent \in Seq(Bytes) /\ taken \in Seq(Bytes)

\* The bytes between rx_r and rx_w.
InRing ==
  [i \in 1 .. (w - r + UartBufSize) % UartBufSize |-> buf[(r + i - 1) % UartBufSize]]

\* The byte an activation of uart_handle_irq has read from the receiver and not yet
\* stored.
Held(a) == IF a.at = "store" THEN <<a.c>> ELSE <<>>

\* The bytes received and not yet in the ring.  A handler that interrupts a reader
\* reads later bytes than the reader.
Line == Held(reader) \o Held(isr) \o fifo

\* The ring, filled by the interrupt handler and by the readers and emptied by
\* both kinds of reader, is a queue of UART_BUF_SIZE - 1 bytes: no byte is read
\* twice or out of order, none is overwritten, and rx_overflow counts the others.
Promised ==
  INSTANCE ByteQueue WITH
    Capacity <- UartBufSize - 1, line <- Line, queue <- InRing, dropped <- overflow
RingIsQueue == Promised!Spec

\* uart.c:252: uart_getc returns although no interrupt comes, as soon as a byte is
\* in the ring or on its way there.
GetcReturns ==
  reader.call = "getc" /\ (r # w \/ Line # <<>>) ~> reader.call = "none"

NothingLost == Len(taken) + Len(InRing) + Len(Line) = Len(sent)

\* uart.c:256, uart.c:150: a reader that drains the receiver itself and the interrupt
\* handler never work on the ring at the same time.  As long as no byte was lost in
\* the receiver or for want of room, the readers have taken from the ring what the
\* host sent, each byte at its place.
BytesInPlace == NothingLost => \A i \in 1 .. Len(taken) : taken[i] = sent[i]

\* lab2/notes.md:2: the bootloader receives the kernel image from the host over the
\* UART and loads it.  As long as no byte was lost, what load_image_and_boot has
\* stored is the image the host sent.
ImageFaithful == NothingLost => \A i \in 1 .. Len(Image) : Image[i] = sent[i]
=============================================================================
