----------------------------- MODULE UartProofs -----------------------------
(***************************************************************************)
(* Proofs about UartRing, for every size of rx_buf, depth of the receiver  *)
(* and set of bytes: the indices stay in the ring, only one activation of  *)
(* uart_handle_irq works on it at a time, and so the ring is a bounded     *)
(* queue however its readers and the interrupt handler interleave.         *)
(***************************************************************************)
EXTENDS UartProps, SequenceTheorems, TLAPS

(***************************************************************************)
(* The index arithmetic without the modulus.                               *)
(***************************************************************************)
\* The index x steps past the start of rx_buf, for x less than twice its size.
Wrap(x) == IF x < UartBufSize THEN x ELSE x - UartBufSize

\* Indices are below twice the size of the ring, so % is one subtraction.
LEMMA ModWrap ==
  ASSUME NEW x \in 0 .. 2 * UartBufSize - 1
  PROVE  x % UartBufSize = Wrap(x)
<1> USE UartAssumption DEF Wrap
<1>1. CASE x < UartBufSize
  <2>1. x % UartBufSize = x
    BY <1>1
  <2> QED BY <1>1, <2>1
<1>2. CASE x >= UartBufSize
  <2>1. x = UartBufSize * 1 + (x - UartBufSize)
    OBVIOUS
  <2>2. (x - UartBufSize) \in 0 .. UartBufSize - 1
    BY <1>2
  <2>3. x % UartBufSize = x - UartBufSize
    BY <2>1, <2>2
  <2> QED BY <1>2, <2>3
<1> QED BY <1>1, <1>2

\* How many bytes are in the ring.
Count == Wrap(w - r + UartBufSize)
Slot(i) == Wrap(r + i - 1)

\* The modulus in InRing and NextIdx, for any two places a and b in rx_buf.
LEMMA RingIndices ==
  ASSUME NEW a \in Indices, NEW b \in Indices
  PROVE  /\ (b - a + UartBufSize) % UartBufSize = Wrap(b - a + UartBufSize)
         /\ Wrap(b - a + UartBufSize) \in 0 .. UartBufSize - 1
         /\ \A i \in 1 .. Wrap(b - a + UartBufSize) :
              (a + i - 1) % UartBufSize = Wrap(a + i - 1) /\ Wrap(a + i - 1) \in Indices
         /\ NextIdx(a) = Wrap(a + 1) /\ NextIdx(a) \in Indices
<1> USE UartAssumption
<1>1. Wrap(b - a + UartBufSize) \in 0 .. UartBufSize - 1
  BY DEF Wrap, Indices
<1>2. (b - a + UartBufSize) % UartBufSize = Wrap(b - a + UartBufSize)
  BY ModWrap DEF Indices
<1>3. ASSUME NEW x \in 0 .. 2 * UartBufSize - 1
      PROVE  x % UartBufSize = Wrap(x) /\ Wrap(x) \in Indices
  BY ModWrap DEF Wrap, Indices
<1>4. ASSUME NEW i \in 1 .. Wrap(b - a + UartBufSize)
      PROVE  a + i - 1 \in 0 .. 2 * UartBufSize - 1
  BY <1>1 DEF Indices
<1>5. a + 1 \in 0 .. 2 * UartBufSize - 1
  BY DEF Indices
<1> QED BY <1>1, <1>2, <1>3, <1>4, <1>5 DEF NextIdx

\* InRing without the modulus.
LEMMA RingShape ==
  ASSUME r \in Indices, w \in Indices
  PROVE  /\ Count \in 0 .. UartBufSize - 1
         /\ InRing = [i \in 1 .. Count |-> buf[Slot(i)]]
         /\ \A i \in 1 .. Count : Slot(i) \in Indices
BY RingIndices DEF InRing, Count, Slot

\* The same for the next state.
LEMMA RingShapeNext ==
  ASSUME r' \in Indices, w' \in Indices
  PROVE  InRing' = [i \in 1 .. Count' |-> buf'[Slot(i)']]
BY RingIndices DEF InRing, Count, Slot

\* The bytes in the ring are bytes from the line.
RingTyped == \A i \in 1 .. Count : buf[Slot(i)] \in Bytes

\* A reader that is in uart_handle_irq runs with interrupts off and alone, and an
\* activation that has read a byte holds it.
Masked ==
  /\ reader.call = "none" => reader.at = "check"
  /\ reader.at \in {"drain", "store"} => ~sie /\ isr.at = "off"
  /\ reader.at = "store" => reader.c \in Bytes
  /\ isr.at = "store" => isr.c \in Bytes

\* The inductive invariant: typing alone does not tell that what uart_getc takes
\* was ever written, nor that the handler keeps out of a reader's drain.
Inv == TypeOK /\ RingTyped /\ Masked

\* The ring holds a sequence of bytes.
LEMMA RingSeq ==
  ASSUME Inv
  PROVE  InRing \in Seq(Bytes) /\ Len(InRing) = Count
<1>1. r \in Indices /\ w \in Indices
  BY DEF Inv, TypeOK
<1>2. Count \in Nat /\ InRing = [i \in 1 .. Count |-> buf[Slot(i)]]
  BY <1>1, RingShape, UartAssumption
<1> QED BY <1>2 DEF Inv, RingTyped

(***************************************************************************)
(* What a step does to the ring.                                           *)
(***************************************************************************)
\* A step that leaves rx_buf and the indices alone leaves the ring alone.
LEMMA RingSame ==
  ASSUME Inv, UNCHANGED <<buf, r, w>>
  PROVE  InRing' = InRing /\ RingTyped'
BY DEF Inv, InRing, RingTyped, Count, Slot, Wrap

\* Writing at rx_w when there is room puts the byte at the end of the ring.
LEMMA RingPut ==
  ASSUME Inv, NEW b \in Bytes, HasRoom,
         buf' = [buf EXCEPT ![w] = b], w' = NextIdx(w), r' = r
  PROVE  /\ Len(InRing) < UartBufSize - 1
         /\ InRing' = Append(InRing, b)
         /\ RingTyped' /\ w' \in Indices /\ buf' \in [Indices -> Bytes \cup {Nul}]
<1> USE UartAssumption
<1>1. /\ r \in Indices /\ w \in Indices /\ buf \in [Indices -> Bytes \cup {Nul}]
      /\ NextIdx(w) = Wrap(w + 1) /\ w' \in Indices
  BY RingIndices DEF Inv, TypeOK
<1>2. Count \in 0 .. UartBufSize - 2 /\ Count' = Count + 1
  BY <1>1 DEF HasRoom, Count, Wrap, Indices
<1>3. InRing' = [i \in 1 .. Count' |-> buf'[Slot(i)']]
  BY <1>1, RingShapeNext
<1>4. \A i \in 1 .. Count + 1 : Slot(i)' = Slot(i)
  BY DEF Slot
<1>5. Slot(Count + 1) = w /\ \A i \in 1 .. Count : Slot(i) \in Indices /\ Slot(i) # w
  BY <1>1, <1>2 DEF Slot, Wrap, Count, Indices
<1>6. \A i \in 1 .. Count : buf'[Slot(i)] = buf[Slot(i)]
  BY <1>1, <1>5
<1>7. buf'[Slot(Count + 1)] = b
  BY <1>1, <1>5
<1>8. RingTyped'
  <2>1. ASSUME NEW i \in 1 .. Count + 1 PROVE buf'[Slot(i)] \in Bytes
    <3>1. CASE i = Count + 1
      BY <1>7, <3>1
    <3>2. CASE i \in 1 .. Count
      BY <1>6, <3>2 DEF Inv, RingTyped
    <3> QED BY <1>2, <3>1, <3>2
  <2> QED BY <1>2, <1>4, <2>1 DEF RingTyped
<1>9. InRing' = Append(InRing, b)
  <2>1. InRing = [i \in 1 .. Count |-> buf[Slot(i)]] /\ Len(InRing) = Count
    BY <1>1, RingShape, RingSeq
  <2>2. InRing' = [i \in 1 .. Count + 1 |-> buf'[Slot(i)]]
    BY <1>2, <1>3, <1>4
  <2>3. Append(InRing, b) = [i \in 1 .. Count + 1 |-> IF i = Count + 1 THEN b ELSE InRing[i]]
    BY <1>2, <2>1, RingSeq
  <2>4. ASSUME NEW i \in 1 .. Count + 1
        PROVE  buf'[Slot(i)] = IF i = Count + 1 THEN b ELSE InRing[i]
    <3>1. CASE i = Count + 1
      BY <1>7, <3>1
    <3>2. CASE i \in 1 .. Count
      BY <1>2, <1>6, <2>1, <3>2
    <3> QED BY <1>2, <3>1, <3>2
  <2> QED BY <2>2, <2>3, <2>4
<1> QED BY <1>1, <1>2, <1>8, <1>9, RingSeq

\* The ring is declared full when one place is left.
LEMMA RingFull ==
  ASSUME r \in Indices, w \in Indices, ~HasRoom
  PROVE  Count = UartBufSize - 1
<1>1. NextIdx(w) = Wrap(w + 1)
  BY RingIndices
<1> QED BY <1>1, UartAssumption DEF HasRoom, Count, Wrap, Indices

\* Reading at rx_r when the ring is not empty takes its first byte.
LEMMA RingTake ==
  ASSUME Inv, r # w, r' = NextIdx(r), UNCHANGED <<buf, w>>
  PROVE  /\ InRing # <<>> /\ Head(InRing) = buf[r] /\ buf[r] \in Bytes
         /\ InRing' = Tail(InRing)
         /\ RingTyped' /\ r' \in Indices
<1> USE UartAssumption
<1>1. /\ r \in Indices /\ w \in Indices
      /\ NextIdx(r) = Wrap(r + 1) /\ r' \in Indices
  BY RingIndices DEF Inv, TypeOK
<1>2. Count \in 1 .. UartBufSize - 1 /\ Count' = Count - 1
  BY <1>1 DEF Count, Wrap, Indices
<1>3. InRing' = [i \in 1 .. Count' |-> buf'[Slot(i)']]
  BY <1>1, RingShapeNext
<1>4. ASSUME NEW i \in 1 .. Count - 1 PROVE Slot(i)' = Slot(i + 1)
  BY <1>1, <1>2 DEF Slot, Wrap, Count, Indices
<1>5. Slot(1) = r
  BY <1>1 DEF Slot, Wrap, Indices
<1>6. InRing = [i \in 1 .. Count |-> buf[Slot(i)]] /\ Len(InRing) = Count /\ InRing \in Seq(Bytes)
  BY <1>1, RingShape, RingSeq
<1>7. InRing # <<>> /\ Head(InRing) = buf[r] /\ buf[r] \in Bytes
  BY <1>2, <1>5, <1>6 DEF Inv, RingTyped
<1>8. RingTyped'
  <2>1. \A i \in 1 .. Count - 1 : buf[Slot(i + 1)] \in Bytes
    BY <1>2 DEF Inv, RingTyped
  <2> QED BY <1>2, <1>4, <2>1 DEF RingTyped
<1>9. InRing' = Tail(InRing)
  <2>1. InRing' = [i \in 1 .. Count - 1 |-> InRing[i + 1]]
    BY <1>2, <1>3, <1>4, <1>6
  <2>2. /\ Tail(InRing) \in Seq(Bytes) /\ Len(Tail(InRing)) = Count - 1
        /\ \A i \in 1 .. Count - 1 : Tail(InRing)[i] = InRing[i + 1]
    BY <1>6, <1>7, HeadTailProperties
  <2>3. InRing' \in Seq(Bytes) /\ Len(InRing') = Count - 1
    <3>1. \A i \in 1 .. Count - 1 : InRing[i + 1] \in Bytes
      BY <1>2, <1>6
    <3> QED BY <1>2, <2>1, <3>1
  <2> QED BY <2>1, <2>2, <2>3, SeqEqual
<1> QED BY <1>1, <1>7, <1>8, <1>9

(***************************************************************************)
(* The bytes on their way into the ring.                                   *)
(***************************************************************************)
LineOf(x, y, f) == Held(x) \o Held(y) \o f

\* At most one activation of uart_handle_irq holds a byte.
LEMMA LineCases ==
  ASSUME NEW x, NEW y, NEW f \in Seq(Bytes)
  PROVE  /\ x.at # "store" /\ y.at # "store" => LineOf(x, y, f) = f
         /\ x.at = "store" /\ y.at # "store" /\ x.c \in Bytes => LineOf(x, y, f) = <<x.c>> \o f
         /\ x.at # "store" /\ y.at = "store" /\ y.c \in Bytes => LineOf(x, y, f) = <<y.c>> \o f
<1>1. ASSUME NEW s \in Seq(Bytes) PROVE s \o <<>> = s /\ <<>> \o s = s
  BY ConcatEmptySeq
<1>2. <<>> \in Seq(Bytes)
  OBVIOUS
<1>3. CASE x.at # "store" /\ y.at # "store"
  <2>1. Held(x) = <<>> /\ Held(y) = <<>>
    BY <1>3 DEF Held
  <2> QED BY <1>1, <1>2, <1>3, <2>1 DEF LineOf
<1>4. CASE x.at = "store" /\ y.at # "store" /\ x.c \in Bytes
  <2>1. Held(x) = <<x.c>> /\ Held(y) = <<>> /\ <<x.c>> \in Seq(Bytes)
    BY <1>4 DEF Held
  <2> QED BY <1>1, <1>4, <2>1 DEF LineOf
<1>5. CASE x.at # "store" /\ y.at = "store" /\ y.c \in Bytes
  <2>1. Held(x) = <<>> /\ Held(y) = <<y.c>> /\ <<y.c>> \in Seq(Bytes)
    BY <1>5 DEF Held
  <2> QED BY <1>1, <1>5, <2>1 DEF LineOf
<1> QED BY <1>3, <1>4, <1>5

\* A byte in front of those in the receiver.
LEMMA HeldFirst ==
  ASSUME NEW c \in Bytes, NEW f \in Seq(Bytes)
  PROVE  /\ <<c>> \o f \in Seq(Bytes) /\ <<c>> \o f # <<>>
         /\ Head(<<c>> \o f) = c /\ Tail(<<c>> \o f) = f
         /\ \A b \in Bytes : Append(<<c>> \o f, b) = <<c>> \o Append(f, b)
<1> DEFINE g == <<c>> \o f
<1>1. /\ g \in Seq(Bytes) /\ Len(g) = Len(f) + 1 /\ g[1] = c
      /\ \A i \in 1 .. Len(f) : g[i + 1] = f[i]
  <2>1. <<c>> \in Seq(Bytes) /\ Len(<<c>>) = 1 /\ <<c>>[1] = c
    OBVIOUS
  <2>2. /\ g \in Seq(Bytes) /\ Len(g) = 1 + Len(f)
        /\ \A i \in 1 .. 1 + Len(f) : g[i] = IF i <= 1 THEN <<c>>[i] ELSE f[i - 1]
    BY <2>1, ConcatProperties
  <2>3. Len(f) \in Nat
    OBVIOUS
  <2> HIDE DEF g
  <2>4. ASSUME NEW i \in 1 .. Len(f) PROVE g[i + 1] = f[i]
    <3>1. i + 1 \in 1 .. 1 + Len(f) /\ ~(i + 1 <= 1) /\ (i + 1) - 1 = i
      BY <2>3
    <3> QED BY <2>2, <3>1
  <2> QED BY <2>1, <2>2, <2>3, <2>4
<1>2. Len(f) \in Nat
  OBVIOUS
<1> HIDE DEF g
<1>3. g # <<>> /\ Head(g) = c
  BY <1>1, <1>2
<1>4. Tail(g) = f
  <2>1. /\ Tail(g) \in Seq(Bytes) /\ Len(Tail(g)) = Len(f)
        /\ \A i \in 1 .. Len(f) : Tail(g)[i] = g[i + 1]
    BY <1>1, <1>2, <1>3, HeadTailProperties
  <2> QED BY <1>1, <2>1, SeqEqual
<1>5. ASSUME NEW b \in Bytes PROVE Append(g, b) = <<c>> \o Append(f, b)
  <2>1. <<c>> \in Seq(Bytes) /\ <<b>> \in Seq(Bytes) /\ Append(f, b) = f \o <<b>>
    BY AppendIsConcat
  <2>2. Append(g, b) = g \o <<b>>
    BY <1>1, AppendIsConcat
  <2>3. (<<c>> \o f) \o <<b>> = <<c>> \o (f \o <<b>>)
    BY <2>1, ConcatAssociative
  <2> QED BY <2>1, <2>2, <2>3 DEF g
<1> QED BY <1>1, <1>3, <1>4, <1>5 DEF g

\* What LineCases says of the state.
LEMMA LineNow ==
  ASSUME Inv
  PROVE  /\ fifo \in Seq(Bytes) /\ Line \in Seq(Bytes)
         /\ reader.at # "store" /\ isr.at # "store" => Line = fifo
         /\ reader.at = "store" =>
              isr.at = "off" /\ reader.c \in Bytes /\ Line = <<reader.c>> \o fifo
         /\ isr.at = "store" =>
              reader.at # "store" /\ isr.c \in Bytes /\ Line = <<isr.c>> \o fifo
<1>1. fifo \in Seq(Bytes) /\ Line = LineOf(reader, isr, fifo)
  BY DEF Inv, TypeOK, Line, LineOf
<1>2. /\ reader.at = "store" => isr.at = "off" /\ reader.c \in Bytes
      /\ isr.at = "store" => reader.at # "store" /\ isr.c \in Bytes
  BY DEF Inv, Masked
<1>3. /\ reader.at # "store" /\ isr.at # "store" => Line = fifo
      /\ reader.at = "store" => Line = <<reader.c>> \o fifo
      /\ isr.at = "store" => Line = <<isr.c>> \o fifo
  BY <1>1, <1>2, LineCases
<1> QED BY <1>1, <1>2, <1>3, HeldFirst

\* A byte comes to the receiver, behind the one that is held.
LEMMA LineArrive ==
  ASSUME Inv, NEW b \in Bytes, fifo' = Append(fifo, b), UNCHANGED <<reader, isr>>
  PROVE  Line' = Append(Line, b)
<1>1. Append(fifo, b) \in Seq(Bytes) /\ Line' = LineOf(reader, isr, Append(fifo, b))
  BY LineNow DEF Line, LineOf
<1>2. CASE reader.at # "store" /\ isr.at # "store"
  BY <1>1, <1>2, LineNow, LineCases
<1>3. ASSUME NEW c \in Bytes PROVE <<c>> \o Append(fifo, b) = Append(<<c>> \o fifo, b)
  BY LineNow, HeldFirst
<1>4. CASE reader.at = "store"
  <2>1. isr.at = "off" /\ reader.c \in Bytes /\ Line = <<reader.c>> \o fifo
    BY <1>4, LineNow
  <2>2. Line' = <<reader.c>> \o Append(fifo, b)
    BY <1>1, <1>4, <2>1, LineCases
  <2> QED BY <1>3, <2>1, <2>2
<1>5. CASE isr.at = "store"
  <2>1. reader.at # "store" /\ isr.c \in Bytes /\ Line = <<isr.c>> \o fifo
    BY <1>5, LineNow
  <2>2. Line' = <<isr.c>> \o Append(fifo, b)
    BY <1>1, <1>5, <2>1, LineCases
  <2> QED BY <1>3, <2>1, <2>2
<1> QED BY <1>2, <1>4, <1>5

\* The loop reads the first byte of the receiver: the line stays as it is.
LEMMA LineFetch ==
  ASSUME Inv, Fetch
  PROVE  Line' = Line /\ Masked' /\ reader' \in Reader /\ isr' \in Isr /\ fifo' \in Seq(Bytes)
<1>1. /\ fifo # <<>> /\ fifo' = Tail(fifo) /\ fifo \in Seq(Bytes)
      /\ UNCHANGED sie
  BY LineNow DEF Fetch, DataReady
<1>2. Head(fifo) \in Bytes /\ Tail(fifo) \in Seq(Bytes)
  BY <1>1, HeadTailProperties
<1>3. <<Head(fifo)>> \o Tail(fifo) = fifo
  <2> DEFINE b == Head(fifo)
             g == Tail(fifo)
             p == <<b>> \o g
  <2>1. /\ p \in Seq(Bytes) /\ p # <<>> /\ Head(p) = b /\ Tail(p) = g
    BY <1>2, HeldFirst
  <2> HIDE DEF p
  <2>2. Len(p) = Len(fifo) /\ \A i \in 1 .. Len(p) : p[i] = fifo[i]
    <3> HIDE DEF g, b
    <3>1. /\ Len(g) = Len(p) - 1 /\ \A i \in 1 .. Len(p) - 1 : g[i] = p[i + 1]
          /\ p[1] = b /\ Len(p) \in Nat
      BY <2>1, HeadTailProperties
    <3>2. /\ Len(g) = Len(fifo) - 1 /\ \A i \in 1 .. Len(fifo) - 1 : g[i] = fifo[i + 1]
          /\ fifo[1] = b /\ Len(fifo) \in Nat
      BY <1>1, HeadTailProperties DEF g, b
    <3>3. Len(p) = Len(fifo)
      BY <3>1, <3>2
    <3>4. ASSUME NEW i \in 1 .. Len(p) PROVE p[i] = fifo[i]
      <4>1. CASE i = 1
        BY <3>1, <3>2, <4>1
      <4>2. CASE i # 1
        <5>1. i - 1 \in 1 .. Len(p) - 1 /\ (i - 1) + 1 = i
          BY <3>1, <4>2
        <5> QED BY <3>1, <3>2, <3>3, <5>1
      <4> QED BY <4>1, <4>2
    <3> QED BY <3>3, <3>4
  <2> QED BY <1>1, <2>1, <2>2, SeqEqual DEF p
<1>4. CASE isr.at = "drain"
  <2>1. UNCHANGED reader /\ isr' = [isr EXCEPT !.at = "store", !.c = Head(fifo)]
    BY <1>4 DEF Fetch, Reads
  <2>2. reader.at \notin {"drain", "store"}
    BY <1>4 DEF Inv, Masked
  <2>3. isr'.at = "store" /\ isr'.c = Head(fifo) /\ isr' \in Isr
    BY <1>2, <2>1 DEF Inv, TypeOK, Isr
  <2>4. Line = fifo /\ Line' = LineOf(reader', isr', fifo')
    BY <1>4, <2>2, LineNow DEF Line, LineOf
  <2>5. Line' = <<Head(fifo)>> \o Tail(fifo)
    <3>1. reader'.at # "store"
      BY <2>1, <2>2
    <3>2. LineOf(reader', isr', Tail(fifo)) = <<isr'.c>> \o Tail(fifo)
      BY <1>2, <2>3, <3>1, LineCases
    <3> QED BY <1>1, <2>3, <2>4, <3>2
  <2>6. Masked'
    BY <1>1, <1>2, <2>1, <2>2, <2>3 DEF Inv, Masked
  <2> QED BY <1>1, <1>2, <1>3, <2>1, <2>3, <2>4, <2>5, <2>6 DEF Inv, TypeOK
<1>5. CASE isr.at # "drain"
  <2>1. /\ Reads("drain") /\ UNCHANGED isr
        /\ reader' = [reader EXCEPT !.at = "store", !.c = Head(fifo)]
    BY <1>5 DEF Fetch
  <2>2. isr.at = "off" /\ reader.at = "drain" /\ reader.call # "none" /\ ~sie
    BY <2>1 DEF Reads, Inv, Masked
  <2>3. /\ reader'.at = "store" /\ reader'.c = Head(fifo) /\ reader' \in Reader
        /\ reader'.call # "none"
    BY <1>2, <2>1, <2>2 DEF Inv, TypeOK, Reader
  <2>4. Line = fifo /\ Line' = LineOf(reader', isr', fifo')
    BY <2>2, LineNow DEF Line, LineOf
  <2>5. Line' = <<Head(fifo)>> \o Tail(fifo)
    <3>1. isr'.at # "store"
      BY <2>1, <2>2
    <3>2. LineOf(reader', isr', Tail(fifo)) = <<reader'.c>> \o Tail(fifo)
      BY <1>2, <2>3, <3>1, LineCases
    <3> QED BY <1>1, <2>3, <2>4, <3>2
  <2>6. Masked'
    BY <1>1, <1>2, <2>1, <2>2, <2>3 DEF Masked
  <2> QED BY <1>1, <1>2, <1>3, <2>1, <2>3, <2>4, <2>5, <2>6 DEF Inv, TypeOK
<1> QED BY <1>4, <1>5

\* The loop stores the byte it holds, the first of the line.
LEMMA LineStore ==
  ASSUME Inv, Store
  PROVE  /\ Line # <<>> /\ Head(Line) \in Bytes /\ Line' = Tail(Line) /\ PutByte(Head(Line))
         /\ Masked' /\ reader' \in Reader /\ isr' \in Isr
<1>1. UNCHANGED <<fifo, sie>> /\ fifo \in Seq(Bytes)
  BY LineNow DEF Store
<1>2. CASE isr.at = "store"
  <2>1. /\ UNCHANGED reader /\ isr' = [isr EXCEPT !.at = "drain", !.c = Nul] /\ PutByte(isr.c)
    BY <1>2 DEF Store, Reads
  <2>2. /\ reader.at \notin {"drain", "store"} /\ isr.c \in Bytes
        /\ Line = <<isr.c>> \o fifo
    BY <1>2, LineNow DEF Inv, Masked
  <2>3. isr'.at = "drain" /\ isr' \in Isr
    BY <2>1 DEF Inv, TypeOK, Isr
  <2>4. Line' = fifo
    <3>1. Line' = LineOf(reader, isr', fifo)
      BY <1>1, <2>1 DEF Line, LineOf
    <3> QED BY <1>1, <2>2, <2>3, <3>1, LineCases
  <2>5. Line # <<>> /\ Head(Line) = isr.c /\ Tail(Line) = fifo
    BY <1>1, <2>2, HeldFirst
  <2>6. Masked'
    BY <1>1, <2>1, <2>2, <2>3 DEF Inv, Masked
  <2> QED BY <2>1, <2>2, <2>3, <2>4, <2>5, <2>6 DEF Inv, TypeOK
<1>3. CASE isr.at # "store"
  <2>1. /\ Reads("store") /\ UNCHANGED isr /\ PutByte(reader.c)
        /\ reader' = [reader EXCEPT !.at = "drain", !.c = Nul]
    BY <1>3 DEF Store
  <2>2. /\ isr.at = "off" /\ reader.at = "store" /\ reader.call # "none" /\ ~sie
        /\ reader.c \in Bytes /\ Line = <<reader.c>> \o fifo
    BY <2>1, LineNow DEF Reads, Inv, Masked
  <2>3. reader'.at = "drain" /\ reader'.call # "none" /\ reader' \in Reader
    BY <2>1, <2>2 DEF Inv, TypeOK, Reader
  <2>4. Line' = fifo
    <3>1. Line' = LineOf(reader', isr, fifo)
      BY <1>1, <2>1 DEF Line, LineOf
    <3> QED BY <1>1, <2>2, <2>3, <3>1, LineCases
  <2>5. Line # <<>> /\ Head(Line) = reader.c /\ Tail(Line) = fifo
    BY <1>1, <2>2, HeldFirst
  <2>6. Masked'
    BY <1>1, <2>1, <2>2, <2>3 DEF Masked
  <2> QED BY <2>1, <2>2, <2>3, <2>4, <2>5, <2>6 DEF Inv, TypeOK
<1> QED BY <1>2, <1>3

LEMMA NoReaderIdle ==
  NoReader \in Reader /\ NoReader.call = "none" /\ NoReader.at = "check"
BY DEF NoReader, Reader

\* The steps that leave the bytes where they are.
Control == Interrupt \/ IsrReturn \/ Call \/ Poll \/ Lock \/ Drained

\* The variables of the bytes.
Ring == <<fifo, buf, r, w, overflow, sent, taken>>

\* A step of control comes to no byte, and keeps handler and reader apart.
LEMMA ControlMasked ==
  ASSUME Inv, Control \/ UNCHANGED vars
  PROVE  /\ UNCHANGED Ring /\ Line' = Line
         /\ Masked' /\ sie' \in BOOLEAN /\ reader' \in Reader /\ isr' \in Isr
<1>1. UNCHANGED Ring
  BY DEF Control, Interrupt, IsrReturn, Call, Poll, Lock, Drained, vars, Ring
<1>2. reader \in Reader /\ isr \in Isr /\ sie \in BOOLEAN
  BY DEF Inv, TypeOK
<1>3. Masked
  BY DEF Inv
<1>4. CASE Interrupt
  <2>1. /\ isr.at = "off" /\ (reader.call = "none" \/ sie) /\ UNCHANGED reader /\ ~sie'
        /\ isr'.at = "drain" /\ isr' \in Isr /\ sie' \in BOOLEAN
    BY <1>2, <1>4 DEF Interrupt, Isr
  <2>2. reader.at \notin {"drain", "store"}
    BY <1>3, <2>1 DEF Masked
  <2>3. Held(isr') = Held(isr) /\ Held(reader') = Held(reader)
    BY <2>1 DEF Held
  <2>4. Line' = Line
    BY <1>1, <2>3 DEF Line, Ring, Held
  <2> QED BY <1>1, <1>2, <1>3, <2>1, <2>2, <2>4 DEF Masked
<1>5. CASE IsrReturn
  <2>1. /\ isr.at = "drain" /\ UNCHANGED reader /\ sie' = isr.s /\ isr' = NoIsr
    BY <1>5 DEF IsrReturn
  <2>2. isr'.at = "off" /\ isr' \in Isr /\ sie' \in BOOLEAN
    BY <1>2, <2>1 DEF NoIsr, Isr
  <2>3. reader.at \notin {"drain", "store"}
    BY <1>3, <2>1 DEF Masked
  <2>4. Line' = Line
    BY <1>1, <2>1, <2>2 DEF Line, Ring, Held
  <2> QED BY <1>1, <1>2, <1>3, <2>1, <2>2, <2>3, <2>4 DEF Masked
<1>6. CASE Call
  <2>1. /\ isr.at = "off" /\ reader.call = "none" /\ UNCHANGED isr /\ sie' \in BOOLEAN
    BY <1>6 DEF Call
  <2>2. PICK call \in Calls : reader' = [reader EXCEPT !.call = call]
    BY <1>6 DEF Call
  <2>3. reader.at = "check" /\ call \in {"getc", "try"}
    BY <1>3, <2>1, <2>2, UartAssumption DEF Masked
  <2>4. reader'.at = "check" /\ reader'.call = call /\ reader' \in Reader
    BY <1>2, <2>2, <2>3 DEF Reader
  <2>5. Line' = Line
    BY <1>1, <2>1, <2>3, <2>4 DEF Line, Ring, Held
  <2> QED BY <1>1, <1>2, <1>3, <2>1, <2>4, <2>5 DEF Masked
<1>7. CASE Poll
  <2>1. /\ isr.at = "off" /\ reader.at = "poll" /\ reader.call # "none" /\ UNCHANGED <<sie, isr>>
    BY <1>7 DEF Poll, Reads
  <2>2. \/ /\ reader'.at \in {"lock", "check"} /\ reader'.call = reader.call
           /\ reader' \in Reader
        \/ reader' = NoReader
    BY <1>2, <1>7 DEF Poll, Become, Done, Reader
  <2>3. /\ reader'.at \in {"lock", "check"} /\ reader' \in Reader
        /\ reader'.call = "none" => reader'.at = "check"
    BY <2>1, <2>2, NoReaderIdle
  <2>4. Line' = Line
    BY <1>1, <2>1, <2>3 DEF Line, Ring, Held
  <2> QED BY <1>1, <1>2, <1>3, <2>1, <2>3, <2>4 DEF Masked
<1>8. CASE Lock
  <2>1. /\ isr.at = "off" /\ reader.at = "lock" /\ reader.call # "none" /\ UNCHANGED isr
        /\ ~sie' /\ sie' \in BOOLEAN /\ reader' = [reader EXCEPT !.at = "drain", !.s = sie]
    BY <1>8 DEF Lock, Reads
  <2>2. reader'.at = "drain" /\ reader'.call # "none" /\ reader' \in Reader
    BY <1>2, <2>1 DEF Reader
  <2>3. Line' = Line
    BY <1>1, <2>1, <2>2 DEF Line, Ring, Held
  <2> QED BY <1>1, <1>2, <1>3, <2>1, <2>2, <2>3 DEF Masked
<1>9. CASE Drained
  <2>1. /\ isr.at = "off" /\ reader.at = "drain" /\ reader.call # "none" /\ UNCHANGED isr
        /\ sie' = reader.s
    BY <1>9 DEF Drained, Reads
  <2>2. reader'.at \in {"check", "again"} /\ reader'.call # "none" /\ reader' \in Reader
    BY <1>2, <1>9, <2>1 DEF Drained, Become, Reader
  <2>3. sie' \in BOOLEAN
    BY <1>2, <2>1 DEF Reader
  <2>4. Line' = Line
    BY <1>1, <2>1, <2>2 DEF Line, Ring, Held
  <2> QED BY <1>1, <1>2, <1>3, <2>1, <2>2, <2>3, <2>4 DEF Masked
<1>10. CASE UNCHANGED vars
  BY <1>1, <1>2, <1>3, <1>10 DEF vars, Line, Held, Masked
<1> QED BY <1>4, <1>5, <1>6, <1>7, <1>8, <1>9, <1>10 DEF Control

(***************************************************************************)
(* The invariant.                                                          *)
(***************************************************************************)
LEMMA InitInv == Init => Inv
<1> SUFFICES ASSUME Init PROVE Inv
  OBVIOUS
<1>1. TypeOK
  BY UartAssumption DEF Init, TypeOK, Indices, Reader, Isr, NoReader, NoIsr
<1>2. Count = 0
  BY UartAssumption DEF Init, Count, Wrap
<1>3. Masked
  BY DEF Init, Masked, NoReader, NoIsr
<1> QED BY <1>1, <1>2, <1>3 DEF Inv, RingTyped

\* The step of Check that takes no byte.
LEMMA CheckMasked ==
  ASSUME Inv, Check
  PROVE  Masked' /\ reader' \in Reader /\ Line' = Line
<1>1. /\ isr.at = "off" /\ reader.at \in {"check", "again"} /\ reader.call # "none"
      /\ UNCHANGED <<fifo, sie, isr>>
  BY DEF Check, Reads
<1>2. /\ reader'.at \in {"check", "poll"} /\ reader' \in Reader
      /\ reader'.call = "none" => reader'.at = "check"
  <2>1. \/ reader' = NoReader
        \/ reader' = [reader EXCEPT !.at = "poll"]
    BY DEF Check, Become, Done
  <2>2. CASE reader' = NoReader
    BY <2>2, NoReaderIdle
  <2>3. CASE reader' = [reader EXCEPT !.at = "poll"]
    <3>1. reader'.at = "poll" /\ reader'.call = reader.call /\ reader' \in Reader
      BY <2>3 DEF Reader, Inv, TypeOK
    <3> QED BY <1>1, <3>1
  <2> QED BY <2>1, <2>2, <2>3
<1>3. Line' = Line
  BY <1>1, <1>2 DEF Line, Held
<1> QED BY <1>1, <1>2, <1>3 DEF Inv, Masked

LEMMA EmptyLine == ASSUME Init PROVE Line = <<>>
<1>1. Line = LineOf(reader, isr, <<>>) /\ <<>> \in Seq(Bytes)
  BY DEF Init, Line, LineOf
<1>2. reader.at # "store" /\ isr.at # "store"
  BY DEF Init, NoReader, NoIsr
<1> QED BY <1>1, <1>2, LineCases

\* Each step keeps the invariant and is a step of ByteQueue or a stutter.
LEMMA NextInv == ASSUME Inv, [Next]_vars PROVE Inv' /\ [Promised!Next]_(Promised!vars)
<1> USE UartAssumption
<1>1. CASE Arrive
  <2>1. PICK b \in Bytes :
          /\ sent' = Append(sent, b)
          /\ fifo' = IF Len(fifo) < FifoDepth THEN Append(fifo, b) ELSE fifo
    BY <1>1 DEF Arrive
  <2>2. UNCHANGED <<buf, r, w, overflow, sie, reader, isr, taken>>
    BY <1>1 DEF Arrive
  <2>3. InRing' = InRing /\ RingTyped'
    BY <2>2, RingSame
  <2>4. TypeOK' /\ Masked'
    BY <2>1, <2>2 DEF Inv, TypeOK, Masked
  <2>5. [Promised!Next]_(Promised!vars)
    <3>1. CASE Len(fifo) < FifoDepth
      <4>1. Line' = Append(Line, b)
        BY <2>1, <2>2, <3>1, LineArrive
      <4> QED BY <2>2, <2>3, <4>1 DEF Promised!Next, Promised!Arrive
    <3>2. CASE ~(Len(fifo) < FifoDepth)
      <4>1. Line' = Line
        BY <2>1, <2>2, <3>2 DEF Line, Held
      <4> QED BY <2>2, <2>3, <4>1 DEF Promised!vars
    <3> QED BY <3>1, <3>2
  <2> QED BY <2>3, <2>4, <2>5 DEF Inv
<1>2. CASE Fetch
  <2>1. UNCHANGED <<buf, r, w, overflow, sie, sent, taken>> /\ fifo' = Tail(fifo) /\ fifo # <<>>
    BY <1>2 DEF Fetch, DataReady
  <2>2. /\ Line' = Line /\ Masked' /\ reader' \in Reader /\ isr' \in Isr
        /\ fifo' \in Seq(Bytes)
    BY <1>2, LineFetch
  <2>3. Len(fifo') <= FifoDepth
    <3>1. fifo \in Seq(Bytes) /\ Len(fifo) <= FifoDepth
      BY DEF Inv, TypeOK
    <3>2. Len(Tail(fifo)) = Len(fifo) - 1 /\ Len(fifo) \in Nat
      BY <2>1, <3>1, HeadTailProperties
    <3> QED BY <2>1, <3>1, <3>2
  <2>4. InRing' = InRing /\ RingTyped'
    BY <2>1, RingSame
  <2>5. TypeOK'
    BY <2>1, <2>2, <2>3 DEF Inv, TypeOK
  <2>6. UNCHANGED Promised!vars
    BY <2>1, <2>2, <2>4 DEF Promised!vars
  <2> QED BY <2>2, <2>4, <2>5, <2>6 DEF Inv
<1>3. CASE Store
  <2>1. UNCHANGED <<fifo, r, sie, sent, taken>>
    BY <1>3 DEF Store
  <2>2. /\ Line # <<>> /\ Head(Line) \in Bytes /\ Line' = Tail(Line) /\ PutByte(Head(Line))
        /\ Masked' /\ reader' \in Reader /\ isr' \in Isr
    BY <1>3, LineStore
  <2>3. CASE HasRoom
    <3>1. buf' = [buf EXCEPT ![w] = Head(Line)] /\ w' = NextIdx(w) /\ overflow' = overflow
      BY <2>2, <2>3 DEF PutByte
    <3>2. /\ Len(InRing) < UartBufSize - 1 /\ InRing' = Append(InRing, Head(Line))
          /\ RingTyped' /\ w' \in Indices /\ buf' \in [Indices -> Bytes \cup {Nul}]
      BY <2>1, <2>2, <2>3, <3>1, RingPut
    <3>3. TypeOK'
      BY <2>1, <2>2, <3>1, <3>2 DEF Inv, TypeOK
    <3>4. Promised!Accept
      BY <2>1, <2>2, <3>1, <3>2 DEF Promised!Accept
    <3> QED BY <2>2, <3>2, <3>3, <3>4 DEF Inv, Promised!Next
  <2>4. CASE ~HasRoom
    <3>1. overflow' = overflow + 1 /\ UNCHANGED <<buf, w>>
      BY <2>2, <2>4 DEF PutByte
    <3>2. InRing' = InRing /\ RingTyped'
      BY <2>1, <3>1, RingSame
    <3>3. TypeOK'
      BY <2>1, <2>2, <3>1 DEF Inv, TypeOK
    <3>4. Len(InRing) = UartBufSize - 1
      BY <2>4, RingSeq, RingFull DEF Inv, TypeOK
    <3>5. Promised!Drop
      BY <2>1, <2>2, <3>1, <3>2, <3>4 DEF Promised!Drop
    <3> QED BY <2>2, <3>2, <3>3, <3>5 DEF Inv, Promised!Next
  <2> QED BY <2>3, <2>4
<1>4. CASE Check
  <2>1. UNCHANGED <<fifo, buf, w, overflow, sie, isr, sent>>
    BY <1>4 DEF Check
  <2>2. Masked' /\ reader' \in Reader /\ Line' = Line
    BY <1>4, CheckMasked
  <2>3. CASE r # w
    <3>1. taken' = Append(taken, buf[r]) /\ r' = NextIdx(r)
      BY <1>4, <2>3 DEF Check
    <3>2. /\ InRing # <<>> /\ Head(InRing) = buf[r] /\ buf[r] \in Bytes
          /\ InRing' = Tail(InRing) /\ RingTyped' /\ r' \in Indices
      BY <2>1, <2>3, <3>1, RingTake
    <3>3. TypeOK'
      BY <2>1, <2>2, <3>1, <3>2 DEF Inv, TypeOK
    <3>4. Promised!Take
      BY <2>1, <2>2, <3>1, <3>2 DEF Promised!Take
    <3> QED BY <2>2, <3>2, <3>3, <3>4 DEF Inv, Promised!Next
  <2>4. CASE r = w
    <3>1. UNCHANGED <<r, taken>>
      BY <1>4, <2>4 DEF Check
    <3>2. InRing' = InRing /\ RingTyped'
      BY <2>1, <3>1, RingSame
    <3>3. TypeOK'
      BY <2>1, <2>2, <3>1 DEF Inv, TypeOK
    <3>4. UNCHANGED Promised!vars
      BY <2>1, <2>2, <3>1, <3>2 DEF Promised!vars
    <3> QED BY <2>2, <3>2, <3>3, <3>4 DEF Inv
  <2> QED BY <2>3, <2>4
<1>5. CASE Control \/ UNCHANGED vars
  <2>1. /\ UNCHANGED Ring /\ Line' = Line
        /\ Masked' /\ sie' \in BOOLEAN /\ reader' \in Reader /\ isr' \in Isr
    BY <1>5, ControlMasked
  <2>2. InRing' = InRing /\ RingTyped'
    BY <2>1, RingSame DEF Ring
  <2>3. TypeOK'
    BY <2>1 DEF Inv, TypeOK, Ring
  <2>4. UNCHANGED Promised!vars
    BY <2>1, <2>2 DEF Ring, Promised!vars
  <2> QED BY <2>1, <2>2, <2>3, <2>4 DEF Inv
<1> QED BY <1>1, <1>2, <1>3, <1>4, <1>5 DEF Next, Control

(***************************************************************************)
(* The theorems.                                                           *)
(***************************************************************************)
LEMMA Invariance == Spec => []Inv
<1> QED BY InitInv, NextInv, PTL DEF Spec

\* uart.c:36, uart.c:86: rx_r and rx_w stay inside rx_buf, whatever UART_BUF_SIZE,
\* and every variable keeps its type.
THEOREM TypeCorrect == Spec => []TypeOK
<1>1. Inv => TypeOK
  BY DEF Inv
<1> QED BY <1>1, Invariance, PTL

\* uart.c:149, uart.c:172, uart.c:232: for every UART_BUF_SIZE the ring implements a
\* queue of UART_BUF_SIZE - 1 bytes with a count of those dropped.
THEOREM RingCorrect == Spec => RingIsQueue
<1>1. Init => Promised!Init
  <2> SUFFICES ASSUME Init PROVE Promised!Init
    OBVIOUS
  <2>1. r \in Indices /\ w \in Indices /\ Count = 0
    BY UartAssumption DEF Init, Count, Wrap, Indices
  <2>2. InRing = <<>>
    BY <2>1, RingShape
  <2>3. Line = <<>>
    BY EmptyLine
  <2> QED BY <2>2, <2>3 DEF Init, Promised!Init
<1>2. Inv /\ [Next]_vars => [Promised!Next]_(Promised!vars)
  BY NextInv
<1> QED BY <1>1, <1>2, Invariance, PTL DEF Spec, RingIsQueue, Promised!Spec

(***************************************************************************)
(* What the loader stores.                                                 *)
(***************************************************************************)
\* As long as no byte is missing, the bytes taken, in the ring and in the receiver
\* are, one after the other, the bytes sent.
Placed(s, t, q, f) ==
  /\ Len(t) + Len(q) + Len(f) <= Len(s)
  /\ Len(t) + Len(q) + Len(f) = Len(s) =>
       /\ \A i \in 1 .. Len(t) : s[i] = t[i]
       /\ \A i \in 1 .. Len(q) : s[Len(t) + i] = q[i]
       /\ \A i \in 1 .. Len(f) : s[Len(t) + Len(q) + i] = f[i]

\* A byte comes to the receiver, or is lost there.
LEMMA PlacedArrive ==
  ASSUME NEW s \in Seq(Bytes), NEW t \in Seq(Bytes), NEW q \in Seq(Bytes),
         NEW f \in Seq(Bytes), NEW b \in Bytes, Placed(s, t, q, f)
  PROVE  Placed(Append(s, b), t, q, Append(f, b)) /\ Placed(Append(s, b), t, q, f)
<1>1. /\ Len(Append(s, b)) = Len(s) + 1 /\ Len(Append(f, b)) = Len(f) + 1
      /\ Append(s, b)[Len(s) + 1] = b /\ Append(f, b)[Len(f) + 1] = b
      /\ \A i \in 1 .. Len(s) : Append(s, b)[i] = s[i]
      /\ \A i \in 1 .. Len(f) : Append(f, b)[i] = f[i]
  OBVIOUS
<1>2. Len(s) \in Nat /\ Len(t) \in Nat /\ Len(q) \in Nat /\ Len(f) \in Nat
  OBVIOUS
<1> DEFINE u == Append(s, b)
           g == Append(f, b)
<1> HIDE DEF u, g
<1>3. Placed(u, t, q, f)
  BY <1>1, <1>2 DEF Placed, u, g
<1>4. Placed(u, t, q, g)
  <2>1. /\ Len(u) = Len(s) + 1 /\ Len(g) = Len(f) + 1
        /\ u[Len(s) + 1] = b /\ g[Len(f) + 1] = b
        /\ \A i \in 1 .. Len(s) : u[i] = s[i]
        /\ \A i \in 1 .. Len(f) : g[i] = f[i]
    BY <1>1 DEF u, g
  <2>2. SUFFICES ASSUME Len(t) + Len(q) + Len(f) = Len(s)
                 PROVE  /\ \A i \in 1 .. Len(t) : u[i] = t[i]
                        /\ \A i \in 1 .. Len(q) : u[Len(t) + i] = q[i]
                        /\ \A i \in 1 .. Len(g) : u[Len(t) + Len(q) + i] = g[i]
    <3>1. /\ Len(t) + Len(q) + Len(g) <= Len(u)
          /\ Len(t) + Len(q) + Len(g) = Len(u) => Len(t) + Len(q) + Len(f) = Len(s)
      BY <2>1, <1>2 DEF Placed
    <3> QED BY <3>1 DEF Placed
  <2>3. /\ \A i \in 1 .. Len(t) : i \in 1 .. Len(s) /\ s[i] = t[i]
        /\ \A i \in 1 .. Len(q) : Len(t) + i \in 1 .. Len(s) /\ s[Len(t) + i] = q[i]
        /\ \A i \in 1 .. Len(f) : /\ Len(t) + Len(q) + i \in 1 .. Len(s)
                                  /\ s[Len(t) + Len(q) + i] = f[i]
    BY <2>2, <1>2 DEF Placed
  <2>4. ASSUME NEW i \in 1 .. Len(f) + 1 PROVE u[Len(t) + Len(q) + i] = g[i]
    <3>1. CASE i = Len(f) + 1
      <4>1. Len(t) + Len(q) + i = Len(s) + 1
        BY <3>1, <2>2, <1>2
      <4> QED BY <3>1, <4>1, <2>1
    <3>2. CASE i \in 1 .. Len(f)
      BY <3>2, <2>1, <2>3
    <3> QED BY <3>1, <3>2, <1>2
  <2> QED BY <2>1, <2>3, <2>4
<1> QED BY <1>3, <1>4 DEF u, g

\* A byte goes from the receiver into the ring, or is dropped.
LEMMA PlacedMove ==
  ASSUME NEW s \in Seq(Bytes), NEW t \in Seq(Bytes), NEW q \in Seq(Bytes),
         NEW f \in Seq(Bytes), f # <<>>, Placed(s, t, q, f)
  PROVE  Placed(s, t, Append(q, Head(f)), Tail(f)) /\ Placed(s, t, q, Tail(f))
<1> DEFINE b == Head(f)
           g == Tail(f)
           p == Append(q, b)
<1>1. /\ b = f[1] /\ Len(f) >= 1 /\ Len(g) = Len(f) - 1
      /\ \A i \in 1 .. Len(f) - 1 : g[i] = f[i + 1]
  BY HeadTailProperties
<1>2. /\ Len(p) = Len(q) + 1 /\ p[Len(q) + 1] = b
      /\ \A i \in 1 .. Len(q) : p[i] = q[i]
  BY <1>1
<1>3. Len(s) \in Nat /\ Len(t) \in Nat /\ Len(q) \in Nat /\ Len(f) \in Nat
  OBVIOUS
<1> HIDE DEF b, g, p
<1>4. Placed(s, t, q, g)
  BY <1>1, <1>3 DEF Placed
<1>5. Placed(s, t, p, g)
  <2>1. Len(t) + Len(p) + Len(g) = Len(t) + Len(q) + Len(f)
    BY <1>1, <1>2, <1>3
  <2>2. SUFFICES ASSUME Len(t) + Len(q) + Len(f) = Len(s)
                 PROVE  /\ \A i \in 1 .. Len(t) : s[i] = t[i]
                        /\ \A i \in 1 .. Len(p) : s[Len(t) + i] = p[i]
                        /\ \A i \in 1 .. Len(g) : s[Len(t) + Len(p) + i] = g[i]
    BY <2>1 DEF Placed
  <2>3. s[Len(t) + Len(q) + 1] = b
    <3>1. 1 \in 1 .. Len(f)
      BY <1>1, <1>3
    <3> QED BY <3>1, <2>2, <1>1 DEF Placed
  <2>4. ASSUME NEW i \in 1 .. Len(p) PROVE s[Len(t) + i] = p[i]
    <3>1. CASE i = Len(q) + 1
      <4>1. Len(t) + i = Len(t) + Len(q) + 1
        BY <3>1, <1>3
      <4> QED BY <3>1, <4>1, <2>3, <1>2
    <3>2. CASE i \in 1 .. Len(q)
      BY <3>2, <2>2, <1>2 DEF Placed
    <3>3. i = Len(q) + 1 \/ i \in 1 .. Len(q)
      BY <1>2, <1>3
    <3> QED BY <3>1, <3>2, <3>3
  <2>5. ASSUME NEW i \in 1 .. Len(g) PROVE s[Len(t) + Len(p) + i] = g[i]
    <3>1. i + 1 \in 1 .. Len(f) /\ Len(t) + Len(p) + i = Len(t) + Len(q) + (i + 1)
      BY <1>1, <1>2, <1>3
    <3> QED BY <3>1, <2>2, <1>1 DEF Placed
  <2> QED BY <2>2, <2>4, <2>5 DEF Placed
<1> QED BY <1>4, <1>5 DEF b, g, p

\* A byte is taken from the ring.
LEMMA PlacedTake ==
  ASSUME NEW s \in Seq(Bytes), NEW t \in Seq(Bytes), NEW q \in Seq(Bytes),
         NEW f \in Seq(Bytes), q # <<>>, Placed(s, t, q, f)
  PROVE  Placed(s, Append(t, Head(q)), Tail(q), f)
<1> DEFINE b == Head(q)
           g == Tail(q)
           p == Append(t, b)
<1>1. /\ b = q[1] /\ Len(q) >= 1 /\ Len(g) = Len(q) - 1
      /\ \A i \in 1 .. Len(q) - 1 : g[i] = q[i + 1]
  BY HeadTailProperties
<1>2. /\ Len(p) = Len(t) + 1 /\ p[Len(t) + 1] = b
      /\ \A i \in 1 .. Len(t) : p[i] = t[i]
  BY <1>1
<1>3. Len(s) \in Nat /\ Len(t) \in Nat /\ Len(q) \in Nat /\ Len(f) \in Nat
  OBVIOUS
<1> HIDE DEF b, g, p
<1>4. Len(p) + Len(g) = Len(t) + Len(q)
  BY <1>1, <1>2, <1>3
<1>5. SUFFICES ASSUME Len(t) + Len(q) + Len(f) = Len(s)
               PROVE  /\ \A i \in 1 .. Len(p) : s[i] = p[i]
                      /\ \A i \in 1 .. Len(g) : s[Len(p) + i] = g[i]
                      /\ \A i \in 1 .. Len(f) : s[Len(p) + Len(g) + i] = f[i]
  BY <1>4 DEF Placed, b, g, p
<1>6. s[Len(t) + 1] = b
  BY <1>5, <1>1, <1>3 DEF Placed
<1>7. ASSUME NEW i \in 1 .. Len(p) PROVE s[i] = p[i]
  <2>1. CASE i = Len(t) + 1
    BY <2>1, <1>6, <1>2, <1>3
  <2>2. CASE i \in 1 .. Len(t)
    BY <2>2, <1>5, <1>2 DEF Placed
  <2> QED BY <2>1, <2>2, <1>2, <1>3
<1>8. ASSUME NEW i \in 1 .. Len(g) PROVE s[Len(p) + i] = g[i]
  <2>1. i + 1 \in 1 .. Len(q) /\ Len(p) + i = Len(t) + (i + 1)
    BY <1>1, <1>2, <1>3
  <2> QED BY <2>1, <1>5, <1>1 DEF Placed
<1>9. \A i \in 1 .. Len(f) : s[Len(p) + Len(g) + i] = f[i]
  BY <1>4, <1>5 DEF Placed
<1> QED BY <1>7, <1>8, <1>9

\* The invariant of the histories: a byte can only get lost for good.
Stored == Placed(sent, taken, InRing, Line)

\* Each step keeps the bytes in their places.
LEMMA StoredStep == ASSUME Inv, Stored, [Next]_vars PROVE Stored'
<1>1. /\ sent \in Seq(Bytes) /\ taken \in Seq(Bytes) /\ Line \in Seq(Bytes)
      /\ InRing \in Seq(Bytes)
  BY RingSeq, LineNow DEF Inv, TypeOK
<1>2. CASE Arrive
  <2>1. PICK b \in Bytes :
          /\ sent' = Append(sent, b)
          /\ fifo' = IF Len(fifo) < FifoDepth THEN Append(fifo, b) ELSE fifo
    BY <1>2 DEF Arrive
  <2>2. taken' = taken /\ InRing' = InRing /\ UNCHANGED <<reader, isr>>
    BY <1>2, RingSame DEF Arrive
  <2>3. Line' = Append(Line, b) \/ Line' = Line
    <3>1. CASE Len(fifo) < FifoDepth
      BY <2>1, <2>2, <3>1, LineArrive
    <3>2. CASE ~(Len(fifo) < FifoDepth)
      BY <2>1, <2>2, <3>2 DEF Line, Held
    <3> QED BY <3>1, <3>2
  <2> QED BY <1>1, <2>1, <2>2, <2>3, PlacedArrive DEF Stored
<1>3. CASE Fetch
  <2>1. UNCHANGED <<buf, r, w, sent, taken>>
    BY <1>3 DEF Fetch
  <2>2. Line' = Line /\ InRing' = InRing
    BY <1>3, <2>1, LineFetch, RingSame
  <2> QED BY <2>1, <2>2 DEF Stored
<1>4. CASE Store
  <2>1. UNCHANGED <<r, sent, taken>>
    BY <1>4 DEF Store
  <2>2. Line # <<>> /\ Head(Line) \in Bytes /\ Line' = Tail(Line) /\ PutByte(Head(Line))
    BY <1>4, LineStore
  <2>3. InRing' = Append(InRing, Head(Line)) \/ InRing' = InRing
    <3>1. CASE HasRoom
      BY <2>1, <2>2, <3>1, RingPut DEF PutByte
    <3>2. CASE ~HasRoom
      BY <2>1, <2>2, <3>2, RingSame DEF PutByte
    <3> QED BY <3>1, <3>2
  <2> QED BY <1>1, <2>1, <2>2, <2>3, PlacedMove DEF Stored
<1>5. CASE Check
  <2>1. UNCHANGED <<fifo, buf, w, sent>> /\ Line' = Line
    BY <1>5, CheckMasked DEF Check
  <2>2. CASE r # w
    <3>1. taken' = Append(taken, buf[r]) /\ r' = NextIdx(r)
      BY <1>5, <2>2 DEF Check
    <3>2. InRing # <<>> /\ Head(InRing) = buf[r] /\ InRing' = Tail(InRing)
      BY <2>1, <2>2, <3>1, RingTake
    <3> QED BY <1>1, <2>1, <3>1, <3>2, PlacedTake DEF Stored
  <2>3. CASE r = w
    BY <1>5, <2>1, <2>3, RingSame DEF Check, Stored
  <2> QED BY <2>2, <2>3
<1>6. CASE Control \/ UNCHANGED vars
  BY <1>6, ControlMasked, RingSame DEF Ring, Stored
<1> QED BY <1>2, <1>3, <1>4, <1>5, <1>6 DEF Next, Control

LEMMA StoredAlways == Spec => []Stored
<1>1. Init => Stored
  <2> SUFFICES ASSUME Init PROVE Stored
    OBVIOUS
  <2>1. r \in Indices /\ w \in Indices /\ Count = 0
    BY UartAssumption DEF Init, Count, Wrap, Indices
  <2>2. InRing = <<>>
    BY <2>1, RingShape
  <2>3. Line = <<>>
    BY EmptyLine
  <2> QED BY <2>2, <2>3 DEF Init, Stored, Placed
<1>2. Inv /\ Stored /\ [Next]_vars => Stored'
  BY StoredStep
<1> QED BY <1>1, <1>2, Invariance, PTL DEF Spec

\* uart.c:150, uart.c:256: for every UART_BUF_SIZE and depth of the receiver, as long
\* as no byte was lost the readers have taken from the ring what was sent, each byte
\* at its place, however they and the interrupt handler take turns.
THEOREM BytesAlwaysInPlace == Spec => []BytesInPlace
<1>1. Stored => BytesInPlace
  BY DEF Stored, Placed, BytesInPlace, NothingLost
<1> QED BY <1>1, StoredAlways, PTL

\* lab2/notes.md:2, loader.c:41: an image without the byte '\r' is stored as it was
\* sent, as long as no byte was lost.  Of any other image that is false: uart_getc
\* turns the byte into '\n'.
THEOREM ImageWithoutCr == ASSUME "cr" \notin Bytes PROVE Spec => []ImageFaithful
<1>1. Inv /\ Stored => ImageFaithful
  <2> SUFFICES ASSUME Inv, Stored, NothingLost, NEW i \in 1 .. Len(Image)
               PROVE  Image[i] = sent[i]
    BY DEF ImageFaithful
  <2>1. taken \in Seq(Bytes)
    BY DEF Inv, TypeOK
  <2>2. Len(taken) \in Nat
    BY <2>1
  <2>3. Len(Image) = Len(taken)
    BY <2>2 DEF Image
  <2>4. i \in 1 .. Len(taken) /\ Image[i] = Cooked(taken[i]) /\ taken[i] \in Bytes
    BY <2>1, <2>2, <2>3 DEF Image
  <2>5. Image[i] = taken[i]
    BY <2>4 DEF Cooked
  <2> QED BY <2>4, <2>5 DEF Stored, Placed, NothingLost
<1> QED BY <1>1, StoredAlways, Invariance, PTL
=============================================================================
