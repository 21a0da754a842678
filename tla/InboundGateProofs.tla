------------------------- MODULE InboundGateProofs -------------------------
(***************************************************************************)
(* What InboundGate guarantees for every capacity, stream and kind of      *)
(* frame: its shape, the accounting of drops, and the order of frames.     *)
(***************************************************************************)
EXTENDS InboundGate, TLAPS

\* The gate starts empty.
LEMMA InitGood == Init => TypeOK /\ EveryFrameCounted /\ InOrder
<1> SUFFICES ASSUME Init PROVE TypeOK /\ EveryFrameCounted /\ InOrder
  OBVIOUS
<1>1. queue = <<>> /\ Len(queue) = 0 /\ queue \in Seq(Frame)
  BY DEF Init
<1>2. TypeOK
  <2>1. overflown \in BOOLEAN /\ swapping \in BOOLEAN
    BY Zenon DEF Init
  <2> QED
    BY <1>1, <2>1, QueueAssumption DEF Init, TypeOK, Update
<1>3. EveryFrameCounted
  BY <1>1 DEF Init, EveryFrameCounted
<1>4. InOrder
  BY <1>1 DEF Init, InOrder
<1> QED
  BY <1>2, <1>3, <1>4

\* Each step of the reader or the consumer keeps the shape of the gate.
LEMMA TypeStep == TypeOK /\ [Next]_gateVars => TypeOK'
<1> SUFFICES ASSUME TypeOK, [Next]_gateVars PROVE TypeOK'
  OBVIOUS
<1> USE DEF TypeOK
<1>1. ASSUME NEW body \in Body, Deliver(body) PROVE TypeOK'
  <2>1. [no |-> cut', body |-> body] \in Frame
    BY <1>1 DEF Deliver, Frame
  <2>2. CASE Len(queue) < QueueCap
    BY <1>1, <2>1, <2>2, QueueAssumption DEF Deliver
  <2>3. CASE ~(Len(queue) < QueueCap)
    BY <1>1, <2>3 DEF Deliver
  <2> QED
    BY <2>2, <2>3
<1>2. CASE RaiseFlag
  BY <1>2 DEF RaiseFlag
<1>3. CASE AddCount
  BY <1>3 DEF AddCount
<1>4. CASE Receive
  <2>1. Head(queue) \in Frame /\ Tail(queue) \in Seq(Frame)
        /\ Len(Tail(queue)) = Len(queue) - 1
    BY <1>4 DEF Receive
  <2> QED
    BY <1>4, <2>1, QueueAssumption DEF Receive, Frame
<1>5. CASE SwapFlag
  BY <1>5 DEF SwapFlag
<1>6. CASE SwapCount
  <2>1. swapping' \in BOOLEAN
    BY <1>6, Zenon DEF SwapCount
  <2> QED
    BY <1>6, <2>1 DEF SwapCount
<1>7. CASE UNCHANGED gateVars
  BY <1>7 DEF gateVars
<1> QED
  BY <1>1, <1>2, <1>3, <1>4, <1>5, <1>6, <1>7 DEF Next

\* Whatever deliver drops is owed to the count, and what the consumer swaps
\* out of the count is reported: nothing leaves the books.
LEMMA CountStep == TypeOK /\ EveryFrameCounted /\ [Next]_gateVars => EveryFrameCounted'
<1> SUFFICES ASSUME TypeOK, EveryFrameCounted, [Next]_gateVars
             PROVE  EveryFrameCounted'
  OBVIOUS
<1> USE DEF TypeOK, EveryFrameCounted
<1>1. ASSUME NEW body \in Body, Deliver(body) PROVE EveryFrameCounted'
  <2>1. CASE Len(queue) < QueueCap
    <3>1. Len(queue') = Len(queue) + 1
      BY <1>1, <2>1 DEF Deliver
    <3> QED
      BY <1>1, <2>1, <3>1 DEF Deliver
  <2>2. CASE ~(Len(queue) < QueueCap)
    BY <1>1, <2>2 DEF Deliver, Update
  <2> QED
    BY <2>1, <2>2
<1>2. CASE RaiseFlag
  BY <1>2 DEF RaiseFlag
<1>3. CASE AddCount
  BY <1>3 DEF AddCount
<1>4. CASE Receive
  <2>1. Len(queue') = Len(queue) - 1
    BY <1>4 DEF Receive
  <2> QED
    BY <1>4, <2>1 DEF Receive
<1>5. CASE SwapFlag
  BY <1>5 DEF SwapFlag
<1>6. CASE SwapCount
  BY <1>6 DEF SwapCount
<1>7. CASE UNCHANGED gateVars
  BY <1>7 DEF gateVars
<1> QED
  BY <1>1, <1>2, <1>3, <1>4, <1>5, <1>6, <1>7 DEF Next

\* A delivered frame has a number above all before it, and frames are taken
\* from the front.
LEMMA OrderStep == TypeOK /\ InOrder /\ [Next]_gateVars => InOrder'
<1> SUFFICES ASSUME TypeOK, InOrder, [Next]_gateVars PROVE InOrder'
  OBVIOUS
<1>1. \A i \in 1 .. Len(queue) : queue[i].no \in Nat
  <2>1. \A i \in 1 .. Len(queue) : queue[i] \in Frame
    BY DEF TypeOK
  <2> QED
    BY <2>1 DEF Frame
<1> USE DEF InOrder
<1>2. ASSUME NEW body \in Body, Deliver(body) PROVE InOrder'
  <2>1. cut \in Nat /\ last \in Nat /\ cut' = cut + 1 /\ last' = last
    BY <1>2 DEF TypeOK, Deliver
  <2>2. CASE Len(queue) < QueueCap
    <3>1. /\ Len(queue') = Len(queue) + 1
          /\ \A i \in 1 .. Len(queue) : queue'[i] = queue[i]
          /\ queue'[Len(queue) + 1].no = cut + 1
      BY <1>2, <2>2 DEF Deliver, TypeOK
    <3>2. \A i \in 1 .. Len(queue') : last' < queue'[i].no /\ queue'[i].no <= cut'
      <4> TAKE i \in 1 .. Len(queue')
      <4>1. CASE i \in 1 .. Len(queue)
        BY <1>1, <2>1, <3>1, <4>1
      <4>2. CASE i = Len(queue) + 1
        BY <2>1, <3>1, <4>2
      <4> QED
        BY <3>1, <4>1, <4>2 DEF TypeOK
    <3>3. \A i, j \in 1 .. Len(queue') : i < j => queue'[i].no < queue'[j].no
      <4> TAKE i, j \in 1 .. Len(queue')
      <4> HAVE i < j
      <4>1. i \in 1 .. Len(queue)
        BY <3>1 DEF TypeOK
      <4>2. CASE j \in 1 .. Len(queue)
        BY <3>1, <4>1, <4>2
      <4>3. CASE j = Len(queue) + 1
        BY <1>1, <2>1, <3>1, <4>1, <4>3
      <4> QED
        BY <3>1, <4>2, <4>3 DEF TypeOK
    <3> QED
      BY <2>1, <3>2, <3>3
  <2>3. CASE ~(Len(queue) < QueueCap)
    <3>1. queue' = queue
      BY <1>2, <2>3 DEF Deliver
    <3> QED
      BY <1>1, <2>1, <3>1
  <2> QED
    BY <2>2, <2>3
<1>3. CASE RaiseFlag
  BY <1>3 DEF RaiseFlag
<1>4. CASE AddCount
  BY <1>4 DEF AddCount
<1>5. CASE Receive
  <2>1. /\ Len(queue) > 0 /\ Len(queue') = Len(queue) - 1
        /\ \A i \in 1 .. Len(queue') : queue'[i] = queue[i + 1]
        /\ last' = queue[1].no /\ cut' = cut
    BY <1>5 DEF Receive, TypeOK
  <2>2. Len(queue) \in Nat
    BY DEF TypeOK
  <2>3. \A i \in 1 .. Len(queue') : i + 1 \in 1 .. Len(queue)
    BY <2>1, <2>2
  <2>4. \A i, j \in 1 .. Len(queue') : i < j => queue'[i].no < queue'[j].no
    <3> TAKE i, j \in 1 .. Len(queue')
    <3> HAVE i < j
    <3>1. i + 1 < j + 1 /\ i + 1 \in 1 .. Len(queue) /\ j + 1 \in 1 .. Len(queue)
      BY <2>3
    <3> QED
      BY <2>1, <3>1
  <2>5. \A i \in 1 .. Len(queue') : last' < queue'[i].no /\ queue'[i].no <= cut'
    <3> TAKE i \in 1 .. Len(queue')
    <3>1. 1 < i + 1 /\ i + 1 \in 1 .. Len(queue) /\ 1 \in 1 .. Len(queue)
      BY <2>1, <2>2, <2>3
    <3> QED
      BY <2>1, <3>1
  <2> QED
    BY <2>1, <2>2, <2>4, <2>5
<1>6. CASE SwapFlag
  BY <1>6 DEF SwapFlag
<1>7. CASE SwapCount
  BY <1>7 DEF SwapCount
<1>8. CASE UNCHANGED gateVars
  BY <1>8 DEF gateVars
<1> QED
  BY <1>2, <1>3, <1>4, <1>5, <1>6, <1>7, <1>8 DEF Next

\* The queue never outgrows its capacity (INBOUND_QUEUE_CAP bounds the memory
\* an extension can take), and the counters are natural numbers.
THEOREM GateBounded == Spec => []TypeOK
<1>1. Init => TypeOK
  BY InitGood
<1>2. TypeOK /\ [Next]_gateVars => TypeOK'
  BY TypeStep
<1> QED
  BY <1>1, <1>2, PTL DEF Spec

\* No frame is lost uncounted, in whatever order the two updates of a drop and
\* the two swaps of the consumer meet.
THEOREM NoLossUncounted == Spec => []EveryFrameCounted
<1>1. Init => EveryFrameCounted
  BY InitGood
<1>2. TypeOK /\ EveryFrameCounted /\ [Next]_gateVars => EveryFrameCounted'
  BY CountStep
<1> QED
  BY <1>1, <1>2, GateBounded, PTL DEF Spec

\* Frames reach the consumer in the order they were written.
THEOREM FramesInOrder == Spec => []InOrder
<1>1. Init => InOrder
  BY InitGood
<1>2. TypeOK /\ InOrder /\ [Next]_gateVars => InOrder'
  BY OrderStep
<1> QED
  BY <1>1, <1>2, GateBounded, PTL DEF Spec
=============================================================================
