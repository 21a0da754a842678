---------------------------- MODULE InboundGate ----------------------------
(***************************************************************************)
(* The bounded queue between the reader thread of an extension process and *)
(* whoever holds its client (InboundGate, take_overflow_flag in            *)
(* crates/dd-host/src/process.rs).  A full queue drops the new frame; the  *)
(* reader then raises a flag and adds to a count, two atomics the consumer *)
(* swaps back one after the other.                                         *)
(***************************************************************************)
EXTENDS Naturals, Sequences

CONSTANTS
    Body,         \* what a frame may carry
    QueueCap,     \* INBOUND_QUEUE_CAP, 128 in the code
    MaxFrames     \* bound: frames the reader cuts from the stream

ASSUME QueueAssumption == QueueCap \in Nat \ {0} /\ MaxFrames \in Nat

\* Frames are numbered in the order the extension wrote them.
Frame == [no : Nat, body : Body]

\* The two updates of a drop.  Both are Relaxed and on different atomics, so
\* the consumer may see them in either order.
Update == {"flag", "count"}

VARIABLES
    queue,        \* the sync_channel, oldest frame first
    cut,          \* how many frames the reader has cut
    owing,        \* updates of its last drop the reader has not done yet
    overflown,    \* the flag
    dropped,      \* the count
    swapping,     \* the consumer has reset the flag, not yet the count
    received,     \* history: how many frames the consumer took,
    last,         \*   the number of the last of them,
    reported      \*   and the sum of the counts it was told

gateVars == <<queue, cut, owing, overflown, dropped, swapping, received, last,
              reported>>

TypeOK ==
    /\ queue \in Seq(Frame) /\ Len(queue) <= QueueCap
    /\ cut \in Nat /\ owing \subseteq Update
    /\ overflown \in BOOLEAN /\ dropped \in Nat /\ swapping \in BOOLEAN
    /\ received \in Nat /\ last \in Nat /\ reported \in Nat

Init ==
    /\ queue = <<>> /\ cut = 0 /\ owing = {}
    /\ overflown = FALSE /\ dropped = 0 /\ swapping = FALSE
    /\ received = 0 /\ last = 0 /\ reported = 0

-----------------------------------------------------------------------------
(* The reader thread.                                                      *)

\* deliver: try_send, which never blocks.
DeliverOneOver(body) ==         \* mutant: the bound is off by one
    /\ owing = {}
    /\ cut < MaxFrames
    /\ cut' = cut + 1
    /\ IF Len(queue) <= QueueCap
       THEN /\ queue' = Append(queue, [no |-> cut', body |-> body])
            /\ UNCHANGED owing
       ELSE /\ owing' = Update
            /\ UNCHANGED queue
    /\ UNCHANGED <<overflown, dropped, swapping, received, last, reported>>

Deliver(body) ==
    /\ owing = {}
    /\ cut < MaxFrames
    /\ cut' = cut + 1
    /\ IF Len(queue) < QueueCap
       THEN /\ queue' = Append(queue, [no |-> cut', body |-> body])
            /\ UNCHANGED owing
       ELSE /\ owing' = Update
            /\ UNCHANGED queue
    /\ UNCHANGED <<overflown, dropped, swapping, received, last, reported>>

RaiseFlag ==
    /\ "flag" \in owing
    /\ overflown' = TRUE
    /\ owing' = owing \ {"flag"}
    /\ UNCHANGED <<queue, cut, dropped, swapping, received, last, reported>>

AddCount ==
    /\ "count" \in owing
    /\ dropped' = dropped + 1
    /\ owing' = owing \ {"count"}
    /\ UNCHANGED <<queue, cut, overflown, swapping, received, last, reported>>

-----------------------------------------------------------------------------
(* The consumer.                                                           *)

\* try_recv or recv_timeout, when there is a frame.
Receive ==
    /\ ~swapping
    /\ queue # <<>>
    /\ queue' = Tail(queue)
    /\ received' = received + 1
    /\ last' = Head(queue).no
    /\ UNCHANGED <<cut, owing, overflown, dropped, swapping, reported>>

\* take_overflow_flag: the flag is swapped first, and the count if it was up.
SwapFlag ==
    /\ ~swapping
    /\ overflown
    /\ overflown' = FALSE
    /\ swapping' = TRUE
    /\ UNCHANGED <<queue, cut, owing, dropped, received, last, reported>>

SwapCountLate ==              \* mutant: read, and reset in a second access
    /\ swapping
    /\ \E seen \in 0 .. dropped :
         reported' = reported + seen
    /\ dropped' = 0
    /\ swapping' = FALSE
    /\ UNCHANGED <<queue, cut, owing, overflown, received, last>>

SwapCount ==
    /\ swapping
    /\ reported' = reported + dropped
    /\ dropped' = 0
    /\ swapping' = FALSE
    /\ UNCHANGED <<queue, cut, owing, overflown, received, last>>

-----------------------------------------------------------------------------
Next ==
    \/ \E body \in Body : Deliver(body)
    \/ RaiseFlag
    \/ AddCount
    \/ Receive
    \/ SwapFlag
    \/ SwapCount

Spec == Init /\ [][Next]_gateVars

-----------------------------------------------------------------------------
\* No frame disappears without being counted: what the reader has cut was
\* taken, waits in the queue, or is in a count told, standing or owed (the
\* accounting of InboundGate::deliver against take_overflow_flag).
EveryFrameCounted ==
    cut = received + Len(queue) + reported + dropped
            + (IF "count" \in owing THEN 1 ELSE 0)

\* Frames reach the consumer in the order the extension wrote them, whatever
\* was dropped between them: an answer never overtakes what was sent before.
InOrder ==
    /\ \A i, j \in 1 .. Len(queue) : i < j => queue[i].no < queue[j].no
    /\ \A i \in 1 .. Len(queue) : last < queue[i].no /\ queue[i].no <= cut
    /\ last <= cut
=============================================================================
