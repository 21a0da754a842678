---------------------------- MODULE LruWarmSet ----------------------------
(***************************************************************************)
(* The least-recently-used keep-alive set of dd-host (LruWarmSet in        *)
(* crates/dd-host/src/cache.rs).  It holds extension ids only: whoever     *)
(* calls it owns the processes and must release those of the victims it    *)
(* returns.                                                                *)
(*                                                                         *)
(* A set is a record [order, capacity]; order lists ids, most recently     *)
(* used first.  The instants the code keeps beside the ids decrease along  *)
(* the queue, so they are abstracted to the position: the ids idle for     *)
(* longer than some time are always a suffix of order.                     *)
(***************************************************************************)
EXTENDS Naturals, Sequences, SequencesExt

EmptyLru(capacity) == [order |-> <<>>, capacity |-> capacity]

\* remove: drop one id, if it is there.
Removed(set, id) == [set EXCEPT !.order = RemoveFirst(@, id)]

\* A sequence without the elements of ids; a recursive function, for the proofs
\* of WarmPoolProofs.
Without(seq, ids) ==
    LET kept[i \in 0 .. Len(seq)] ==
          IF i = 0 THEN <<>>
          ELSE IF seq[i] \in ids THEN kept[i - 1]
          ELSE Append(kept[i - 1], seq[i])
    IN  kept[Len(seq)]

\* remove, once per element of ids.
RemovedAll(set, ids) == [set EXCEPT !.order = Without(@, ids)]

\* access_at: the id moves (or enters) at the front; a set that has outgrown
\* its capacity gives up the last of the queue.
Touched(set, id) == <<id>> \o RemoveFirst(set.order, id)

AccessedIfKnown(set, id) ==        \* mutant: an id that is not there stays out
    [set EXCEPT !.order = IF id \in ToSet(@) THEN Touched(set, id) ELSE @]

Accessed(set, id) ==
    LET touched == Touched(set, id)
    IN  [set EXCEPT !.order = IF Len(touched) > set.capacity
                              THEN Front(touched) ELSE touched]

VictimsOfAccess(set, id) ==
    LET touched == Touched(set, id)
    IN  IF Len(touched) > set.capacity THEN <<Last(touched)>> ELSE <<>>

\* The victims a caller acts on: never the id it has just touched.
OthersAmong(victims, id) == Without(victims, {id})

\* access_at for each id of a sequence, with the victims of all of them.
AccessedInTurn(set, ids) ==
    LET step(acc, id) ==
          [lru     |-> Accessed(acc.lru, id),
           victims |-> acc.victims \o OthersAmong(VictimsOfAccess(acc.lru, id), id)]
        after[i \in 0 .. Len(ids)] ==
          IF i = 0 THEN [lru |-> set, victims |-> <<>>] ELSE step(after[i - 1], ids[i])
    IN  after[Len(ids)]

\* set_capacity: shrinking drops the least recently used, growing adds nothing.
Resized(set, capacity) ==
    [order    |-> IF Len(set.order) > capacity
                  THEN SubSeq(set.order, 1, capacity) ELSE set.order,
     capacity |-> capacity]

VictimsOfResize(set, capacity) ==
    IF Len(set.order) > capacity
    THEN Reverse(SubSeq(set.order, capacity + 1, Len(set.order))) ELSE <<>>

\* idle_victims_at: the n least recently used ids, the oldest first.
IdleVictims(set, n) ==
    Reverse(SubSeq(set.order, Len(set.order) - n + 1, Len(set.order)))
=============================================================================
