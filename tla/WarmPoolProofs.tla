-------------------------- MODULE WarmPoolProofs --------------------------
(***************************************************************************)
(* What WarmPool promises about serialisation, about the circuit breaker   *)
(* and about the keep-alive set, for any finite set of extensions, any     *)
(* capacity, any threshold and any number of restarts.                     *)
(***************************************************************************)
EXTENDS WarmPool, FiniteSetTheorems, WellFoundedInduction, TLAPS

\* The pool but for its keep-alive set, which LruOK is about.
PoolShape(p) ==
    p \in [processes    : [Ext -> Nat],
           lru          : {p.lru},
           sources      : [Ext -> Status],
           crash_guards : [Ext -> Guard]]

\* q comes from p by a call that brings back at most one client of each
\* extension in S and leaves the crash guards outside S alone.
Brings(p, q, S) ==
    /\ PoolShape(q)
    /\ \A x \in Ext : q.processes[x] <= p.processes[x] + (IF x \in S THEN 1 ELSE 0)
    /\ \A x \in Ext \ S : q.crash_guards[x] = p.crash_guards[x]

-----------------------------------------------------------------------------
(* The calls of pool.rs and health.rs on the pool.                         *)

\* A guard stays a guard, and moves only if it is closed and a crash comes.
LEMMA AfterCrashesType ==
    ASSUME NEW guard \in Guard, NEW n \in Nat
    PROVE  /\ AfterCrashes(guard, n) \in Guard
           /\ (guard.tripped \/ n = 0) => AfterCrashes(guard, n) = guard
BY ThresholdAssumption DEF AfterCrashes, Guard

\* A new guard is one, and is closed.
LEMMA NewGuardType == NewGuard \in Guard /\ ~NewGuard.tripped
BY ThresholdAssumption DEF NewGuard, Guard

\* evict_warm takes clients away and looks at no guard.
LEMMA EvictedShape ==
    ASSUME NEW p, PoolShape(p), NEW victims
    PROVE  /\ Brings(p, Evicted(p, victims), {})
           /\ Evicted(p, victims).crash_guards = p.crash_guards
<1> DEFINE times(e) == Cardinality({i \in DOMAIN victims : victims[i] = e})
           procs == [e \in Ext |-> IF times(e) \in 0 .. p.processes[e]
                                   THEN p.processes[e] - times(e) ELSE 0]
           stats == [e \in Ext |-> IF e \in ToSet(victims) /\ p.sources[e] = "Warm"
                                   THEN "Stub" ELSE p.sources[e]]
           q     == Evicted(p, victims)
<1>1. p.processes \in [Ext -> Nat] /\ p.sources \in [Ext -> Status]
      /\ p.crash_guards \in [Ext -> Guard]
  BY DEF PoolShape
<1>2. procs \in [Ext -> Nat] /\ \A x \in Ext : procs[x] <= p.processes[x]
  <2> HIDE DEF times
  <2> QED BY <1>1
<1>3. stats \in [Ext -> Status]
  BY <1>1 DEF Status
<1>4. q = [p EXCEPT !.processes = procs,
                    !.lru       = RemovedAll(p.lru, ToSet(victims)),
                    !.sources   = stats]
  BY Zenon DEF Evicted
<1> HIDE DEF procs, stats, q
<1>5. /\ q.processes = procs
      /\ q.sources = stats
      /\ q.crash_guards = p.crash_guards
      /\ PoolShape(q)
  BY <1>1, <1>2, <1>3, <1>4 DEF PoolShape
<1> QED
  BY <1>1, <1>2, <1>5 DEF Brings, q

\* store_warm_process brings back the one client it is given.
LEMMA StoredShape ==
    ASSUME NEW p, PoolShape(p), NEW e \in Ext
    PROVE  /\ Brings(p, Stored(p, e), {e})
           /\ Stored(p, e).crash_guards = p.crash_guards
<1> DEFINE procs   == [p.processes EXCEPT ![e] = @ + 1]
           kept    == [p EXCEPT !.processes = procs, !.lru = Accessed(p.lru, e)]
           victims == OthersAmong(VictimsOfAccess(p.lru, e), e)
<1>0. /\ procs \in [Ext -> Nat]
      /\ \A x \in Ext : procs[x] = p.processes[x] + (IF x = e THEN 1 ELSE 0)
      /\ p.processes \in [Ext -> Nat] /\ p.sources \in [Ext -> Status]
      /\ p.crash_guards \in [Ext -> Guard]
  BY DEF PoolShape
<1>1. PoolShape(kept) /\ kept.processes = procs /\ kept.crash_guards = p.crash_guards
  <2> HIDE DEF procs
  <2> QED BY <1>0 DEF PoolShape
<1>2. Stored(p, e) = Evicted(kept, victims)
  BY DEF Stored
<1> HIDE DEF kept, victims, procs
<1>3. /\ Brings(kept, Evicted(kept, victims), {})
      /\ Evicted(kept, victims).crash_guards = kept.crash_guards
  BY <1>1, EvictedShape
<1> QED
  BY <1>0, <1>1, <1>2, <1>3 DEF Brings, PoolShape

\* drop_source_to_stub leaves no client of the extension behind.
LEMMA DroppedShape ==
    ASSUME NEW p, PoolShape(p), NEW e \in Ext
    PROVE  /\ Brings(p, DroppedToStub(p, e), {})
           /\ DroppedToStub(p, e).crash_guards = p.crash_guards
<1> DEFINE procs == [p.processes EXCEPT ![e] = 0]
           stats == [p.sources EXCEPT ![e] = IF @ = "Warm" THEN "Stub" ELSE @]
<1>1. /\ procs \in [Ext -> Nat] /\ stats \in [Ext -> Status]
      /\ \A x \in Ext : procs[x] <= p.processes[x]
      /\ p.processes \in [Ext -> Nat] /\ p.crash_guards \in [Ext -> Guard]
  BY DEF PoolShape, Status
<1>2. DroppedToStub(p, e) =
        [p EXCEPT !.processes = procs, !.lru = Removed(p.lru, e), !.sources = stats]
  BY DEF DroppedToStub, PoolShape
<1> HIDE DEF procs, stats
<1>3. /\ PoolShape(DroppedToStub(p, e)) /\ DroppedToStub(p, e).processes = procs
      /\ DroppedToStub(p, e).crash_guards = p.crash_guards
  BY <1>1, <1>2 DEF PoolShape
<1> QED
  BY <1>1, <1>3 DEF Brings

\* A take: one client of e less, the rest untouched.
LEMMA TakenShape ==
    ASSUME NEW p, PoolShape(p), NEW e \in Ext, p.processes[e] > 0
    PROVE  /\ PoolShape(Taken(p, e))
           /\ Taken(p, e).crash_guards = p.crash_guards
           /\ Taken(p, e).processes = [p.processes EXCEPT ![e] = @ - 1]
BY DEF PoolShape, Taken

\* mark_source_warm touches the status and the breaker of its extension only.
LEMMA MarkedWarmShape ==
    ASSUME NEW p, PoolShape(p), NEW e \in Ext
    PROVE  Brings(p, MarkedWarm(p, e), {e}) /\ MarkedWarm(p, e).processes = p.processes
<1> DEFINE sources == [p.sources EXCEPT ![e] = IF @ = "None" THEN @ ELSE "Warm"]
           guards  == [p.crash_guards EXCEPT ![e] = NewGuard]
<1>1. sources \in [Ext -> Status] /\ guards \in [Ext -> Guard]
      /\ \A x \in Ext \ {e} : guards[x] = p.crash_guards[x]
  BY NewGuardType DEF PoolShape, Status
<1>2. MarkedWarm(p, e) = [p EXCEPT !.sources = sources, !.crash_guards = guards]
  BY DEF MarkedWarm, PoolShape
<1> HIDE DEF sources, guards
<1>3. p.processes \in [Ext -> Nat]
  BY DEF PoolShape
<1>4. /\ PoolShape(MarkedWarm(p, e)) /\ MarkedWarm(p, e).processes = p.processes
      /\ MarkedWarm(p, e).crash_guards = guards
  BY <1>1, <1>2, <1>3 DEF PoolShape
<1> QED
  BY <1>1, <1>3, <1>4 DEF Brings

\* What store_warm_process does with a client that is stuck.
LEMMA MarkedFailedShape ==
    ASSUME NEW p, PoolShape(p), NEW e \in Ext
    PROVE  /\ Brings(p, MarkedFailed(p, e), {})
           /\ MarkedFailed(p, e).crash_guards = p.crash_guards
<1> DEFINE sources == [p.sources EXCEPT ![e] = IF @ = "None" THEN @ ELSE "Failed"]
<1>1. sources \in [Ext -> Status]
  BY DEF PoolShape, Status
<1>2. MarkedFailed(p, e) = [p EXCEPT !.sources = sources]
  BY DEF MarkedFailed, PoolShape
<1> HIDE DEF sources
<1> QED
  BY <1>1, <1>2 DEF PoolShape, Brings

\* record_crash counts against one extension.
LEMMA CrashRecordedShape ==
    ASSUME NEW p, PoolShape(p), NEW e \in Ext, NEW n \in Nat
    PROVE  /\ Brings(p, CrashRecorded(p, e, n), {e})
           /\ CrashRecorded(p, e, n).processes = p.processes
<1> DEFINE guard   == AfterCrashes(p.crash_guards[e], n)
           guards  == [p.crash_guards EXCEPT ![e] = guard]
           sources == [p.sources EXCEPT
                        ![e] = IF @ # "None" /\ guard.tripped /\ ~Tripped(p, e)
                               THEN "Failed" ELSE @]
<1>1. guard \in Guard
  BY AfterCrashesType DEF PoolShape
<1>2. CrashRecorded(p, e, n) = [p EXCEPT !.sources = sources, !.crash_guards = guards]
  <2> HIDE DEF guard
  <2>1. CrashRecorded(p, e, n) =
          [p EXCEPT !.sources[e] = IF @ # "None" /\ guard.tripped /\ ~Tripped(p, e)
                                   THEN "Failed" ELSE @,
                    !.crash_guards[e] = guard]
    BY DEF CrashRecorded, guard
  <2> QED BY <2>1 DEF PoolShape
<1> HIDE DEF guard
<1>3. sources \in [Ext -> Status] /\ guards \in [Ext -> Guard]
      /\ \A x \in Ext \ {e} : guards[x] = p.crash_guards[x]
  BY <1>1 DEF PoolShape, Status
<1> HIDE DEF sources, guards
<1>4. p.processes \in [Ext -> Nat]
  BY DEF PoolShape
<1>5. /\ PoolShape(CrashRecorded(p, e, n))
      /\ CrashRecorded(p, e, n).processes = p.processes
      /\ CrashRecorded(p, e, n).crash_guards = guards
  BY <1>2, <1>3, <1>4 DEF PoolShape
<1> QED
  BY <1>3, <1>4, <1>5 DEF Brings

\* Two calls in a row.
LEMMA BringsTwice ==
    ASSUME NEW p, NEW q, NEW r, NEW e \in Ext, PoolShape(p),
           \/ Brings(p, q, {}) /\ Brings(q, r, {e})
           \/ Brings(p, q, {e}) /\ Brings(q, r, {})
           \/ Brings(p, q, {e}) /\ Brings(q, r, {e}) /\ r.processes = q.processes
    PROVE  Brings(p, r, {e})
BY DEF Brings, PoolShape

\* No call changes nothing.
LEMMA BringsNothing ==
    ASSUME NEW p, PoolShape(p), NEW e \in Ext
    PROVE  Brings(p, p, {e}) /\ Brings(p, p, {})
BY DEF Brings, PoolShape

\* Bringing no client of e is a case of bringing at most one.
LEMMA BringsMore ==
    ASSUME NEW p, NEW q, NEW e \in Ext, PoolShape(p), Brings(p, q, {})
    PROVE  Brings(p, q, {e})
BY DEF Brings, PoolShape

\* However a request ends, it gives back at most the client it borrowed.
LEMMA ReturnedShape ==
    ASSUME NEW p, PoolShape(p), NEW request \in Request, NEW outcome \in Outcomes(request)
    PROVE  Brings(p, Returned(p, request, outcome), {request.ext})
<1> DEFINE e == request.ext
<1>1. e \in Ext /\ request.reheat \in BOOLEAN
  BY DEF Request
<1>2. outcome \in Outcome
  BY DEF Outcomes
<1>3. Brings(p, p, {e}) /\ Brings(p, Stored(p, e), {e})
  BY <1>1, BringsNothing, StoredShape
<1>4. Brings(p, MarkedWarm(Stored(p, e), e), {e})
  <2>1. PoolShape(Stored(p, e))
    BY <1>3 DEF Brings
  <2> QED
    BY <1>1, <1>3, <2>1, MarkedWarmShape, BringsTwice
<1>5. Brings(p, CrashRecorded(DroppedToStub(p, e), e, 1), {e})
  <2>1. Brings(p, DroppedToStub(p, e), {})
    BY <1>1, DroppedShape
  <2>2. PoolShape(DroppedToStub(p, e))
    BY <2>1 DEF Brings
  <2> QED
    BY <1>1, <2>1, <2>2, CrashRecordedShape, BringsTwice
<1>6. Brings(p, MarkedFailed(p, e), {e})
  BY <1>1, MarkedFailedShape, BringsMore
<1> QED
  <2> HIDE DEF e
  <2> QED
    BY <1>1, <1>2, <1>3, <1>4, <1>5, <1>6, outcome \in Outcomes(request)
       DEF Returned, Outcome, Outcomes, e

\* The same off its page, where moreover no guard moves.
LEMMA ReturnedOffPageShape ==
    ASSUME NEW p, PoolShape(p), NEW request \in Request, NEW outcome \in Outcomes(request)
    PROVE  /\ Brings(p, ReturnedOffPage(p, request, outcome), {request.ext})
           /\ ReturnedOffPage(p, request, outcome).crash_guards = p.crash_guards
<1> DEFINE e == request.ext
<1>1. e \in Ext /\ request.reheat \in BOOLEAN
  BY DEF Request
<1>2. outcome \in Outcome
  BY DEF Outcomes
<1>3. /\ Brings(p, p, {e})
      /\ Brings(p, Stored(p, e), {e}) /\ Stored(p, e).crash_guards = p.crash_guards
  BY <1>1, BringsNothing, StoredShape
<1>4. /\ Brings(p, DroppedToStub(p, e), {e})
      /\ DroppedToStub(p, e).crash_guards = p.crash_guards
      /\ Brings(p, MarkedFailed(p, e), {e})
      /\ MarkedFailed(p, e).crash_guards = p.crash_guards
  BY <1>1, DroppedShape, MarkedFailedShape, BringsMore
<1> QED
  <2> HIDE DEF e
  <2> QED
    BY <1>1, <1>2, <1>3, <1>4 DEF ReturnedOffPage, Outcome, e

\* The end of a round, and the reclaim of idle clients, only take away.
LEMMA AccessAllShape ==
    ASSUME NEW p, PoolShape(p), NEW vector
    PROVE  /\ Brings(p, AccessAll(p, vector), {})
           /\ AccessAll(p, vector).crash_guards = p.crash_guards
<1> DEFINE end == AccessedInTurn(p.lru, vector)
           q   == [p EXCEPT !.lru = end.lru]
<1>1. AccessAll(p, vector) = Evicted(q, end.victims)
  BY DEF AccessAll
<1> HIDE DEF end
<1>2. PoolShape(q) /\ q.processes = p.processes /\ q.crash_guards = p.crash_guards
  BY DEF PoolShape
<1> HIDE DEF q
<1>3. /\ Brings(q, Evicted(q, end.victims), {})
      /\ Evicted(q, end.victims).crash_guards = q.crash_guards
  BY <1>2, EvictedShape
<1> QED
  BY <1>1, <1>2, <1>3 DEF Brings

\* The idle reclaim of warm_idle_reclaim adds no client and moves no breaker.
LEMMA ReclaimedShape ==
    ASSUME NEW p, PoolShape(p), NEW n
    PROVE  /\ Brings(p, Reclaimed(p, n), {})
           /\ Reclaimed(p, n).crash_guards = p.crash_guards
<1> DEFINE victims == InVector(p, IdleVictims(p.lru, n))
<1>1. Reclaimed(p, n) = Evicted(p, victims)
  BY DEF Reclaimed
<1> HIDE DEF victims
<1> QED
  BY <1>1, EvictedShape

\* Health checks: an extension without a client is left alone, a breaker that
\* is open stays open.
LEMMA ReapedShape ==
    ASSUME NEW p, PoolShape(p),
           NEW exits, \A e \in Ext : /\ exits[e].exited \in Nat
                                     /\ exits[e].crashed \in 0 .. p.processes[e]
    PROVE  /\ PoolShape(Reaped(p, exits))
           /\ \A x \in Ext : Reaped(p, exits).processes[x] <= p.processes[x]
           /\ \A x \in Ext : (p.processes[x] = 0 \/ Tripped(p, x))
                 => Reaped(p, exits).crash_guards[x] = p.crash_guards[x]
<1> DEFINE guard(e) == AfterCrashes(p.crash_guards[e], exits[e].crashed)
           guards   == [e \in Ext |-> guard(e)]
           q        == Reaped(p, exits)
<1>1. /\ p.processes \in [Ext -> Nat] /\ p.sources \in [Ext -> Status]
      /\ p.crash_guards \in [Ext -> Guard]
  BY DEF PoolShape
<1>2. /\ \A e \in Ext : guard(e) \in Guard
      /\ \A e \in Ext : (p.processes[e] = 0 \/ Tripped(p, e))
                           => guard(e) = p.crash_guards[e]
  BY <1>1, AfterCrashesType DEF Tripped
<1>3. q.crash_guards = guards
  BY DEF Reaped
<1>4. q.processes = [e \in Ext |-> IF exits[e].exited = 0 THEN p.processes[e] ELSE 0]
  BY DEF Reaped
<1>5. q.sources \in [Ext -> Status]
  BY <1>1 DEF Reaped, Status
<1>6. q = [processes |-> q.processes, lru |-> q.lru, sources |-> q.sources,
           crash_guards |-> q.crash_guards]
  BY DEF Reaped
<1> HIDE DEF guard, q
<1>7. PoolShape(q)
  BY <1>1, <1>2, <1>3, <1>4, <1>5, <1>6 DEF PoolShape
<1> QED
  BY <1>1, <1>2, <1>3, <1>4, <1>7 DEF q

-----------------------------------------------------------------------------
(* The inductive invariant.                                                *)

\* TypeOK with the shape of the pool in place of its full type.
TypeInv ==
    /\ PoolShape(pool)
    /\ inflight \subseteq Ext
    /\ rx \in [Channel -> Request \cup {NoRequest}]
    /\ orphans \in [Ext -> Nat]
    /\ phase \in {"idle", "scan", "stream"}
    /\ todo \subseteq Ext
    /\ arrived \in [Ext -> Status]
    /\ overlapped \subseteq Ext

IInv == TypeInv /\ OneHolder /\ TrippedIsQuiet

\* The part of it a dispatch or a poll can disturb, said of the values in
\* the middle of a handler.
Quiet(e, p, slots) ==
    p.crash_guards[e].tripped => slots["invoke"].ext # e /\ slots["page"].ext # e

Consistent(p, busy, slots) ==
    /\ PoolShape(p)
    /\ busy \subseteq Ext
    /\ slots \in [Channel -> Request \cup {NoRequest}]
    /\ \A e \in Ext \ overlapped : Exclusive(e, p, busy, slots) /\ Quiet(e, p, slots)

\* The invariant, as consistency of the pool, the busy marks and the slots.
LEMMA ConsistentState ==
    IInv <=> /\ TypeInv
             /\ Consistent(pool, inflight, rx)
             /\ \A e \in Ext \ overlapped : orphans[e] = 0
             /\ phase # "idle" => rx["fallback"] = NoRequest
             /\ phase # "stream" => todo = {}
BY DEF IInv, Consistent, TypeInv, OneHolder, TrippedIsQuiet, Quiet, Tripped

\* A slot is free exactly when it names no extension (the receivers of ExtPool).
LEMMA SlotTypes ==
    ASSUME NEW slots \in [Channel -> Request \cup {NoRequest}], NEW c \in Channel
    PROVE  /\ slots[c] = NoRequest <=> slots[c].ext \notin Ext
           /\ slots[c] # NoRequest => slots[c] \in Request
           /\ slots[c] # NoRequest => slots[c].ext \in Ext
BY ExtAssumption DEF Request, NoRequest

\* An answer hands the client back and frees the extension at once.
LEMMA Answered ==
    ASSUME Consistent(pool, inflight, rx), overlapped \subseteq Ext,
           NEW c \in Channel, rx[c] # NoRequest,
           NEW p, Brings(pool, p, {rx[c].ext})
    PROVE  Consistent(p, Freed(inflight, rx[c].ext), [rx EXCEPT ![c] = NoRequest])
<1> DEFINE e     == rx[c].ext
           busy  == inflight \ {e}
           slots == [rx EXCEPT ![c] = NoRequest]
<1>1. e \in Ext
  BY SlotTypes DEF Consistent
<1>2. /\ PoolShape(p) /\ busy \subseteq Ext
      /\ slots \in [Channel -> Request \cup {NoRequest}]
  BY DEF Consistent, Brings
<1>3. /\ slots[c].ext = NoExt
      /\ \A d \in Channel \ {c} : slots[d] = rx[d]
  BY DEF Consistent, NoRequest
<1>4. ASSUME NEW x \in Ext \ overlapped
      PROVE  Exclusive(x, p, busy, slots) /\ Quiet(x, p, slots)
  <2>1. Exclusive(x, pool, inflight, rx) /\ Quiet(x, pool, rx)
    BY DEF Consistent
  <2>2. /\ p.processes[x] \in Nat /\ pool.processes[x] \in Nat
        /\ p.processes[x] <= pool.processes[x] + (IF x = e THEN 1 ELSE 0)
        /\ x # e => p.crash_guards[x] = pool.crash_guards[x]
    BY DEF Brings, PoolShape, Consistent
  <2>3. CASE x = e
    <3>1. x \in inflight /\ pool.processes[x] = 0
      BY <2>1, <2>2, <2>3 DEF Exclusive
    <3>2. \A d \in Channel : slots[d].ext # x
      BY <1>1, <1>3, <2>1, <2>3, ExtAssumption DEF Exclusive
    <3>3. ~StillToCome(x) /\ x \notin todo
      BY <2>1, <3>1 DEF Exclusive, StillToCome
    <3> QED
      BY <2>2, <2>3, <3>1, <3>2, <3>3 DEF Exclusive, Quiet, Channel
  <2>4. CASE x # e
    <3> HIDE DEF e
    <3>1. \A d \in Channel : slots[d].ext = x => rx[d].ext = x
      BY <1>3, ExtAssumption
    <3>2. Exclusive(x, p, busy, slots)
      BY <2>1, <2>2, <2>4, <3>1 DEF Exclusive
    <3> QED
      BY <2>1, <2>2, <2>4, <3>1, <3>2 DEF Quiet, Channel
  <2> QED BY <2>3, <2>4
<1> QED
  BY <1>2, <1>4 DEF Consistent, Freed

\* A dispatch, refused or not, keeps the handler consistent; it closes no
\* breaker, and leaves the fallback slot alone.
LEMMA RequestedStep ==
    ASSUME NEW c \in {"invoke", "page"}, NEW e \in Ext,
           NEW p, NEW busy, NEW slots, Consistent(p, busy, slots),
           overlapped \subseteq Ext,
           Requested(c, e, p, busy, slots),
           UNCHANGED <<phase, todo, arrived>>
    PROVE  /\ Consistent(pool, inflight, rx)'
           /\ overlapped \subseteq overlapped' /\ overlapped' \subseteq Ext
           /\ rx'["fallback"] = slots["fallback"]
           /\ pool'.crash_guards = p.crash_guards
<1>1. CASE Refused(c, e, p, busy, slots)
  BY <1>1 DEF Requested, Consistent, Exclusive, Quiet, StillToCome, FirstArrival
<1>2. CASE ~Refused(c, e, p, busy, slots)
  <2> DEFINE reheat  == p.processes[e] = 0
             request == [ext |-> e, reheat |-> reheat]
  <2>1. /\ pool' = IF reheat THEN p ELSE Taken(p, e)
        /\ inflight' = busy \cup {e}
        /\ rx' = [slots EXCEPT ![c] = request]
        /\ overlapped' = overlapped \cup (IF StillToCome(e) THEN {e} ELSE {})
    BY <1>2 DEF Requested
  <2>2. /\ slots[c] = NoRequest /\ e \notin busy
        /\ ~p.crash_guards[e].tripped
    BY <1>2 DEF Refused, Tripped
  <2>3. c \in Channel /\ request \in Request
    BY DEF Channel, Request
  <2>4. /\ PoolShape(p) /\ busy \subseteq Ext
        /\ slots \in [Channel -> Request \cup {NoRequest}]
        /\ p.processes \in [Ext -> Nat]
    BY DEF Consistent, PoolShape
  <2>5. /\ PoolShape(pool') /\ pool'.crash_guards = p.crash_guards
        /\ \A x \in Ext : pool'.processes[x] <= p.processes[x]
        /\ \/ pool'.processes[e] = 0
           \/ pool'.processes[e] < p.processes[e]
        /\ \A x \in Ext \ {e} : pool'.processes[x] = p.processes[x]
        /\ pool'.processes \in [Ext -> Nat]
    <3>1. CASE reheat
      BY <2>1, <2>4, <3>1
    <3>2. CASE ~reheat
      <4>1. p.processes[e] > 0
        BY <2>4, <3>2
      <4>2. /\ PoolShape(Taken(p, e)) /\ Taken(p, e).crash_guards = p.crash_guards
            /\ Taken(p, e).processes = [p.processes EXCEPT ![e] = @ - 1]
        BY <2>4, <4>1, TakenShape
      <4>3. [p.processes EXCEPT ![e] = @ - 1] \in [Ext -> Nat]
        BY <2>4, <4>1
      <4> QED
        BY <2>1, <2>4, <3>2, <4>2, <4>3
    <3> QED BY <3>1, <3>2
  <2> HIDE DEF request
  <2>6. /\ rx' \in [Channel -> Request \cup {NoRequest}]
        /\ rx'[c] = request
        /\ \A d \in Channel \ {c} : rx'[d] = slots[d]
        /\ rx'["fallback"] = slots["fallback"]
    BY <2>1, <2>3, <2>4 DEF Channel
  <2>7. request.ext = e
    BY DEF request
  <2>8. ASSUME NEW x \in Ext \ overlapped'
        PROVE  Exclusive(x, pool, inflight, rx)' /\ Quiet(x, pool, rx)'
    <3>1. Exclusive(x, p, busy, slots) /\ Quiet(x, p, slots) /\ x \notin overlapped
      BY <2>1 DEF Consistent
    <3>2. /\ StillToCome(x)' <=> StillToCome(x)
          /\ FirstArrival' <=> FirstArrival
          /\ todo' = todo
      BY DEF StillToCome, FirstArrival
    <3>3. CASE x = e
      <4>1. ~StillToCome(x) /\ x \notin todo
        BY <2>1, <3>3 DEF StillToCome
      <4>2. \A d \in Channel : rx'[d].ext = x => d = c
        BY <2>2, <2>6, <3>1, <3>3 DEF Exclusive
      <4>3. pool'.processes[x] = 0 /\ x \in inflight'
        BY <2>1, <2>4, <2>5, <3>1, <3>3 DEF Exclusive
      <4> QED
        BY <2>2, <2>5, <3>2, <3>3, <4>1, <4>2, <4>3 DEF Exclusive, Quiet
    <3>4. CASE x # e
      <4>1. \A d \in Channel : rx'[d].ext = x => slots[d].ext = x
        BY <2>6, <2>7, <3>4
      <4>2. Exclusive(x, pool, inflight, rx)'
        BY <2>1, <2>4, <2>5, <3>1, <3>2, <3>4, <4>1 DEF Exclusive
      <4> QED
        BY <2>5, <3>1, <4>1, <4>2 DEF Quiet, Channel
    <3> QED BY <3>3, <3>4
  <2>9. overlapped \subseteq overlapped' /\ overlapped' \subseteq Ext /\ inflight' \subseteq Ext
    BY <2>1, <2>4
  <2> QED
    BY <2>5, <2>6, <2>8, <2>9 DEF Consistent
<1> QED BY <1>1, <1>2

\* Between rounds the fallback chain takes a client that is in the vector, so
\* nobody else is at work on its extension.
LEMMA FallbackStep ==
    ASSUME NEW p, NEW busy, NEW slots, NEW store, Consistent(p, busy, slots),
           overlapped \subseteq Ext, phase = "idle", todo = {},
           FallbackStarted(p, busy, slots, store),
           UNCHANGED <<phase, todo, arrived, overlapped>>
    PROVE  Consistent(pool, inflight, rx)' /\ pool'.crash_guards = p.crash_guards
<1>1. CASE slots["fallback"] # NoRequest \/ Wanted(p, store) = {}
  BY <1>1 DEF FallbackStarted, Consistent, Exclusive, Quiet, StillToCome, FirstArrival
<1>2. CASE slots["fallback"] = NoRequest /\ Wanted(p, store) # {}
  <2>1. PICK e \in Wanted(p, store) :
          /\ pool' = Taken(p, e)
          /\ inflight' = busy \cup {e}
          /\ rx' = [slots EXCEPT !["fallback"] = [ext |-> e, reheat |-> FALSE]]
    BY <1>2 DEF FallbackStarted
  <2> DEFINE request == [ext |-> e, reheat |-> FALSE]
  <2>2. e \in Ext /\ p.processes[e] > 0
    BY DEF Wanted
  <2>3. /\ PoolShape(p) /\ busy \subseteq Ext
        /\ slots \in [Channel -> Request \cup {NoRequest}]
        /\ p.processes \in [Ext -> Nat]
    BY DEF Consistent, PoolShape
  <2>4. /\ PoolShape(pool') /\ pool'.crash_guards = p.crash_guards
        /\ pool'.processes = [p.processes EXCEPT ![e] = @ - 1]
    BY <2>1, <2>2, <2>3, TakenShape
  <2>5. request \in Request /\ request.ext = e /\ "fallback" \in Channel
    BY <2>2 DEF Request, Channel
  <2> HIDE DEF request
  <2>6. /\ rx' \in [Channel -> Request \cup {NoRequest}]
        /\ rx'["fallback"] = request
        /\ \A d \in Channel \ {"fallback"} : rx'[d] = slots[d]
    BY <2>1, <2>3, <2>5 DEF request
  <2>7. ASSUME NEW x \in Ext \ overlapped
        PROVE  Exclusive(x, pool, inflight, rx)' /\ Quiet(x, pool, rx)'
    <3>1. Exclusive(x, p, busy, slots) /\ Quiet(x, p, slots)
      BY DEF Consistent
    <3>2. ~StillToCome(x)' /\ todo' = {}
      BY DEF StillToCome
    <3>3. rx'["invoke"] = slots["invoke"] /\ rx'["page"] = slots["page"]
      BY <2>6 DEF Channel
    <3>4. CASE x = e
      <4>1. p.processes[x] = 1 /\ x \notin busy
        BY <2>2, <2>3, <3>1, <3>4 DEF Exclusive
      <4>2. \A d \in Channel : rx'[d].ext = x => d = "fallback"
        BY <2>6, <3>1, <4>1 DEF Exclusive
      <4> QED
        BY <2>1, <2>3, <2>4, <3>1, <3>2, <3>3, <3>4, <4>1, <4>2 DEF Exclusive, Quiet
    <3>5. CASE x # e
      <4>1. \A d \in Channel : rx'[d].ext = x => slots[d].ext = x
        BY <2>5, <2>6, <3>5
      <4>2. Exclusive(x, pool, inflight, rx)'
        BY <2>1, <2>3, <2>4, <3>1, <3>2, <3>5, <4>1 DEF Exclusive
      <4> QED
        BY <2>4, <3>1, <3>3, <4>2 DEF Quiet
    <3> QED BY <3>4, <3>5
  <2> QED
    BY <2>1, <2>2, <2>3, <2>4, <2>6, <2>7 DEF Consistent
<1> QED BY <1>1, <1>2

\* A call under way counts.
LEMMA CallsCounted ==
    ASSUME TypeInv, NEW e \in Ext
    PROVE  /\ Calls(e) \in Nat
           /\ Calls(e) = 0 => orphans[e] = 0 /\ \A c \in Channel : rx[c].ext # e
<1> DEFINE holding == {c \in Channel : rx[c].ext = e}
<1>1. IsFiniteSet(Channel)
  <2>1. Channel = {"invoke"} \cup {"page"} \cup {"fallback"}
    BY DEF Channel
  <2> QED
    BY <2>1, FS_Singleton, FS_Union
<1>2. IsFiniteSet(holding)
  BY <1>1, FS_Subset
<1>3. Cardinality(holding) \in Nat /\ (Cardinality(holding) = 0 => holding = {})
  BY <1>2, FS_CardinalityType, FS_EmptySet
<1>4. Calls(e) = Cardinality(holding) + orphans[e]
  BY DEF Calls
<1>5. orphans[e] \in Nat
  BY DEF TypeInv
<1>6. Calls(e) = 0 => Cardinality(holding) = 0 /\ orphans[e] = 0
  <2> HIDE DEF holding
  <2> QED BY <1>3, <1>4, <1>5
<1>7. Calls(e) \in Nat
  <2> HIDE DEF holding
  <2> QED BY <1>3, <1>4, <1>5
<1> QED
  BY <1>3, <1>6, <1>7

-----------------------------------------------------------------------------
(* The invariant is inductive: one step per action.                        *)

\* The palette starts with an empty pool and no request, where the invariant holds.
LEMMA IInvInit == Init => IInv
<1> SUFFICES ASSUME Init PROVE IInv
  OBVIOUS
<1>1. PICK capacity \in 1 .. MaxCapacity :
        pool = [processes    |-> [e \in Ext |-> 0],
                lru          |-> EmptyLru(capacity),
                sources      |-> [e \in Ext |-> "None"],
                crash_guards |-> [e \in Ext |-> NewGuard]]
  BY DEF Init
<1>2. PoolShape(pool)
  BY <1>1, NewGuardType DEF PoolShape, Status
<1>3. \A c \in Channel : rx[c] = NoRequest
  BY DEF Init
<1>4. TypeInv
  BY <1>2 DEF Init, TypeInv, Status
<1>5. ASSUME NEW e \in Ext
      PROVE  /\ Exclusive(e, pool, inflight, rx) /\ orphans[e] = 0
             /\ ~Tripped(pool, e)
  BY <1>1, <1>3, NewGuardType, ExtAssumption DEF Init, Exclusive, NoRequest, Tripped
<1> QED
  BY <1>4, <1>5 DEF IInv, OneHolder, TrippedIsQuiet, Init, Channel

\* ConsistentState for the state after a step.
LEMMA NextState ==
    ASSUME Consistent(pool, inflight, rx)', (orphans \in [Ext -> Nat])',
           phase' \in {"idle", "scan", "stream"}, todo' \subseteq Ext,
           arrived' \in [Ext -> Status], overlapped' \subseteq Ext,
           \A e \in Ext \ overlapped' : orphans'[e] = 0,
           phase' # "idle" => rx'["fallback"] = NoRequest,
           phase' # "stream" => todo' = {}
    PROVE  IInv'
BY DEF IInv, Consistent, TypeInv, OneHolder, TrippedIsQuiet, Quiet, Tripped

\* A step that only takes clients away, or moves guards of extensions nobody
\* is at work on, and leaves the rest of the request state alone.
LEMMA HousekeepingStep ==
    ASSUME IInv, UNCHANGED <<inflight, rx, orphans, phase, todo, arrived, overlapped>>,
           PoolShape(pool'),
           \A x \in Ext : pool'.processes[x] <= pool.processes[x],
           \A x \in Ext : (pool.processes[x] = 0 \/ Tripped(pool, x))
                           => pool'.crash_guards[x] = pool.crash_guards[x]
    PROVE  IInv'
<1>1. /\ TypeInv /\ Consistent(pool, inflight, rx)
      /\ \A e \in Ext \ overlapped : orphans[e] = 0
      /\ phase # "idle" => rx["fallback"] = NoRequest
      /\ phase # "stream" => todo = {}
  BY ConsistentState
<1>2. ASSUME NEW x \in Ext \ overlapped
      PROVE  Exclusive(x, pool, inflight, rx)' /\ Quiet(x, pool, rx)'
  <2>1. Exclusive(x, pool, inflight, rx) /\ Quiet(x, pool, rx)
    BY <1>1 DEF Consistent
  <2>2. /\ pool.processes[x] \in Nat /\ pool'.processes[x] \in Nat
        /\ pool'.processes[x] <= pool.processes[x]
    BY <1>1 DEF PoolShape, TypeInv
  <2>3. Exclusive(x, pool, inflight, rx)'
    BY <2>1, <2>2 DEF Exclusive, StillToCome, FirstArrival
  <2>4. CASE pool.processes[x] = 0
    BY <2>1, <2>3, <2>4 DEF Quiet, Tripped
  <2>5. CASE pool.processes[x] # 0
    <3>1. \A c \in Channel : rx[c].ext # x
      BY <2>1, <2>2, <2>5 DEF Exclusive
    <3> QED
      BY <2>3, <3>1 DEF Quiet, Channel
  <2> QED BY <2>3, <2>4, <2>5
<1>3. Consistent(pool, inflight, rx)'
  BY <1>1, <1>2 DEF Consistent
<1> QED
  BY <1>1, <1>3, NextState DEF TypeInv

\* Every handler preserves the invariant.
LEMMA IInvNext == IInv /\ [Next]_vars => IInv'
<1> SUFFICES ASSUME IInv, [Next]_vars PROVE IInv'
  OBVIOUS
<1> USE DEF aggregation
<1>1. /\ TypeInv /\ Consistent(pool, inflight, rx)
      /\ \A e \in Ext \ overlapped : orphans[e] = 0
      /\ phase # "idle" => rx["fallback"] = NoRequest
      /\ phase # "stream" => todo = {}
  BY ConsistentState
<1>2. /\ overlapped \subseteq Ext /\ PoolShape(pool)
      /\ rx \in [Channel -> Request \cup {NoRequest}]
  BY <1>1 DEF TypeInv
<1>3. ASSUME NEW e \in Ext, DispatchInvoke(e) PROVE IInv'
  <2>1. /\ Requested("invoke", e, pool, inflight, rx)
        /\ UNCHANGED <<orphans, phase, todo, arrived>>
    BY <1>3 DEF DispatchInvoke
  <2>2. /\ Consistent(pool, inflight, rx)'
        /\ overlapped \subseteq overlapped' /\ overlapped' \subseteq Ext
        /\ rx'["fallback"] = rx["fallback"]
    BY <1>1, <1>2, <2>1, RequestedStep
  <2> QED
    BY <1>1, <2>1, <2>2, NextState DEF TypeInv
<1>4. ASSUME NEW e \in Ext, DispatchFetchPage(e) PROVE IInv'
  <2>1. /\ Requested("page", e, pool, inflight, rx)
        /\ UNCHANGED <<orphans, phase, todo, arrived>>
    BY <1>4 DEF DispatchFetchPage
  <2>2. /\ Consistent(pool, inflight, rx)'
        /\ overlapped \subseteq overlapped' /\ overlapped' \subseteq Ext
        /\ rx'["fallback"] = rx["fallback"]
    BY <1>1, <1>2, <2>1, RequestedStep
  <2> QED
    BY <1>1, <2>1, <2>2, NextState DEF TypeInv
<1>5. CASE SyncFallback
  <2>1. /\ FallbackStarted(pool, inflight, rx, templates) /\ phase = "idle"
        /\ UNCHANGED <<orphans, phase, todo, arrived, overlapped>>
    BY <1>5 DEF SyncFallback
  <2>2. Consistent(pool, inflight, rx)'
    BY <1>1, <1>2, <2>1, FallbackStep
  <2> QED
    BY <1>1, <2>1, <2>2, NextState DEF TypeInv
<1>6. CASE PollInvoke
  <2> DEFINE request == rx["invoke"]
             busy    == Freed(inflight, request.ext)
             slots   == [rx EXCEPT !["invoke"] = NoRequest]
  <2>1. PICK outcome \in Outcomes(request) :
          \/ /\ pool' = Returned(pool, request, outcome)
             /\ inflight' = busy
             /\ rx' = slots
             /\ UNCHANGED overlapped
          \/ Requested("page", request.ext, Returned(pool, request, outcome), busy, slots)
    BY <1>6 DEF PollInvoke
  <2>2. /\ request # NoRequest
        /\ UNCHANGED <<orphans, phase, todo, arrived>>
    BY <1>6 DEF PollInvoke
  <2>3. "invoke" \in Channel /\ request \in Request /\ request.ext \in Ext
    BY <1>2, <2>2, SlotTypes DEF Channel
  <2>4. Brings(pool, Returned(pool, request, outcome), {request.ext})
    BY <1>2, <2>3, ReturnedShape
  <2>5. Consistent(Returned(pool, request, outcome), busy, slots)
    BY <1>1, <1>2, <2>2, <2>3, <2>4, Answered
  <2>6. slots["fallback"] = rx["fallback"]
    BY <1>2 DEF Channel
  <2> HIDE DEF request, busy, slots
  <2>7. /\ Consistent(pool, inflight, rx)'
        /\ overlapped \subseteq overlapped' /\ overlapped' \subseteq Ext
        /\ rx'["fallback"] = rx["fallback"]
    <3>1. CASE Requested("page", request.ext, Returned(pool, request, outcome), busy, slots)
      BY <1>2, <2>2, <2>3, <2>5, <2>6, <3>1, RequestedStep
    <3>2. CASE /\ pool' = Returned(pool, request, outcome)
               /\ inflight' = busy
               /\ rx' = slots
               /\ UNCHANGED overlapped
      BY <1>2, <2>2, <2>5, <2>6, <3>2
         DEF Consistent, Exclusive, Quiet, StillToCome, FirstArrival
    <3> QED BY <2>1, <3>1, <3>2
  <2> QED
    BY <1>1, <2>2, <2>7, NextState DEF TypeInv
<1>7. CASE PollPage
  <2> DEFINE request == rx["page"]
             busy    == Freed(inflight, request.ext)
             slots   == [rx EXCEPT !["page"] = NoRequest]
  <2>1. PICK outcome \in Outcomes(request) :
          \/ pool' = Returned(pool, request, outcome)
          \/ pool' = ReturnedOffPage(pool, request, outcome)
    BY <1>7 DEF PollPage
  <2>2. /\ request # NoRequest
        /\ inflight' = busy
        /\ rx' = slots
        /\ UNCHANGED <<orphans, phase, todo, arrived, overlapped>>
    BY <1>7 DEF PollPage
  <2>3. "page" \in Channel /\ request \in Request /\ request.ext \in Ext
    BY <1>2, <2>2, SlotTypes DEF Channel
  <2>4. Brings(pool, pool', {request.ext})
    BY <1>2, <2>1, <2>3, ReturnedShape, ReturnedOffPageShape
  <2>5. Consistent(pool', busy, slots)
    BY <1>1, <1>2, <2>2, <2>3, <2>4, Answered
  <2>6. slots["fallback"] = rx["fallback"]
    BY <1>2 DEF Channel
  <2> HIDE DEF request, busy, slots
  <2>7. Consistent(pool, inflight, rx)'
    BY <2>2, <2>5 DEF Consistent, Exclusive, Quiet, StillToCome, FirstArrival
  <2> QED
    BY <1>1, <2>2, <2>6, <2>7, NextState DEF TypeInv
<1>8. CASE PollFallback
  <2> DEFINE request == rx["fallback"]
             e       == request.ext
             busy    == Freed(inflight, request.ext)
             slots   == [rx EXCEPT !["fallback"] = NoRequest]
             store   == [templates EXCEPT ![e] = "settled"]
  <2>1. PICK p :
          /\ \/ p = DroppedToStub(pool, e)
             \/ p = MarkedFailed(pool, e)
             \/ p = Stored(pool, e)
          /\ FallbackStarted(p, busy, slots, store)
    BY <1>8 DEF PollFallback
  <2>2. /\ request # NoRequest
        /\ UNCHANGED <<orphans, phase, todo, arrived, overlapped>>
    BY <1>8 DEF PollFallback
  <2>3. /\ "fallback" \in Channel /\ request \in Request /\ e \in Ext
        /\ phase = "idle" /\ todo = {}
    BY <1>1, <1>2, <2>2, SlotTypes DEF Channel
  <2>4. Brings(pool, p, {request.ext})
    BY <1>2, <2>1, <2>3, DroppedShape, MarkedFailedShape, StoredShape, BringsMore
  <2>5. Consistent(p, busy, slots)
    BY <1>1, <1>2, <2>2, <2>3, <2>4, Answered
  <2> HIDE DEF request, busy, slots, store
  <2>6. Consistent(pool, inflight, rx)'
    BY <1>2, <2>1, <2>2, <2>3, <2>5, FallbackStep
  <2> QED
    BY <1>1, <2>2, <2>3, <2>6, NextState DEF TypeInv
<1>9. ASSUME NEW c \in Channel, PollDisconnected(c) PROVE IInv'
  <2>1. /\ rx' = [rx EXCEPT ![c] = NoRequest]
        /\ UNCHANGED <<pool, inflight, orphans, phase, todo, arrived, overlapped>>
    BY <1>9 DEF PollDisconnected
  <2>2. /\ rx' \in [Channel -> Request \cup {NoRequest}]
        /\ \A d \in Channel : \/ rx'[d] = rx[d]
                              \/ rx'[d] = NoRequest /\ rx'[d].ext \notin Ext
    <3>1. NoRequest.ext \notin Ext
      BY ExtAssumption DEF NoRequest
    <3>2. rx'[c] = NoRequest /\ \A d \in Channel : d # c => rx'[d] = rx[d]
      BY <1>2, <2>1
    <3>3. rx' \in [Channel -> Request \cup {NoRequest}]
      BY <1>2, <2>1
    <3> QED
      BY <3>1, <3>2, <3>3
  <2>3. Consistent(pool, inflight, rx)'
    BY <1>1, <2>1, <2>2
       DEF Consistent, Exclusive, Quiet, StillToCome, FirstArrival, Channel
  <2> QED
    BY <1>1, <2>1, <2>2, <2>3, NextState DEF TypeInv, Channel
<1>10. ASSUME NEW e \in Ext, OrphanFinishes(e) PROVE IInv'
  <2>1. /\ orphans[e] > 0
        /\ orphans' = [orphans EXCEPT ![e] = @ - 1]
        /\ UNCHANGED <<pool, inflight, rx, phase, todo, arrived, overlapped>>
    BY <1>10 DEF OrphanFinishes
  <2>2. /\ orphans' \in [Ext -> Nat]
        /\ \A x \in Ext \ overlapped : orphans'[x] = 0
    BY <1>1, <2>1 DEF TypeInv
  <2>3. Consistent(pool, inflight, rx)'
    BY <1>1, <2>1 DEF Consistent, Exclusive, Quiet, StillToCome, FirstArrival
  <2> QED
    BY <1>1, <2>1, <2>2, <2>3, NextState DEF TypeInv
<1>11. ASSUME NEW p, Restarted(p), PoolShape(p), p.processes = pool.processes
       PROVE  IInv'
  <2>1. /\ pool' = p /\ inflight' = {} /\ phase' = "scan" /\ todo' = {}
        /\ rx' = [rx EXCEPT !["fallback"] = NoRequest]
        /\ orphans' = [x \in Ext |-> orphans[x] + (IF x = rx["fallback"].ext THEN 1 ELSE 0)]
        /\ overlapped' = overlapped \cup {x \in Ext : Calls(x) > 0}
        /\ arrived' = arrived
    BY <1>11 DEF Restarted
  <2>2. /\ rx' \in [Channel -> Request \cup {NoRequest}]
        /\ rx'["fallback"] = NoRequest
        /\ \A d \in Channel : \/ rx'[d] = rx[d]
                              \/ rx'[d].ext \notin Ext
    BY <1>2, <2>1, ExtAssumption DEF NoRequest, Channel
  <2>3. orphans' \in [Ext -> Nat]
    BY <1>1, <2>1 DEF TypeInv
  <2>4. overlapped \subseteq overlapped' /\ overlapped' \subseteq Ext
    BY <1>2, <2>1
  <2>5. ASSUME NEW x \in Ext \ overlapped'
        PROVE  /\ Exclusive(x, pool, inflight, rx)' /\ Quiet(x, pool, rx)'
               /\ orphans'[x] = 0
    <3>1. Exclusive(x, pool, inflight, rx)
      BY <1>1, <2>4 DEF Consistent
    <3>2. orphans[x] = 0 /\ \A c \in Channel : rx[c].ext # x
      <4>1. Calls(x) \in Nat /\ ~(Calls(x) > 0)
        BY <1>1, <2>1, CallsCounted
      <4> QED
        BY <1>1, <4>1, CallsCounted
    <3>3. \A c \in Channel : rx'[c].ext # x
      BY <2>2, <3>2
    <3>4. orphans'[x] = 0
      BY <2>1, <3>2 DEF Channel
    <3> QED
      BY <1>11, <2>1, <3>1, <3>3, <3>4 DEF Exclusive, Quiet, Channel
  <2>6. Consistent(pool, inflight, rx)'
    BY <1>11, <2>1, <2>2, <2>5 DEF Consistent
  <2> QED
    BY <1>1, <2>1, <2>2, <2>3, <2>4, <2>5, <2>6, NextState DEF TypeInv
<1>12. CASE RestartAggregation
  BY <1>2, <1>11, <1>12 DEF RestartAggregation
<1>13. ASSUME NEW e \in Ext, Retry(e) PROVE IInv'
  <2> DEFINE guards == [pool.crash_guards EXCEPT ![e] = NewGuard]
             p      == [pool EXCEPT !.crash_guards = guards]
  <2>1. Restarted(p)
    BY <1>2, <1>13 DEF Retry, PoolShape
  <2>2. guards \in [Ext -> Guard]
    BY <1>2, NewGuardType DEF PoolShape
  <2>3. PoolShape(p) /\ p.processes = pool.processes
    <3> HIDE DEF guards
    <3> QED BY <1>2, <2>2 DEF PoolShape
  <2> HIDE DEF p
  <2> QED
    BY <1>11, <2>1, <2>3
<1>14. CASE MetaArrives
  <2>1. /\ phase = "scan" /\ phase' = "stream"
        /\ todo' \subseteq Ext
        /\ arrived' = [e \in Ext |-> "None"]
        /\ UNCHANGED <<pool, inflight, rx, orphans, overlapped>>
    BY <1>14 DEF MetaArrives
  <2>2. FirstArrival' /\ arrived' \in [Ext -> Status]
    BY <2>1 DEF FirstArrival, Status
  <2>3. Consistent(pool, inflight, rx)'
    BY <1>1, <2>1, <2>2 DEF Consistent, Exclusive, Quiet, StillToCome
  <2> QED
    BY <1>1, <2>1, <2>2, <2>3, NextState DEF TypeInv
<1>15. ASSUME NEW e \in Ext, NEW outcome \in Status \ {"None"}, ExtArrives(e, outcome)
       PROVE  IInv'
  <2> DEFINE kept  == IF FirstArrival THEN [x \in Ext |-> 0] ELSE pool.processes
             procs == IF outcome = "Warm" THEN [kept EXCEPT ![e] = @ + 1] ELSE kept
  <2>1. /\ phase = "stream" /\ e \in todo /\ todo' = todo \ {e}
        /\ arrived' = [arrived EXCEPT ![e] = outcome]
        /\ UNCHANGED <<inflight, rx, orphans, phase, overlapped>>
    BY <1>15 DEF ExtArrives
  <2>2. pool' = [pool EXCEPT !.processes = procs, !.sources = arrived']
    BY <1>15 DEF ExtArrives
  <2>3. arrived' \in [Ext -> Status] /\ ~FirstArrival'
    BY <1>1, <2>1 DEF TypeInv, FirstArrival
  <2>4. kept \in [Ext -> Nat] /\ pool.processes \in [Ext -> Nat]
    BY <1>2 DEF PoolShape
  <2>5. procs \in [Ext -> Nat]
    BY <2>4
  <2>6. PoolShape(pool') /\ pool'.processes = procs /\ pool'.crash_guards = pool.crash_guards
    <3> HIDE DEF procs
    <3> QED BY <1>2, <2>2, <2>3, <2>5 DEF PoolShape
  <2>7. ASSUME NEW x \in Ext \ overlapped
        PROVE  Exclusive(x, pool, inflight, rx)' /\ Quiet(x, pool, rx)'
    <3>1. Exclusive(x, pool, inflight, rx) /\ Quiet(x, pool, rx)
      BY <1>1 DEF Consistent
    <3>2. kept[x] <= pool.processes[x] /\ (x \in todo => kept[x] = 0)
      BY <2>4, <3>1 DEF Exclusive
    <3>3. /\ procs[x] = kept[x] \/ (x = e /\ procs[x] = kept[x] + 1)
          /\ x = e => x \in todo /\ x \notin inflight
      BY <2>1, <2>4, <3>1 DEF Exclusive, StillToCome
    <3> HIDE DEF kept, procs
    <3>4. Exclusive(x, pool, inflight, rx)'
      BY <2>1, <2>3, <2>4, <2>6, <3>1, <3>2, <3>3 DEF Exclusive, StillToCome
    <3> QED
      BY <2>1, <2>6, <3>1, <3>4 DEF Quiet
  <2>8. Consistent(pool, inflight, rx)'
    BY <1>1, <2>1, <2>6, <2>7 DEF Consistent
  <2> QED
    BY <1>1, <2>1, <2>3, <2>8, NextState DEF TypeInv
<1>16. CASE AggregationDone
  <2>1. PICK vector : pool' = AccessAll(pool, vector)
    BY <1>16 DEF AggregationDone
  <2>2. /\ phase = "stream" /\ todo = {} /\ todo' = todo /\ phase' = "idle"
        /\ arrived' = [e \in Ext |-> "None"]
        /\ UNCHANGED <<inflight, rx, orphans, overlapped>>
    BY <1>16 DEF AggregationDone
  <2>3. /\ PoolShape(pool') /\ pool'.crash_guards = pool.crash_guards
        /\ \A x \in Ext : pool'.processes[x] <= pool.processes[x]
        /\ \A x \in Ext : pool'.processes[x] \in Nat /\ pool.processes[x] \in Nat
    BY <1>2, <2>1, AccessAllShape DEF Brings, PoolShape
  <2>4. Consistent(pool, inflight, rx)'
    BY <1>1, <2>2, <2>3 DEF Consistent, Exclusive, Quiet, StillToCome
  <2> QED
    BY <1>1, <2>2, <2>4, NextState DEF TypeInv, Status
<1>17. CASE AggregationLost
  <2>1. /\ phase' = "idle" /\ todo' = {}
        /\ UNCHANGED <<pool, inflight, rx, orphans, arrived, overlapped>>
    BY <1>17 DEF AggregationLost
  <2>2. Consistent(pool, inflight, rx)'
    BY <1>1, <2>1 DEF Consistent, Exclusive, Quiet, StillToCome, FirstArrival
  <2> QED
    BY <1>1, <2>1, <2>2, NextState DEF TypeInv
<1>18. CASE RefreshHealth
  <2>1. /\ UNCHANGED <<inflight, rx, orphans, phase, todo, arrived, overlapped>>
        /\ \E exits \in [Ext -> UNION {Exits(e) : e \in Ext}] :
             /\ \A e \in Ext : exits[e] \in Exits(e)
             /\ \E n : pool' = Reclaimed(Reaped(pool, exits), n)
    BY <1>18 DEF RefreshHealth
  <2>2. PICK exits, n : /\ \A e \in Ext : exits[e] \in Exits(e)
                        /\ pool' = Reclaimed(Reaped(pool, exits), n)
    BY <2>1
  <2>3. \A e \in Ext : exits[e].exited \in Nat /\ exits[e].crashed \in 0 .. pool.processes[e]
    BY <1>2, <2>2 DEF Exits, PoolShape
  <2> DEFINE reaped == Reaped(pool, exits)
  <2>4. /\ PoolShape(reaped)
        /\ \A x \in Ext : reaped.processes[x] <= pool.processes[x]
        /\ \A x \in Ext : (pool.processes[x] = 0 \/ Tripped(pool, x))
                            => reaped.crash_guards[x] = pool.crash_guards[x]
    BY <1>2, <2>3, ReapedShape
  <2> HIDE DEF reaped
  <2>5. Brings(reaped, pool', {}) /\ pool'.crash_guards = reaped.crash_guards
    BY <2>2, <2>4, ReclaimedShape DEF reaped
  <2>6. /\ PoolShape(pool')
        /\ \A x \in Ext : pool'.processes[x] <= pool.processes[x]
    BY <1>2, <2>4, <2>5 DEF Brings, PoolShape
  <2> QED
    BY <2>1, <2>4, <2>5, <2>6, HousekeepingStep
<1>19. ASSUME NEW capacity, SetCapacity(capacity) PROVE IInv'
  <2> DEFINE p == [pool EXCEPT !.lru = Resized(pool.lru, capacity)]
             victims == VictimsOfResize(pool.lru, capacity)
  <2>1. /\ pool' = Evicted(p, victims)
        /\ UNCHANGED <<inflight, rx, orphans, phase, todo, arrived, overlapped>>
    BY <1>19 DEF SetCapacity
  <2>2. /\ PoolShape(p) /\ p.processes = pool.processes
        /\ p.crash_guards = pool.crash_guards
    BY <1>2 DEF PoolShape
  <2> HIDE DEF p, victims
  <2>3. Brings(p, pool', {}) /\ pool'.crash_guards = p.crash_guards
    BY <2>1, <2>2, EvictedShape
  <2>4. /\ PoolShape(pool')
        /\ \A x \in Ext : pool'.processes[x] <= pool.processes[x]
    BY <1>2, <2>2, <2>3 DEF Brings, PoolShape
  <2> QED
    BY <2>1, <2>2, <2>3, <2>4, HousekeepingStep
<1>20. CASE Show \/ Hide \/ UNCHANGED vars
  <2>1. UNCHANGED <<pool, inflight, rx, orphans, phase, todo, arrived, overlapped>>
    BY <1>20 DEF Show, Hide, vars
  <2>2. Consistent(pool, inflight, rx)'
    BY <1>1, <2>1 DEF Consistent, Exclusive, Quiet, StillToCome, FirstArrival
  <2> QED
    BY <1>1, <2>1, <2>2, NextState DEF TypeInv
<1> QED
  BY <1>3, <1>4, <1>5, <1>6, <1>7, <1>8, <1>9, <1>10, <1>12, <1>13, <1>14, <1>15,
     <1>16, <1>17, <1>18, <1>19, <1>20 DEF Next, Arrivals

-----------------------------------------------------------------------------
(* The theorems.                                                           *)

\* The inductive invariant holds in every reachable state.
THEOREM Inductive == Spec => []IInv
<1>1. Init => IInv
  BY IInvInit
<1>2. IInv /\ [Next]_vars => IInv'
  BY IInvNext
<1> QED
  BY <1>1, <1>2, PTL DEF Spec

\* The busy mark, the slot and the client of an extension are handed over
\* together, in every reachable state.
THEOREM OneHolderHolds == Spec => []OneHolder
<1>1. IInv => OneHolder
  BY DEF IInv
<1> QED
  BY <1>1, Inductive, PTL

\* Calls are serialised per extension, and no second client of it exists, as
\* long as none of its requests met an aggregation round.
THEOREM Serialised == Spec => []SerialPerExtension
<1>1. IInv => SerialPerExtension
  <2> SUFFICES ASSUME IInv, NEW e \in Ext \ overlapped
               PROVE  Calls(e) + pool.processes[e] <= 1
    BY DEF SerialPerExtension
  <2>1. TypeInv /\ Exclusive(e, pool, inflight, rx) /\ orphans[e] = 0
    BY DEF IInv, OneHolder
  <2>2. pool.processes[e] \in Nat
    BY <2>1 DEF TypeInv, PoolShape
  <2> DEFINE holding == {c \in Channel : rx[c].ext = e}
  <2>3. Calls(e) = Cardinality(holding) + 0
    BY <2>1 DEF Calls
  <2>4. CASE holding = {}
    <3>1. Cardinality(holding) = 0
      BY <2>4, FS_EmptySet
    <3> HIDE DEF holding
    <3> QED
      BY <2>1, <2>2, <2>3, <3>1 DEF Exclusive
  <2>5. CASE holding # {}
    <3>1. PICK c : c \in holding
      BY <2>5
    <3>2. holding = {c}
      BY <2>1, <3>1 DEF Exclusive
    <3>3. Cardinality(holding) = 1
      BY <3>2, FS_Singleton
    <3>4. pool.processes[e] = 0
      BY <2>1, <2>2, <3>1 DEF Exclusive
    <3> HIDE DEF holding
    <3> QED
      BY <2>3, <3>3, <3>4
  <2> QED
    BY <2>4, <2>5
<1> QED
  BY <1>1, Inductive, PTL

\* No invoke or get_items is under way on an extension whose breaker is open.
THEOREM QuietWhenTripped == Spec => []TrippedIsQuiet
<1>1. IInv => TrippedIsQuiet
  BY DEF IInv
<1> QED
  BY <1>1, Inductive, PTL

\* Whatever a dispatch or the fallback chain does, no guard moves.
LEMMA RequestsKeepGuards ==
    ASSUME NEW p, PoolShape(p), NEW busy, NEW slots,
           \/ \E c \in Channel, e \in Ext : Requested(c, e, p, busy, slots)
           \/ \E store : FallbackStarted(p, busy, slots, store)
    PROVE  pool'.crash_guards = p.crash_guards
<1>1. \A e \in Ext : Taken(p, e).crash_guards = p.crash_guards
  BY DEF Taken, PoolShape
<1>2. pool' = p \/ \E e \in Ext : pool' = Taken(p, e)
  BY DEF Requested, FallbackStarted, Wanted
<1> QED
  BY <1>1, <1>2

\* An open breaker is closed by the Retry button and by nothing else.
THEOREM OnlyRetryCloses == Spec => TripIsSticky
<1> DEFINE Kept == \A e \in Ext \ overlapped' :
                     Tripped(pool, e) => Tripped(pool, e)' \/ Retry(e)
<1>1. ASSUME IInv, Next PROVE Kept
  <2> USE DEF aggregation
  <2> SUFFICES ASSUME NEW x \in Ext \ overlapped', Tripped(pool, x), ~Retry(x)
               PROVE  Tripped(pool, x)'
    OBVIOUS
  <2>1. /\ PoolShape(pool) /\ rx \in [Channel -> Request \cup {NoRequest}]
        /\ x \notin overlapped =>
             Tripped(pool, x) /\ rx["invoke"].ext # x /\ rx["page"].ext # x
    BY <1>1 DEF IInv, TypeInv, TrippedIsQuiet
  <2>2. ASSUME pool'.crash_guards[x] = pool.crash_guards[x] PROVE Tripped(pool, x)'
    BY <2>2 DEF Tripped
  <2>3. ASSUME NEW e \in Ext, DispatchInvoke(e) \/ DispatchFetchPage(e)
        PROVE  Tripped(pool, x)'
    <3>1. pool'.crash_guards = pool.crash_guards
      BY <2>1, <2>3, RequestsKeepGuards DEF DispatchInvoke, DispatchFetchPage, Channel
    <3> QED BY <2>2, <3>1
  <2>4. CASE SyncFallback
    <3>1. pool'.crash_guards = pool.crash_guards
      BY <2>1, <2>4, RequestsKeepGuards DEF SyncFallback
    <3> QED BY <2>2, <3>1
  <2>5. CASE PollInvoke
    <3> DEFINE request == rx["invoke"]
               slots   == [rx EXCEPT !["invoke"] = NoRequest]
               busy    == Freed(inflight, request.ext)
    <3>1. PICK outcome \in Outcomes(request) :
            \/ pool' = Returned(pool, request, outcome) /\ UNCHANGED overlapped
            \/ /\ Requested("page", request.ext, Returned(pool, request, outcome), busy, slots)
               /\ overlapped \subseteq overlapped'
      BY <2>5 DEF PollInvoke, Requested
    <3>2. request \in Request /\ request.ext \in Ext /\ request # NoRequest
      BY <2>1, <2>5, SlotTypes DEF PollInvoke, Channel
    <3>3. Brings(pool, Returned(pool, request, outcome), {request.ext})
      BY <2>1, <3>2, ReturnedShape
    <3>4. x # request.ext
      BY <2>1, <3>1
    <3> HIDE DEF request, slots, busy
    <3>5. pool'.crash_guards = Returned(pool, request, outcome).crash_guards
      BY <3>1, <3>2, <3>3, RequestsKeepGuards DEF Brings, Channel
    <3> QED
      BY <2>2, <3>3, <3>4, <3>5 DEF Brings
  <2>6. CASE PollPage
    <3> DEFINE request == rx["page"]
    <3>1. PICK outcome \in Outcomes(request) :
            \/ pool' = Returned(pool, request, outcome)
            \/ pool' = ReturnedOffPage(pool, request, outcome)
      BY <2>6 DEF PollPage
    <3>2. request \in Request /\ request.ext \in Ext /\ UNCHANGED overlapped
      BY <2>1, <2>6, SlotTypes DEF PollPage, Channel
    <3>3. Brings(pool, pool', {request.ext})
      BY <2>1, <3>1, <3>2, ReturnedShape, ReturnedOffPageShape
    <3> QED
      BY <2>1, <2>2, <3>2, <3>3 DEF Brings
  <2>7. CASE PollFallback
    <3> DEFINE e == rx["fallback"].ext
    <3>1. PICK p, busy, slots, store :
            /\ p = DroppedToStub(pool, e) \/ p = MarkedFailed(pool, e) \/ p = Stored(pool, e)
            /\ FallbackStarted(p, busy, slots, store)
      BY <2>7 DEF PollFallback
    <3>2. e \in Ext
      BY <2>1, <2>7, SlotTypes DEF PollFallback, Channel
    <3> HIDE DEF e
    <3>3. PoolShape(p) /\ p.crash_guards = pool.crash_guards
      <4>1. CASE p = DroppedToStub(pool, e)
        BY <2>1, <3>2, <4>1, DroppedShape DEF Brings
      <4>2. CASE p = MarkedFailed(pool, e)
        BY <2>1, <3>2, <4>2, MarkedFailedShape DEF Brings
      <4>3. CASE p = Stored(pool, e)
        BY <2>1, <3>2, <4>3, StoredShape DEF Brings
      <4> QED BY <3>1, <4>1, <4>2, <4>3
    <3>4. pool'.crash_guards = p.crash_guards
      BY <3>1, <3>3, RequestsKeepGuards
    <3> QED
      BY <2>2, <3>3, <3>4
  <2>8. ASSUME NEW e \in Ext, Retry(e) PROVE Tripped(pool, x)'
    <3>1. e # x
      BY <2>8
    <3>2. pool' = [pool EXCEPT !.crash_guards[e] = NewGuard]
      BY <2>8 DEF Retry, Restarted
    <3> QED
      BY <2>1, <2>2, <3>1, <3>2 DEF PoolShape
  <2>9. CASE Arrivals
    BY <2>1, <2>2, <2>9 DEF Arrivals, ExtArrives, PoolShape
  <2>10. CASE AggregationDone
    BY <2>1, <2>2, <2>10, AccessAllShape DEF AggregationDone
  <2>11. CASE RefreshHealth
    <3>1. PICK exits, n : /\ \A e \in Ext : exits[e] \in Exits(e)
                          /\ pool' = Reclaimed(Reaped(pool, exits), n)
      BY <2>11 DEF RefreshHealth
    <3>2. \A e \in Ext : exits[e].exited \in Nat /\ exits[e].crashed \in 0 .. pool.processes[e]
      BY <2>1, <3>1 DEF Exits, PoolShape
    <3>3. /\ PoolShape(Reaped(pool, exits))
          /\ Reaped(pool, exits).crash_guards[x] = pool.crash_guards[x]
      BY <2>1, <3>2, ReapedShape
    <3> QED
      BY <2>2, <3>1, <3>3, ReclaimedShape
  <2>12. ASSUME NEW capacity, SetCapacity(capacity) PROVE Tripped(pool, x)'
    <3> DEFINE p == [pool EXCEPT !.lru = Resized(pool.lru, capacity)]
    <3>1. PoolShape(p) /\ p.crash_guards = pool.crash_guards
      BY <2>1 DEF PoolShape
    <3>2. pool' = Evicted(p, VictimsOfResize(pool.lru, capacity))
      BY <2>12 DEF SetCapacity
    <3> HIDE DEF p
    <3> QED
      BY <2>2, <3>1, <3>2, EvictedShape
  <2>13. CASE \/ \E c \in Channel : PollDisconnected(c)
              \/ \E e \in Ext : OrphanFinishes(e)
              \/ RestartAggregation \/ MetaArrives \/ AggregationLost \/ Show \/ Hide
    BY <2>2, <2>13 DEF PollDisconnected, OrphanFinishes, RestartAggregation, Restarted,
                       MetaArrives, AggregationLost, Show, Hide
  <2> QED
    BY <1>1, <2>3, <2>4, <2>5, <2>6, <2>7, <2>8, <2>9, <2>10, <2>11, <2>12, <2>13 DEF Next
<1>2. IInv /\ [Next]_vars => [Kept]_vars
  BY <1>1
<1> QED
  BY <1>2, Inductive, PTL DEF Spec, TripIsSticky

-----------------------------------------------------------------------------
(* Recursion along a sequence.                                              *)

\* A set of numbers that is not empty has a least one.
LEMMA LeastNat ==
    ASSUME NEW T, T \subseteq Nat, T # {}
    PROVE  \E m \in T : \A n \in T : m <= n
<1> DEFINE R == OpToRel(<, Nat)
<1>1. IsWellFoundedOn(R, Nat)
  BY NatLessThanWellFounded
<1>2. \A m, n \in Nat : n < m => <<n, m>> \in R
  BY DEF OpToRel
<1> HIDE DEF R
<1>3. PICK m \in T : \A n \in T : ~(<<n, m>> \in R)
  BY <1>1, WFMin
<1>4. \A n \in T : ~(n < m)
  BY <1>2, <1>3
<1>5. m \in Nat /\ \A n \in T : n \in Nat
  OBVIOUS
<1> QED
  BY <1>4, <1>5

\* Induction: a set with 0 and every successor has all numbers.
LEMMA NatInd ==
    ASSUME NEW T, 0 \in T, \A n \in Nat : n \in T => n + 1 \in T
    PROVE  Nat \subseteq T
<1> SUFFICES ASSUME Nat \ T # {} PROVE FALSE
  OBVIOUS
<1>1. PICK m \in Nat \ T : \A n \in Nat \ T : m <= n
  BY LeastNat
<1>2. m # 0 /\ m - 1 \in Nat /\ m - 1 \notin Nat \ T
  BY <1>1
<1> QED BY <1>1, <1>2

\* f is computed step by step, up to last.
RunsBy(f, start, step1, last) ==
    f = [i \in 0 .. last |-> IF i = 0 THEN start ELSE step1[<<f[i - 1], i>>]]

\* What is computed element by element exists, and stays in the set the steps
\* stay in.
LEMMA Recursion ==
    ASSUME NEW D, NEW start \in D, NEW step1 \in [D \X Nat -> D], NEW last \in Nat
    PROVE  \E f \in [0 .. last -> D] : RunsBy(f, start, step1, last)
<1> DEFINE Runs(f, n) ==
             f = [i \in 0 .. n |-> IF i = 0 THEN start ELSE step1[<<f[i - 1], i>>]]
           T == {n \in Nat : \E f \in [0 .. n -> D] : Runs(f, n)}
<1>1. 0 \in T
  <2> DEFINE f == [i \in 0 .. 0 |-> start]
  <2>1. f \in [0 .. 0 -> D] /\ Runs(f, 0)
    OBVIOUS
  <2> QED BY <2>1
<1>2. ASSUME NEW n \in Nat, n \in T PROVE n + 1 \in T
  <2>1. PICK f \in [0 .. n -> D] : Runs(f, n)
    BY <1>2
  <2> DEFINE h == [i \in 0 .. n + 1 |-> IF i \in 0 .. n THEN f[i] ELSE step1[<<f[n], n + 1>>]]
  <2>2. h \in [0 .. n + 1 -> D]
    <3>1. f[n] \in D /\ <<f[n], n + 1>> \in D \X Nat
      OBVIOUS
    <3> QED BY <3>1
  <2>3. \A i \in 0 .. n + 1 : h[i] = IF i = 0 THEN start ELSE step1[<<h[i - 1], i>>]
    <3> SUFFICES ASSUME NEW i \in 0 .. n + 1
                 PROVE  h[i] = IF i = 0 THEN start ELSE step1[<<h[i - 1], i>>]
      OBVIOUS
    <3>1. CASE i \in 0 .. n
      <4>1. h[i] = f[i] /\ (i # 0 => h[i - 1] = f[i - 1])
        BY <3>1
      <4>2. f[i] = IF i = 0 THEN start ELSE step1[<<f[i - 1], i>>]
        BY <2>1, <3>1
      <4> HIDE DEF h
      <4> QED BY <4>1, <4>2
    <3>2. CASE i = n + 1
      <4>1. i # 0 /\ i - 1 = n /\ h[i - 1] = f[n] /\ h[i] = step1[<<f[n], i>>]
        BY <3>2
      <4> HIDE DEF h
      <4> QED BY <4>1
    <3> QED BY <3>1, <3>2
  <2> HIDE DEF h
  <2>4. Runs(h, n + 1)
    BY <2>2, <2>3
  <2> HIDE DEF Runs
  <2>5. \E f0 \in [0 .. n + 1 -> D] : Runs(f0, n + 1)
    BY <2>2, <2>4
  <2> QED BY <2>5
<1> HIDE DEF T
<1>3. last \in T
  BY <1>1, <1>2, NatInd
<1> QED
  BY <1>3 DEF T, RunsBy

-----------------------------------------------------------------------------
(* Sequences of extensions.                                                 *)

\* One element more.
LEMMA AppendedIds ==
    ASSUME NEW s \in Seq(Ext), NEW x \in Ext
    PROVE  /\ Append(s, x) \in Seq(Ext) /\ Len(Append(s, x)) = Len(s) + 1
           /\ ToSet(Append(s, x)) = ToSet(s) \cup {x}
<1> DEFINE t == Append(s, x)
<1>1. /\ t \in Seq(Ext) /\ Len(t) = Len(s) + 1 /\ Len(s) \in Nat
      /\ t[Len(s) + 1] = x /\ \A i \in 1 .. Len(s) : t[i] = s[i]
  OBVIOUS
<1> HIDE DEF t
<1>2. DOMAIN t = 1 .. Len(s) + 1 /\ DOMAIN s = 1 .. Len(s)
  BY <1>1
<1>3. ToSet(t) = ToSet(s) \cup {x}
  BY <1>1, <1>2 DEF ToSet
<1> QED BY <1>1, <1>3 DEF t

\* One sequence after the other.
LEMMA JoinedIds ==
    ASSUME NEW s \in Seq(Ext), NEW t \in Seq(Ext)
    PROVE  /\ s \o t \in Seq(Ext) /\ Len(s \o t) = Len(s) + Len(t)
           /\ ToSet(s \o t) = ToSet(s) \cup ToSet(t)
<1> DEFINE u == s \o t
<1>1. /\ u \in Seq(Ext) /\ Len(u) = Len(s) + Len(t) /\ Len(s) \in Nat /\ Len(t) \in Nat
      /\ \A i \in 1 .. Len(s) : u[i] = s[i]
      /\ \A i \in 1 .. Len(t) : u[Len(s) + i] = t[i]
  OBVIOUS
<1> HIDE DEF u
<1>2. DOMAIN u = 1 .. Len(s) + Len(t) /\ DOMAIN s = 1 .. Len(s) /\ DOMAIN t = 1 .. Len(t)
  BY <1>1
<1>3. ASSUME NEW x \in ToSet(u) PROVE x \in ToSet(s) \cup ToSet(t)
  <2>1. PICK i \in 1 .. Len(s) + Len(t) : x = u[i]
    BY <1>2, <1>3 DEF ToSet
  <2>2. CASE i \in 1 .. Len(s)
    BY <1>1, <1>2, <2>1, <2>2 DEF ToSet
  <2>3. CASE i \notin 1 .. Len(s)
    <3>1. i - Len(s) \in 1 .. Len(t) /\ i = Len(s) + (i - Len(s))
      BY <1>1, <2>1, <2>3
    <3>2. x = t[i - Len(s)]
      BY <1>1, <2>1, <3>1
    <3> QED BY <1>2, <3>1, <3>2 DEF ToSet
  <2> QED BY <2>2, <2>3
<1>4. ASSUME NEW x \in ToSet(s) PROVE x \in ToSet(u)
  <2>1. PICK i \in 1 .. Len(s) : x = s[i]
    BY <1>2, <1>4 DEF ToSet
  <2>2. i \in DOMAIN u /\ x = u[i]
    BY <1>1, <1>2, <2>1
  <2> QED BY <2>2 DEF ToSet
<1>5. ASSUME NEW x \in ToSet(t) PROVE x \in ToSet(u)
  <2>1. PICK i \in 1 .. Len(t) : x = t[i]
    BY <1>2, <1>5 DEF ToSet
  <2>2. Len(s) + i \in DOMAIN u /\ x = u[Len(s) + i]
    BY <1>1, <1>2, <2>1
  <2> QED BY <2>2 DEF ToSet
<1> QED BY <1>1, <1>3, <1>4, <1>5 DEF u

\* What Without leaves of a sequence, and in which set.
LEMMA WithoutIds ==
    ASSUME NEW seq \in Seq(Ext), NEW ids
    PROVE  /\ Without(seq, ids) \in Seq(Ext) /\ Len(Without(seq, ids)) <= Len(seq)
           /\ ToSet(Without(seq, ids)) = ToSet(seq) \ ids
<1> DEFINE last == Len(seq)
           start == <<>>
           Step(d, i) == IF i \in 1 .. Len(seq)
                         THEN IF seq[i] \in ids THEN d ELSE Append(d, seq[i]) ELSE d
           step1 == [d \in Seq(Ext) \X Nat |-> Step(d[1], d[2])]
           Runs(f) == f = [i \in 0 .. Len(seq) |->
                         IF i = 0 THEN <<>>
                         ELSE IF seq[i] \in ids THEN f[i - 1]
                              ELSE Append(f[i - 1], seq[i])]
<1>1. ASSUME NEW d \in Seq(Ext), NEW i \in Nat PROVE Step(d, i) \in Seq(Ext)
  OBVIOUS
<1>2. step1 \in [Seq(Ext) \X Nat -> Seq(Ext)]
  BY <1>1
<1>3. start \in Seq(Ext) /\ last \in Nat
  OBVIOUS
<1>4. \A d \in Seq(Ext), i \in Nat : step1[<<d, i>>] = Step(d, i)
  OBVIOUS
<1> HIDE DEF step1
<1>5. PICK f \in [0 .. last -> Seq(Ext)] : RunsBy(f, start, step1, last)
  <2> HIDE DEF start, last
  <2> QED BY <1>2, <1>3, Recursion
<1>6. ASSUME NEW i \in 0 .. Len(seq), i # 0
      PROVE  f[i] = IF seq[i] \in ids THEN f[i - 1] ELSE Append(f[i - 1], seq[i])
  <2>1. i - 1 \in 0 .. Len(seq) /\ i \in Nat /\ i \in 1 .. Len(seq)
    BY <1>3, <1>6
  <2>2. f[i] = step1[<<f[i - 1], i>>] /\ f[i - 1] \in Seq(Ext)
    BY <1>5, <1>6, <2>1 DEF RunsBy
  <2> QED BY <2>1, <2>2, <1>4
<1>7. f[0] = <<>>
  BY <1>3, <1>5 DEF RunsBy
<1>8. Runs(f)
  <2>1. f = [i \in 0 .. last |-> IF i = 0 THEN start ELSE step1[<<f[i - 1], i>>]]
    BY <1>5 DEF RunsBy
  <2> QED BY <2>1, <1>6, <1>7
<1> DEFINE kept == CHOOSE f0 : Runs(f0)
<1>9. Runs(kept)
  BY <1>8
<1>10. Without(seq, ids) = kept[Len(seq)]
  BY DEF Without
<1> HIDE DEF kept
<1> DEFINE Good(i) ==
             /\ kept[i] \in Seq(Ext) /\ Len(kept[i]) <= i
             /\ \A x : x \in ToSet(kept[i]) <=> x \notin ids /\ \E j \in 1 .. i : seq[j] = x
           T == {i \in Nat : i \in 0 .. Len(seq) => Good(i)}
<1>11. 0 \in T
  <2>1. kept[0] = <<>>
    BY <1>3, <1>9
  <2>2. <<>> \in Seq(Ext) /\ Len(<<>>) = 0 /\ ToSet(<<>>) = {}
    BY DEF ToSet
  <2>3. \A x : ~ \E j \in 1 .. 0 : seq[j] = x
    OBVIOUS
  <2>4. Good(0)
    BY <2>1, <2>2, <2>3
  <2> QED BY <2>4
<1>12. ASSUME NEW i \in Nat, i \in T PROVE i + 1 \in T
  <2> SUFFICES ASSUME i + 1 \in 0 .. Len(seq) PROVE Good(i + 1)
    OBVIOUS
  <2>1. i \in 0 .. Len(seq) /\ i + 1 \in 1 .. Len(seq) /\ (i + 1) - 1 = i /\ i + 1 # 0
    BY <1>3
  <2>2. Good(i)
    BY <1>12, <2>1
  <2>3. kept[i + 1] = IF seq[i + 1] \in ids THEN kept[i] ELSE Append(kept[i], seq[i + 1])
    BY <1>9, <2>1
  <2>4. seq[i + 1] \in Ext
    BY <2>1
  <2>5. \A x : (\E j \in 1 .. i + 1 : seq[j] = x)
                 <=> (\E j \in 1 .. i : seq[j] = x) \/ seq[i + 1] = x
    BY <2>1
  <2>6. CASE seq[i + 1] \in ids
    BY <2>2, <2>3, <2>5, <2>6
  <2>7. CASE seq[i + 1] \notin ids
    <3>1. /\ kept[i + 1] \in Seq(Ext) /\ Len(kept[i + 1]) = Len(kept[i]) + 1
          /\ ToSet(kept[i + 1]) = ToSet(kept[i]) \cup {seq[i + 1]}
      BY <2>2, <2>3, <2>4, <2>7, AppendedIds
    <3>2. Len(kept[i]) \in Nat
      BY <2>2
    <3> QED BY <2>2, <2>5, <2>7, <3>1, <3>2
  <2> QED BY <2>6, <2>7
<1> HIDE DEF T
<1>13. Len(seq) \in T
  BY <1>3, <1>11, <1>12, NatInd
<1>14. Good(Len(seq))
  BY <1>3, <1>13 DEF T
<1>15. ToSet(seq) = {seq[j] : j \in 1 .. Len(seq)}
  BY DEF ToSet
<1> QED
  BY <1>10, <1>14, <1>15

\* Nothing leaves a sequence but the one id that is removed.
LEMMA RemovedFirstIds ==
    ASSUME NEW s \in Seq(Ext), NEW e \in Ext
    PROVE  /\ RemoveFirst(s, e) \in Seq(Ext) /\ Len(RemoveFirst(s, e)) <= Len(s)
           /\ \A x \in ToSet(s) : x = e \/ x \in ToSet(RemoveFirst(s, e))
<1>1. CASE ~ \E i \in 1 .. Len(s) : s[i] = e
  BY <1>1 DEF RemoveFirst
<1>2. CASE \E i \in 1 .. Len(s) : s[i] = e
  <2> DEFINE T == {i \in 1 .. Len(s) : s[i] = e}
             k == CHOOSE x \in T : \A y \in T : x =< y
             fore == SubSeq(s, 1, k - 1)
             aft  == SubSeq(s, k + 1, Len(s))
  <2>1. T # {} /\ T \subseteq Nat
    BY <1>2
  <2>2. k \in T
    BY <2>1, LeastNat
  <2>3. RemoveFirst(s, e) = fore \o aft
    BY <1>2, <2>1 DEF RemoveFirst, RemoveAt, SelectInSeq, Min
  <2> HIDE DEF k
  <2>4. k \in 1 .. Len(s) /\ s[k] = e /\ Len(s) \in Nat
    BY <2>2
  <2>5. /\ fore \in Seq(Ext) /\ Len(fore) = k - 1
        /\ \A i \in 1 .. k - 1 : fore[i] = s[i]
    BY <2>4
  <2>6. /\ aft \in Seq(Ext) /\ Len(aft) = Len(s) - k
        /\ \A i \in 1 .. Len(s) - k : aft[i] = s[k + i]
    BY <2>4
  <2> HIDE DEF fore, aft
  <2>7. /\ fore \o aft \in Seq(Ext) /\ Len(fore \o aft) = Len(fore) + Len(aft)
        /\ ToSet(fore \o aft) = ToSet(fore) \cup ToSet(aft)
    BY <2>5, <2>6, JoinedIds
  <2>8. ASSUME NEW x \in ToSet(s), x # e PROVE x \in ToSet(fore) \cup ToSet(aft)
    <3>1. PICK i \in 1 .. Len(s) : s[i] = x
      BY <2>8 DEF ToSet
    <3>2. CASE i < k
      <4>1. i \in 1 .. k - 1 /\ i \in DOMAIN fore
        BY <2>4, <2>5, <3>2
      <4> QED BY <2>5, <3>1, <4>1 DEF ToSet
    <3>3. CASE i > k
      <4>1. i - k \in 1 .. Len(s) - k /\ k + (i - k) = i /\ i - k \in DOMAIN aft
        BY <2>4, <2>6, <3>3
      <4>2. aft[i - k] = x
        BY <2>6, <3>1, <4>1
      <4> QED BY <4>1, <4>2 DEF ToSet
    <3> QED BY <2>4, <2>8, <3>1, <3>2, <3>3
  <2>9. Len(fore \o aft) <= Len(s)
    BY <2>4, <2>5, <2>6, <2>7
  <2> QED BY <2>3, <2>7, <2>8, <2>9
<1> QED BY <1>1, <1>2

-----------------------------------------------------------------------------
(* The keep-alive set.                                                     *)

LruOK(lru) ==
    lru \in [order : Seq(Ext), capacity : 1 .. MaxCapacity] /\ Len(lru.order) <= lru.capacity

\* A part of a sequence, and what it has in common with the whole.
LEMMA PartIds ==
    ASSUME NEW s \in Seq(Ext), NEW m \in 1 .. Len(s) + 1, NEW n \in m - 1 .. Len(s)
    PROVE  /\ SubSeq(s, m, n) \in Seq(Ext) /\ Len(SubSeq(s, m, n)) = n - m + 1
           /\ \A i \in m .. n : s[i] \in ToSet(SubSeq(s, m, n))
<1> DEFINE t == SubSeq(s, m, n)
<1>1. /\ t \in Seq(Ext) /\ Len(t) = n - m + 1
      /\ \A i \in 1 .. n - m + 1 : t[i] = s[m + i - 1]
  OBVIOUS
<1> HIDE DEF t
<1>2. DOMAIN t = 1 .. n - m + 1
  BY <1>1
<1>3. ASSUME NEW i \in m .. n PROVE s[i] \in ToSet(t)
  <2>1. i - m + 1 \in 1 .. n - m + 1 /\ m + (i - m + 1) - 1 = i
    OBVIOUS
  <2>2. t[i - m + 1] = s[i]
    BY <1>1, <2>1
  <2> QED BY <1>2, <2>1, <2>2 DEF ToSet
<1> QED BY <1>1, <1>3 DEF t

\* The other way round it is a sequence of the same ids.
LEMMA ReversedIds ==
    ASSUME NEW s \in Seq(Ext)
    PROVE  Reverse(s) \in Seq(Ext) /\ ToSet(s) \subseteq ToSet(Reverse(s))
<1> DEFINE t == Reverse(s)
<1>1. Len(s) \in Nat /\ t = [i \in 1 .. Len(s) |-> s[(Len(s) - i) + 1]]
  BY DEF Reverse
<1> HIDE DEF t
<1>2. \A i \in 1 .. Len(s) : (Len(s) - i) + 1 \in 1 .. Len(s)
  BY <1>1
<1>3. t \in [1 .. Len(s) -> Ext]
  BY <1>1, <1>2
<1>4. t \in Seq(Ext) /\ DOMAIN t = 1 .. Len(s)
  BY <1>1, <1>3
<1>5. ASSUME NEW x \in ToSet(s) PROVE x \in ToSet(t)
  <2>1. PICK i \in 1 .. Len(s) : s[i] = x
    BY <1>5 DEF ToSet
  <2>2. (Len(s) - i) + 1 \in 1 .. Len(s) /\ (Len(s) - ((Len(s) - i) + 1)) + 1 = i
    BY <1>1
  <2>3. t[(Len(s) - i) + 1] = x
    BY <1>1, <2>1, <2>2
  <2> QED BY <1>4, <2>2, <2>3 DEF ToSet
<1> QED BY <1>4, <1>5 DEF t

\* access_at: the id is in the set, no other id is lost but as a victim, and
\* the set stays within its capacity.
LEMMA AccessedIds ==
    ASSUME NEW lru, LruOK(lru), NEW e \in Ext
    PROVE  /\ LruOK(Accessed(lru, e)) /\ e \in ToSet(Accessed(lru, e).order)
           /\ OthersAmong(VictimsOfAccess(lru, e), e) \in Seq(Ext)
           /\ e \notin ToSet(OthersAmong(VictimsOfAccess(lru, e), e))
           /\ \A x \in ToSet(lru.order) :
                \/ x \in ToSet(Accessed(lru, e).order)
                \/ x \in ToSet(OthersAmong(VictimsOfAccess(lru, e), e))
<1> DEFINE touched == Touched(lru, e)
           order   == Accessed(lru, e).order
           victims == VictimsOfAccess(lru, e)
           others  == OthersAmong(victims, e)
           rest    == RemoveFirst(lru.order, e)
<1>1. /\ lru.order \in Seq(Ext) /\ Len(lru.order) \in Nat
      /\ lru.capacity \in 1 .. MaxCapacity /\ Len(lru.order) <= lru.capacity
      /\ MaxCapacity \in Nat
  BY CapacityAssumption DEF LruOK
<1>2. /\ rest \in Seq(Ext) /\ Len(rest) <= Len(lru.order) /\ Len(rest) \in Nat
      /\ \A x \in ToSet(lru.order) : x = e \/ x \in ToSet(rest)
  BY <1>1, RemovedFirstIds
<1>3. /\ <<e>> \in Seq(Ext) /\ Len(<<e>>) = 1 /\ ToSet(<<e>>) = {e}
  <2>1. <<e>> \in Seq(Ext) /\ Len(<<e>>) = 1 /\ DOMAIN <<e>> = {1} /\ <<e>>[1] = e
    OBVIOUS
  <2> QED BY <2>1 DEF ToSet
<1>4. touched = <<e>> \o rest
  BY DEF Touched
<1> HIDE DEF rest
<1>5. /\ touched \in Seq(Ext) /\ Len(touched) = 1 + Len(rest)
      /\ ToSet(touched) = {e} \cup ToSet(rest) /\ touched[1] = e
  <2>1. /\ touched \in Seq(Ext) /\ Len(touched) = 1 + Len(rest)
        /\ ToSet(touched) = {e} \cup ToSet(rest)
    BY <1>2, <1>3, <1>4, JoinedIds
  <2>2. touched[1] = e
    BY <1>2, <1>4
  <2> QED BY <2>1, <2>2
<1>6. Accessed(lru, e) = [order |-> IF Len(touched) > lru.capacity
                                    THEN Front(touched) ELSE touched,
                          capacity |-> lru.capacity]
  BY DEF Accessed, LruOK
<1>7. victims = IF Len(touched) > lru.capacity THEN <<Last(touched)>> ELSE <<>>
  BY DEF VictimsOfAccess
<1> HIDE DEF touched, victims
<1>8. CASE Len(touched) > lru.capacity
  <2> DEFINE z == Last(touched)
             fore == SubSeq(touched, 1, Len(touched) - 1)
  <2>1. order = fore /\ victims = <<z>> /\ z = touched[Len(touched)]
    BY <1>6, <1>7, <1>8 DEF Front, Last
  <2>2. Len(touched) \in 2 .. lru.capacity + 1 /\ z \in Ext
    BY <1>1, <1>2, <1>5, <1>8, <2>1
  <2>3. /\ fore \in Seq(Ext) /\ Len(fore) = Len(touched) - 1
        /\ \A i \in 1 .. Len(touched) - 1 : touched[i] \in ToSet(fore)
    BY <1>5, <2>2, PartIds
  <2> HIDE DEF z, fore
  <2>4. e \in ToSet(fore)
    BY <1>5, <2>2, <2>3
  <2>5. <<z>> \in Seq(Ext) /\ ToSet(<<z>>) = {z}
    <3>1. <<z>> \in Seq(Ext) /\ DOMAIN <<z>> = {1} /\ <<z>>[1] = z
      BY <2>2
    <3> QED BY <3>1 DEF ToSet
  <2>6. others \in Seq(Ext) /\ ToSet(others) = {z} \ {e}
    BY <2>1, <2>5, WithoutIds DEF OthersAmong
  <2>7. ASSUME NEW x \in ToSet(lru.order) PROVE x \in ToSet(fore) \/ x \in ToSet(others)
    <3>1. CASE x = e
      BY <2>4, <3>1
    <3>2. CASE x # e
      <4>1. x \in ToSet(touched)
        BY <1>2, <1>5, <3>2
      <4>2. PICK i \in 1 .. Len(touched) : touched[i] = x
        BY <1>5, <4>1 DEF ToSet
      <4>3. CASE i = Len(touched)
        BY <2>1, <2>6, <3>2, <4>2, <4>3
      <4>4. CASE i # Len(touched)
        BY <2>2, <2>3, <4>2, <4>4
      <4> QED BY <4>3, <4>4
    <3> QED BY <3>1, <3>2
  <2>8. LruOK(Accessed(lru, e))
    BY <1>1, <1>6, <2>1, <2>2, <2>3 DEF LruOK
  <2> HIDE DEF others
  <2> QED BY <2>1, <2>4, <2>6, <2>7, <2>8 DEF others, victims
<1>9. CASE ~(Len(touched) > lru.capacity)
  <2>1. order = touched /\ victims = <<>>
    BY <1>6, <1>7, <1>9
  <2>2. <<>> \in Seq(Ext) /\ ToSet(<<>>) = {}
    <3>1. <<>> \in Seq(Ext) /\ DOMAIN <<>> = {}
      OBVIOUS
    <3> QED BY <3>1 DEF ToSet
  <2>3. others \in Seq(Ext) /\ ToSet(others) = {}
    BY <2>1, <2>2, WithoutIds DEF OthersAmong
  <2>4. LruOK(Accessed(lru, e))
    BY <1>1, <1>2, <1>5, <1>6, <1>9 DEF LruOK
  <2> HIDE DEF others
  <2> QED BY <1>2, <1>5, <2>1, <2>3, <2>4 DEF others, victims
<1> QED BY <1>8, <1>9

\* The loop of finish_aggregation: whatever was in the set, and every client
\* of the vector, is in the set or among the victims in the end.
LEMMA AccessedInTurnIds ==
    ASSUME NEW lru, LruOK(lru), NEW ids \in Seq(Ext)
    PROVE  /\ LruOK(AccessedInTurn(lru, ids).lru)
           /\ AccessedInTurn(lru, ids).victims \in Seq(Ext)
           /\ \A x \in ToSet(lru.order) \cup ToSet(ids) :
                \/ x \in ToSet(AccessedInTurn(lru, ids).lru.order)
                \/ x \in ToSet(AccessedInTurn(lru, ids).victims)
<1> DEFINE Sets == {set \in [order : Seq(Ext), capacity : 1 .. MaxCapacity] :
                      Len(set.order) <= set.capacity}
           Accs == [lru : Sets, victims : Seq(Ext)]
           Access(acc, id) ==
             [lru     |-> Accessed(acc.lru, id),
              victims |-> acc.victims \o OthersAmong(VictimsOfAccess(acc.lru, id), id)]
           start == [lru |-> lru, victims |-> <<>>]
           last == Len(ids)
           Step(acc, i) == IF i \in 1 .. Len(ids) THEN Access(acc, ids[i]) ELSE acc
           step1 == [a \in Accs \X Nat |-> Step(a[1], a[2])]
           Runs(f) == f = [i \in 0 .. Len(ids) |->
                             IF i = 0 THEN [lru |-> lru, victims |-> <<>>]
                             ELSE Access(f[i - 1], ids[i])]
           Held(acc) == ToSet(acc.lru.order) \cup ToSet(acc.victims)
<1>1. \A set : set \in Sets <=> LruOK(set)
  BY DEF LruOK
<1> HIDE DEF Sets
<1>2. ASSUME NEW acc \in Accs, NEW id \in Ext
      PROVE  Access(acc, id) \in Accs /\ Held(acc) \cup {id} \subseteq Held(Access(acc, id))
  <2> DEFINE set    == Accessed(acc.lru, id)
             others == OthersAmong(VictimsOfAccess(acc.lru, id), id)
             both   == acc.victims \o others
  <2>1. LruOK(acc.lru) /\ acc.victims \in Seq(Ext)
    BY <1>1
  <2>2. /\ LruOK(set) /\ id \in ToSet(set.order) /\ others \in Seq(Ext)
        /\ \A x \in ToSet(acc.lru.order) : x \in ToSet(set.order) \/ x \in ToSet(others)
    BY <2>1, AccessedIds
  <2>3. Access(acc, id) = [lru |-> set, victims |-> both]
    OBVIOUS
  <2> HIDE DEF set, others
  <2>4. both \in Seq(Ext) /\ ToSet(both) = ToSet(acc.victims) \cup ToSet(others)
    BY <2>1, <2>2, JoinedIds
  <2> HIDE DEF both, Access
  <2>5. set \in Sets
    BY <1>1, <2>2
  <2> QED BY <2>2, <2>3, <2>4, <2>5
<1> HIDE DEF Access
<1>3. ASSUME NEW acc \in Accs, NEW i \in Nat PROVE Step(acc, i) \in Accs
  BY <1>2
<1>4. step1 \in [Accs \X Nat -> Accs]
  BY <1>3
<1>5. start \in Accs /\ last \in Nat
  <2>1. <<>> \in Seq(Ext) /\ lru \in Sets
    BY <1>1
  <2> QED BY <2>1
<1>6. \A acc \in Accs, i \in Nat : step1[<<acc, i>>] = Step(acc, i)
  OBVIOUS
<1> HIDE DEF step1, Accs
<1>7. PICK f \in [0 .. last -> Accs] : RunsBy(f, start, step1, last)
  <2> HIDE DEF start, last
  <2> QED BY <1>4, <1>5, Recursion
<1>8. ASSUME NEW i \in 0 .. Len(ids), i # 0
      PROVE  f[i] = Access(f[i - 1], ids[i])
  <2>1. i - 1 \in 0 .. Len(ids) /\ i \in Nat /\ i \in 1 .. Len(ids)
    BY <1>5, <1>8
  <2>2. f[i] = step1[<<f[i - 1], i>>] /\ f[i - 1] \in Accs
    BY <1>7, <1>8, <2>1 DEF RunsBy
  <2> QED BY <2>1, <2>2, <1>6
<1>9. f[0] = start
  BY <1>5, <1>7 DEF RunsBy
<1>10. Runs(f)
  <2>1. f = [i \in 0 .. last |-> IF i = 0 THEN start ELSE step1[<<f[i - 1], i>>]]
    BY <1>7 DEF RunsBy
  <2> QED BY <2>1, <1>8, <1>9
<1> DEFINE after == CHOOSE f0 : Runs(f0)
<1>11. Runs(after)
  BY <1>10
<1>12. AccessedInTurn(lru, ids) = after[Len(ids)]
  BY DEF AccessedInTurn, Access
<1> HIDE DEF after
<1> DEFINE Good(i) ==
             /\ after[i] \in Accs
             /\ ToSet(lru.order) \cup {ids[j] : j \in 1 .. i} \subseteq Held(after[i])
           T == {i \in Nat : i \in 0 .. Len(ids) => Good(i)}
<1>13. 0 \in T
  <2>1. after[0] = start
    BY <1>5, <1>11
  <2>2. {ids[j] : j \in 1 .. 0} = {} /\ ToSet(lru.order) \subseteq Held(start)
    OBVIOUS
  <2>3. Good(0)
    BY <1>5, <2>1, <2>2
  <2> QED BY <2>3
<1>14. ASSUME NEW i \in Nat, i \in T PROVE i + 1 \in T
  <2> SUFFICES ASSUME i + 1 \in 0 .. Len(ids) PROVE Good(i + 1)
    OBVIOUS
  <2>1. i \in 0 .. Len(ids) /\ i + 1 \in 1 .. Len(ids) /\ (i + 1) - 1 = i /\ i + 1 # 0
    BY <1>5
  <2>2. Good(i)
    BY <1>14, <2>1
  <2>3. after[i + 1] = Access(after[i], ids[i + 1])
    BY <1>11, <2>1
  <2>4. ids[i + 1] \in Ext
    BY <2>1
  <2>5. {ids[j] : j \in 1 .. i + 1} = {ids[j] : j \in 1 .. i} \cup {ids[i + 1]}
    BY <2>1
  <2>6. /\ after[i + 1] \in Accs
        /\ Held(after[i]) \cup {ids[i + 1]} \subseteq Held(after[i + 1])
    BY <1>2, <2>2, <2>3, <2>4
  <2> HIDE DEF Held
  <2> QED BY <2>2, <2>5, <2>6
<1> HIDE DEF T
<1>15. Len(ids) \in T
  BY <1>5, <1>13, <1>14, NatInd
<1>16. Good(Len(ids))
  BY <1>5, <1>15 DEF T
<1>17. ToSet(ids) = {ids[j] : j \in 1 .. Len(ids)}
  BY DEF ToSet
<1> QED
  BY <1>1, <1>12, <1>16, <1>17 DEF Accs

-----------------------------------------------------------------------------
(* The calls on the pool, and the keep-alive set.                          *)

\* The extensions of S have their clients in the keep-alive set.
Covered(p, S) == \A x \in S : p.processes[x] > 0 => x \in ToSet(p.lru.order)

\* evict_warm: a client that is in the set, or is a victim and alone, is in the
\* set afterwards or gone.
LEMMA EvictedCovers ==
    ASSUME NEW p, PoolShape(p), LruOK(p.lru), NEW victims \in Seq(Ext),
           NEW S \in SUBSET Ext,
           \A x \in S : /\ p.processes[x] <= 1
                           \/ x \notin ToSet(victims)
                        /\ \/ p.processes[x] = 0
                           \/ x \in ToSet(p.lru.order)
                           \/ x \in ToSet(victims)
    PROVE  LruOK(Evicted(p, victims).lru) /\ Covered(Evicted(p, victims), S)
<1> DEFINE times(e) == Cardinality({i \in DOMAIN victims : victims[i] = e})
           gone == ToSet(victims)
           kept == RemovedAll(p.lru, gone)
           procs == [e \in Ext |-> IF times(e) \in 0 .. p.processes[e]
                                   THEN p.processes[e] - times(e) ELSE 0]
           q == Evicted(p, victims)
<1>1. p.processes \in [Ext -> Nat]
  BY DEF PoolShape
<1>2. /\ p.lru.order \in Seq(Ext) /\ Len(p.lru.order) \in Nat
      /\ p.lru.capacity \in 1 .. MaxCapacity /\ Len(p.lru.order) <= p.lru.capacity
      /\ p.lru = [order |-> p.lru.order, capacity |-> p.lru.capacity]
      /\ MaxCapacity \in Nat
  BY CapacityAssumption DEF LruOK
<1> DEFINE order == Without(p.lru.order, gone)
<1>3. /\ order \in Seq(Ext) /\ Len(order) <= Len(p.lru.order)
      /\ ToSet(order) = ToSet(p.lru.order) \ gone
  BY <1>2, WithoutIds
<1>4. kept = [order |-> order, capacity |-> p.lru.capacity]
  BY <1>2 DEF RemovedAll
<1>5. q.processes = procs /\ q.lru = kept
  BY DEF Evicted, PoolShape
<1> HIDE DEF order, kept, q
<1>6. LruOK(q.lru)
  <2>1. Len(order) \in Nat
    BY <1>3
  <2> QED BY <1>2, <1>3, <1>4, <1>5, <2>1 DEF LruOK
<1>7. ASSUME NEW x \in S, x \in gone PROVE procs[x] = 0
  <2> DEFINE at == {i \in DOMAIN victims : victims[i] = x}
  <2>1. at \subseteq 1 .. Len(victims) /\ at # {} /\ Len(victims) \in Nat
    BY <1>7 DEF ToSet
  <2>2. IsFiniteSet(1 .. Len(victims))
    BY <2>1, FS_Interval
  <2>3. IsFiniteSet(at)
    BY <2>1, <2>2, FS_Subset
  <2>4. Cardinality(at) \in Nat /\ Cardinality(at) # 0
    BY <2>1, <2>3, FS_CardinalityType, FS_EmptySet
  <2>5. p.processes[x] \in 0 .. 1
    BY <1>1, <1>7
  <2>6. procs[x] = IF Cardinality(at) \in 0 .. p.processes[x]
                   THEN p.processes[x] - Cardinality(at) ELSE 0
    OBVIOUS
  <2> HIDE DEF at, procs
  <2> QED BY <2>4, <2>5, <2>6
<1>8. ASSUME NEW x \in S, x \notin gone, procs[x] > 0 PROVE x \in ToSet(order)
  <2>1. p.processes[x] # 0
    <3> HIDE DEF times
    <3> QED BY <1>1, <1>8
  <2> QED BY <1>3, <1>8, <2>1
<1> HIDE DEF procs, gone
<1>9. Covered(q, S)
  BY <1>4, <1>5, <1>7, <1>8 DEF Covered
<1> QED BY <1>6, <1>9 DEF q

\* store_warm_process: the extension stored is the one just touched.
LEMMA StoredCovers ==
    ASSUME NEW p, PoolShape(p), LruOK(p.lru), NEW e \in Ext, NEW S \in SUBSET Ext,
           \A x \in S : p.processes[x] <= 1
    PROVE  LruOK(Stored(p, e).lru) /\ (Covered(p, S) => Covered(Stored(p, e), S))
<1> DEFINE procs   == [p.processes EXCEPT ![e] = @ + 1]
           set     == Accessed(p.lru, e)
           kept    == [p EXCEPT !.processes = procs, !.lru = set]
           victims == OthersAmong(VictimsOfAccess(p.lru, e), e)
           N       == {x \in S : p.processes[x] = 0 \/ x \in ToSet(p.lru.order)}
<1>1. /\ LruOK(set) /\ e \in ToSet(set.order)
      /\ victims \in Seq(Ext) /\ e \notin ToSet(victims)
      /\ \A x \in ToSet(p.lru.order) : x \in ToSet(set.order) \/ x \in ToSet(victims)
  BY AccessedIds
<1>2. /\ procs \in [Ext -> Nat] /\ p.processes \in [Ext -> Nat]
      /\ \A x \in Ext : x # e => procs[x] = p.processes[x]
      /\ p.sources \in [Ext -> Status] /\ p.crash_guards \in [Ext -> Guard]
  BY DEF PoolShape
<1>3. Stored(p, e) = Evicted(kept, victims)
  BY DEF Stored
<1> HIDE DEF procs, set
<1>4. PoolShape(kept) /\ kept.processes = procs /\ kept.lru = set
  BY <1>2 DEF PoolShape
<1> HIDE DEF kept, victims
<1>5. ASSUME NEW x \in N
      PROVE  /\ kept.processes[x] <= 1 \/ x \notin ToSet(victims)
             /\ \/ kept.processes[x] = 0
                \/ x \in ToSet(kept.lru.order)
                \/ x \in ToSet(victims)
  <2>1. CASE x = e
    BY <1>1, <1>4, <2>1
  <2>2. CASE x # e
    BY <1>1, <1>2, <1>4, <2>2
  <2> QED BY <2>1, <2>2
<1>6. N \in SUBSET Ext
  OBVIOUS
<1> HIDE DEF N
<1>7. LruOK(Stored(p, e).lru) /\ Covered(Stored(p, e), N)
  BY <1>1, <1>3, <1>4, <1>5, <1>6, EvictedCovers
<1>8. Covered(p, S) => N = S
  BY <1>2 DEF Covered, N
<1> QED BY <1>7, <1>8

\* drop_source_to_stub: the extension leaves the set and has no client left.
LEMMA DroppedCovers ==
    ASSUME NEW p, PoolShape(p), LruOK(p.lru), NEW e \in Ext, NEW S \in SUBSET Ext
    PROVE  /\ LruOK(DroppedToStub(p, e).lru)
           /\ Covered(p, S) => Covered(DroppedToStub(p, e), S)
<1> DEFINE order == RemoveFirst(p.lru.order, e)
           q     == DroppedToStub(p, e)
<1>1. /\ p.lru.order \in Seq(Ext) /\ Len(p.lru.order) \in Nat
      /\ p.lru.capacity \in 1 .. MaxCapacity /\ Len(p.lru.order) <= p.lru.capacity
      /\ p.lru = [order |-> p.lru.order, capacity |-> p.lru.capacity]
      /\ MaxCapacity \in Nat
  BY CapacityAssumption DEF LruOK
<1>2. /\ order \in Seq(Ext) /\ Len(order) <= Len(p.lru.order) /\ Len(order) \in Nat
      /\ \A x \in ToSet(p.lru.order) : x = e \/ x \in ToSet(order)
  BY <1>1, RemovedFirstIds
<1>3. Removed(p.lru, e) = [order |-> order, capacity |-> p.lru.capacity]
  BY <1>1 DEF Removed
<1>4. /\ q.lru = Removed(p.lru, e)
      /\ q.processes = [p.processes EXCEPT ![e] = 0]
  BY DEF DroppedToStub, PoolShape
<1>5. p.processes \in [Ext -> Nat]
  BY DEF PoolShape
<1> HIDE DEF q, order
<1>6. LruOK(q.lru)
  BY <1>1, <1>2, <1>3, <1>4 DEF LruOK
<1>7. Covered(p, S) => Covered(q, S)
  BY <1>2, <1>3, <1>4, <1>5 DEF Covered
<1> QED BY <1>6, <1>7 DEF q

\* The marks move no client and leave the set alone.
LEMMA MarksKeepLru ==
    ASSUME NEW p, PoolShape(p), NEW e \in Ext, NEW n
    PROVE  /\ MarkedWarm(p, e).lru = p.lru /\ MarkedWarm(p, e).processes = p.processes
           /\ MarkedFailed(p, e).lru = p.lru /\ MarkedFailed(p, e).processes = p.processes
           /\ CrashRecorded(p, e, n).lru = p.lru
           /\ CrashRecorded(p, e, n).processes = p.processes
BY DEF PoolShape, MarkedWarm, MarkedFailed, CrashRecorded

\* However a request ends, its client comes back into the set or not at all.
LEMMA ReturnedCovers ==
    ASSUME NEW p, PoolShape(p), LruOK(p.lru), NEW S \in SUBSET Ext,
           \A x \in S : p.processes[x] <= 1,
           NEW request \in Request, NEW outcome \in Outcomes(request)
    PROVE  /\ LruOK(Returned(p, request, outcome).lru)
           /\ Covered(p, S) => Covered(Returned(p, request, outcome), S)
           /\ LruOK(ReturnedOffPage(p, request, outcome).lru)
           /\ Covered(p, S) => Covered(ReturnedOffPage(p, request, outcome), S)
<1> DEFINE e == request.ext
           Keeps(q) == LruOK(q.lru) /\ (Covered(p, S) => Covered(q, S))
<1>1. e \in Ext /\ request.reheat \in BOOLEAN /\ outcome \in Outcome
  BY DEF Request, Outcomes
<1> HIDE DEF e
<1>2. Keeps(p)
  OBVIOUS
<1>3. PoolShape(Stored(p, e)) /\ Keeps(Stored(p, e))
  BY <1>1, StoredShape, StoredCovers DEF Brings
<1>4. PoolShape(DroppedToStub(p, e)) /\ Keeps(DroppedToStub(p, e))
  BY <1>1, DroppedShape, DroppedCovers DEF Brings
<1>5. Keeps(MarkedWarm(Stored(p, e), e))
  BY <1>1, <1>3, MarksKeepLru DEF Covered
<1>6. Keeps(CrashRecorded(DroppedToStub(p, e), e, 1))
  BY <1>1, <1>4, MarksKeepLru DEF Covered
<1>7. Keeps(MarkedFailed(p, e))
  BY <1>1, <1>2, MarksKeepLru DEF Covered
<1> HIDE DEF Keeps
<1>8. Keeps(Returned(p, request, outcome))
  BY <1>1, <1>2, <1>3, <1>5, <1>6, <1>7, outcome \in Outcomes(request)
     DEF Returned, Outcome, Outcomes, e
<1>9. Keeps(ReturnedOffPage(p, request, outcome))
  BY <1>1, <1>2, <1>3, <1>4, <1>7 DEF ReturnedOffPage, Outcome, e
<1> QED BY <1>8, <1>9 DEF Keeps

\* refresh_health: an extension all of whose clients are dropped leaves the
\* set, and so do those that are reclaimed.
LEMMA RefreshedCovers ==
    ASSUME NEW p, PoolShape(p), LruOK(p.lru), NEW S \in SUBSET Ext,
           \A x \in S : p.processes[x] <= 1,
           NEW exits, \A e \in Ext : /\ exits[e].exited \in Nat
                                     /\ exits[e].crashed \in 0 .. p.processes[e],
           NEW n \in 0 .. Len(Reaped(p, exits).lru.order)
    PROVE  /\ LruOK(Reclaimed(Reaped(p, exits), n).lru)
           /\ Covered(p, S) => Covered(Reclaimed(Reaped(p, exits), n), S)
<1> DEFINE reaped  == Reaped(p, exits)
           gone    == {e \in Ext : exits[e].exited > 0}
           order   == Without(p.lru.order, gone)
           idle    == IdleVictims(reaped.lru, n)
           victims == InVector(reaped, idle)
           N       == {x \in S : p.processes[x] = 0 \/ x \in ToSet(p.lru.order)}
<1>1. /\ p.lru.order \in Seq(Ext) /\ Len(p.lru.order) \in Nat
      /\ p.lru.capacity \in 1 .. MaxCapacity /\ Len(p.lru.order) <= p.lru.capacity
      /\ p.lru = [order |-> p.lru.order, capacity |-> p.lru.capacity]
      /\ MaxCapacity \in Nat
  BY CapacityAssumption DEF LruOK
<1>2. p.processes \in [Ext -> Nat]
  BY DEF PoolShape
<1>3. PoolShape(reaped) /\ \A x \in Ext : reaped.processes[x] <= p.processes[x]
  BY ReapedShape
<1>4. /\ order \in Seq(Ext) /\ Len(order) <= Len(p.lru.order)
      /\ ToSet(order) = ToSet(p.lru.order) \ gone
  BY <1>1, WithoutIds
<1>5. RemovedAll(p.lru, gone) = [order |-> order, capacity |-> p.lru.capacity]
  BY <1>1 DEF RemovedAll
<1>6. /\ reaped.lru = RemovedAll(p.lru, gone)
      /\ reaped.processes = [e \in Ext |-> IF exits[e].exited = 0
                                           THEN p.processes[e] ELSE 0]
  BY DEF Reaped
<1> HIDE DEF reaped, order
<1>7. LruOK(reaped.lru) /\ reaped.lru.order = order
  <2>1. Len(order) \in Nat
    BY <1>4
  <2> QED BY <1>1, <1>4, <1>5, <1>6, <2>1 DEF LruOK
<1>8. \A x \in N : /\ reaped.processes[x] <= 1
                   /\ reaped.processes[x] = 0 \/ x \in ToSet(reaped.lru.order)
  BY <1>2, <1>4, <1>6, <1>7
<1>9. idle \in Seq(Ext)
  <2> DEFINE len == Len(order)
             part == SubSeq(order, len - n + 1, len)
  <2>1. len \in Nat /\ n \in 0 .. len
    BY <1>4, <1>7 DEF reaped
  <2>2. len - n + 1 \in 1 .. len + 1 /\ len \in (len - n + 1) - 1 .. len
    BY <2>1
  <2>3. part \in Seq(Ext)
    BY <1>4, <2>2, PartIds
  <2>4. idle = Reverse(part)
    BY <1>7 DEF IdleVictims
  <2> HIDE DEF part, idle
  <2> QED BY <2>3, <2>4, ReversedIds
<1> HIDE DEF idle
<1>10. victims \in Seq(Ext)
  BY <1>9, WithoutIds DEF InVector
<1>11. Reclaimed(reaped, n) = Evicted(reaped, victims)
  BY DEF Reclaimed, idle
<1>12. N \in SUBSET Ext
  OBVIOUS
<1> HIDE DEF victims, N
<1>13. LruOK(Reclaimed(reaped, n).lru) /\ Covered(Reclaimed(reaped, n), N)
  BY <1>3, <1>7, <1>8, <1>10, <1>11, <1>12, EvictedCovers
<1>14. Covered(p, S) => N = S
  BY <1>2 DEF Covered, N
<1> QED BY <1>13, <1>14 DEF reaped

\* apply_warm_capacity: what no longer fits is a victim.
LEMMA ResizedCovers ==
    ASSUME NEW p, PoolShape(p), LruOK(p.lru), NEW S \in SUBSET Ext,
           \A x \in S : p.processes[x] <= 1, NEW capacity \in 1 .. MaxCapacity,
           NEW q, q = Evicted([p EXCEPT !.lru = Resized(@, capacity)],
                              VictimsOfResize(p.lru, capacity))
    PROVE  LruOK(q.lru) /\ (Covered(p, S) => Covered(q, S))
<1> DEFINE order   == p.lru.order
           set     == Resized(p.lru, capacity)
           smaller == [p EXCEPT !.lru = set]
           victims == VictimsOfResize(p.lru, capacity)
           N       == {x \in S : p.processes[x] = 0 \/ x \in ToSet(p.lru.order)}
<1>1. order \in Seq(Ext) /\ Len(order) \in Nat /\ MaxCapacity \in Nat /\ capacity \in Nat
  BY CapacityAssumption DEF LruOK
<1>2. /\ LruOK(set) /\ victims \in Seq(Ext)
      /\ \A x \in ToSet(order) : x \in ToSet(set.order) \/ x \in ToSet(victims)
  <2>1. CASE Len(order) > capacity
    <3> DEFINE fore == SubSeq(order, 1, capacity)
               aft  == SubSeq(order, capacity + 1, Len(order))
    <3>1. /\ set = [order |-> fore, capacity |-> capacity]
          /\ victims = Reverse(aft)
      BY <2>1 DEF Resized, VictimsOfResize
    <3> HIDE DEF order, set, victims
    <3>2. /\ fore \in Seq(Ext) /\ Len(fore) = capacity
          /\ \A i \in 1 .. capacity : order[i] \in ToSet(fore)
      <4>1. /\ 1 \in 1 .. Len(order) + 1 /\ capacity \in 1 - 1 .. Len(order)
            /\ capacity - 1 + 1 = capacity
        BY <1>1, <2>1
      <4> QED BY <1>1, <4>1, PartIds
    <3>3. /\ aft \in Seq(Ext)
          /\ \A i \in capacity + 1 .. Len(order) : order[i] \in ToSet(aft)
      <4>1. /\ capacity + 1 \in 1 .. Len(order) + 1
            /\ Len(order) \in (capacity + 1) - 1 .. Len(order)
        BY <1>1, <2>1
      <4> QED BY <1>1, <4>1, PartIds
    <3> HIDE DEF fore, aft
    <3>4. victims \in Seq(Ext) /\ ToSet(aft) \subseteq ToSet(victims)
      BY <3>1, <3>3, ReversedIds
    <3>5. ASSUME NEW x \in ToSet(order) PROVE x \in ToSet(fore) \/ x \in ToSet(aft)
      <4>1. PICK i \in 1 .. Len(order) : order[i] = x
        BY <3>5 DEF ToSet
      <4> QED BY <1>1, <2>1, <3>2, <3>3, <4>1
    <3>6. LruOK(set)
      BY <1>1, <3>1, <3>2 DEF LruOK
    <3> QED BY <3>1, <3>4, <3>5, <3>6
  <2>2. CASE ~(Len(order) > capacity)
    <3>1. set = [order |-> order, capacity |-> capacity] /\ victims = <<>>
      BY <2>2 DEF Resized, VictimsOfResize
    <3>2. <<>> \in Seq(Ext)
      OBVIOUS
    <3> HIDE DEF set, victims
    <3>3. LruOK(set)
      BY <1>1, <2>2, <3>1 DEF LruOK
    <3> QED BY <3>1, <3>2, <3>3
  <2> QED BY <2>1, <2>2
<1> HIDE DEF set, victims
<1>3. PoolShape(smaller) /\ smaller.processes = p.processes /\ smaller.lru = set
  BY DEF PoolShape
<1>4. q = Evicted(smaller, victims)
  BY DEF victims, set
<1> HIDE DEF smaller
<1>5. \A x \in N : /\ smaller.processes[x] <= 1
                   /\ \/ smaller.processes[x] = 0
                      \/ x \in ToSet(smaller.lru.order)
                      \/ x \in ToSet(victims)
  BY <1>2, <1>3
<1>6. N \in SUBSET Ext /\ p.processes \in [Ext -> Nat]
  BY DEF PoolShape
<1> HIDE DEF N
<1>7. LruOK(q.lru) /\ Covered(q, N)
  BY <1>2, <1>3, <1>4, <1>5, <1>6, EvictedCovers
<1>8. Covered(p, S) => N = S
  BY <1>6 DEF Covered, N
<1> QED BY <1>7, <1>8

\* finish_aggregation: after the loop every client of the vector is covered.
LEMMA AccessAllCovers ==
    ASSUME NEW p, PoolShape(p), LruOK(p.lru), NEW S \in SUBSET Ext,
           \A x \in S : p.processes[x] <= 1, NEW vector \in Vectors(p.processes)
    PROVE  LruOK(AccessAll(p, vector).lru) /\ Covered(AccessAll(p, vector), S)
<1> DEFINE clients == UNION {{e} \X (1 .. p.processes[e]) : e \in Ext}
           length  == Cardinality(clients)
           end     == AccessedInTurn(p.lru, vector)
           q       == [p EXCEPT !.lru = end.lru]
<1>1. p.processes \in [Ext -> Nat]
  BY DEF PoolShape
<1>2. /\ vector \in [1 .. length -> Ext]
      /\ \A e \in Ext : Cardinality({i \in 1 .. length : vector[i] = e}) = p.processes[e]
  BY DEF Vectors
<1>3. length \in Nat
  <2> DEFINE Of(e) == {e} \X (1 .. p.processes[e])
             groups == {Of(e) : e \in Ext}
  <2>1. ASSUME NEW e \in Ext PROVE IsFiniteSet(Of(e))
    <3> DEFINE n == p.processes[e]
    <3>1. 1 \in Int /\ n \in Int
      BY <1>1
    <3> HIDE DEF n
    <3>2. IsFiniteSet(1 .. n)
      BY <3>1, FS_Interval
    <3>3. IsFiniteSet({e})
      BY FS_Singleton
    <3>4. IsFiniteSet({e} \X (1 .. n))
      BY <3>2, <3>3, FS_Product
    <3> QED BY <3>4 DEF n
  <2> HIDE DEF Of
  <2>2. IsFiniteSet(groups)
    <3> DEFINE f == [e \in Ext |-> Of(e)]
    <3>1. f \in Surjection(Ext, groups)
      BY DEF Surjection
    <3> HIDE DEF f, groups
    <3> QED BY <3>1, ExtAssumption, FS_Surjection
  <2>3. \A g \in groups : IsFiniteSet(g)
    BY <2>1
  <2> HIDE DEF groups
  <2>4. IsFiniteSet(UNION groups)
    BY <2>2, <2>3, FS_UNION
  <2>5. clients = UNION groups
    BY DEF groups, Of
  <2> QED BY <2>4, <2>5, FS_CardinalityType
<1> HIDE DEF length
<1>4. vector \in Seq(Ext) /\ DOMAIN vector = 1 .. length
  BY <1>2, <1>3
<1>5. ASSUME NEW x \in Ext, p.processes[x] > 0 PROVE x \in ToSet(vector)
  <2>1. {i \in 1 .. length : vector[i] = x} # {}
    BY <1>2, <1>5, FS_EmptySet
  <2> QED BY <1>4, <2>1 DEF ToSet
<1>6. /\ LruOK(end.lru) /\ end.victims \in Seq(Ext)
      /\ \A x \in ToSet(vector) : x \in ToSet(end.lru.order) \/ x \in ToSet(end.victims)
  BY <1>4, AccessedInTurnIds
<1>7. AccessAll(p, vector) = Evicted(q, end.victims)
  BY DEF AccessAll
<1> HIDE DEF end
<1>8. PoolShape(q) /\ q.processes = p.processes /\ q.lru = end.lru
  BY DEF PoolShape
<1> HIDE DEF q
<1>9. \A x \in S : /\ q.processes[x] <= 1
                   /\ \/ q.processes[x] = 0
                      \/ x \in ToSet(q.lru.order)
                      \/ x \in ToSet(end.victims)
  BY <1>1, <1>5, <1>6, <1>8
<1> QED
  BY <1>6, <1>7, <1>8, <1>9, EvictedCovers

-----------------------------------------------------------------------------
(* The keep-alive set covers the pool.                                     *)

\* The set is within its capacity at all times, and between rounds that end
\* with Done it holds every extension with a client that no overlap concerns.
LruInv ==
    /\ LruOK(pool.lru)
    /\ ~WorkerMayPanic /\ phase = "idle" => Covered(pool, Ext \ overlapped)

\* It starts empty, while the first round is under way.
LEMMA LruInvInit == Init => LruInv
<1> SUFFICES ASSUME Init PROVE LruInv
  OBVIOUS
<1>1. PICK capacity \in 1 .. MaxCapacity : pool.lru = EmptyLru(capacity)
  BY DEF Init
<1>2. phase = "scan"
  BY DEF Init
<1>3. <<>> \in Seq(Ext) /\ Len(<<>>) = 0
  OBVIOUS
<1>4. LruOK(pool.lru)
  BY <1>1, <1>3, CapacityAssumption DEF EmptyLru, LruOK
<1> QED BY <1>2, <1>4 DEF LruInv

\* What a dispatch or the fallback chain takes out of the vector needs no place
\* in the set.
LEMMA TakesCover ==
    ASSUME NEW p, PoolShape(p), LruOK(p.lru), NEW busy, NEW slots, NEW S \in SUBSET Ext,
           \/ \E c \in Channel, e \in Ext : Requested(c, e, p, busy, slots)
           \/ \E store : FallbackStarted(p, busy, slots, store)
    PROVE  LruOK(pool'.lru) /\ (Covered(p, S) => Covered(pool', S))
<1>1. pool' = p \/ \E e \in Ext : p.processes[e] > 0 /\ pool' = Taken(p, e)
  <2>1. p.processes \in [Ext -> Nat]
    BY DEF PoolShape
  <2> QED BY <2>1 DEF Requested, FallbackStarted, Wanted
<1>2. CASE pool' = p
  BY <1>2
<1>3. ASSUME NEW e \in Ext, p.processes[e] > 0, pool' = Taken(p, e)
      PROVE  LruOK(pool'.lru) /\ (Covered(p, S) => Covered(pool', S))
  <2>1. /\ pool'.lru = p.lru
        /\ pool'.processes = [p.processes EXCEPT ![e] = @ - 1]
        /\ p.processes \in [Ext -> Nat]
    BY <1>3 DEF Taken, PoolShape
  <2> QED BY <2>1 DEF Covered
<1> QED BY <1>1, <1>2, <1>3

\* Each step keeps it, one case for each kind of step on the pool.
LEMMA LruInvNext == IInv /\ LruInv /\ [Next]_vars => LruInv'
<1> USE DEF aggregation
<1> SUFFICES ASSUME IInv, LruInv, [Next]_vars PROVE LruInv'
  OBVIOUS
<1> DEFINE S == Ext \ overlapped
           Keeps(q) == LruOK(q.lru) /\ (Covered(pool, S) => Covered(q, S))
<1>1. /\ PoolShape(pool) /\ rx \in [Channel -> Request \cup {NoRequest}]
      /\ S \in SUBSET Ext /\ \A x \in S : pool.processes[x] <= 1
  BY DEF IInv, TypeInv, OneHolder, Exclusive
<1>2. LruOK(pool.lru) /\ (~WorkerMayPanic /\ phase = "idle" => Covered(pool, S))
  BY DEF LruInv
\* Between rounds a step on the pool is enough to look at.
<1>3. ASSUME Keeps(pool'), phase' = phase, overlapped \subseteq overlapped'
      PROVE  LruInv'
  <2>1. LruOK(pool.lru)'
    BY <1>3
  <2>2. ASSUME ~WorkerMayPanic, phase = "idle" PROVE Covered(pool, Ext \ overlapped)'
    <3>1. Covered(pool', S) /\ Ext \ overlapped' \in SUBSET S
      BY <1>2, <1>3, <2>2
    <3> QED BY <3>1 DEF Covered
  <2> QED BY <1>3, <2>1, <2>2 DEF LruInv
\* A round under way asks for nothing but the capacity.
<1>4. ASSUME LruOK(pool'.lru), phase' # "idle" PROVE LruInv'
  BY <1>4 DEF LruInv
<1>5. Keeps(pool)
  BY <1>2
<1> HIDE DEF S
<1>6. ASSUME NEW e \in Ext, DispatchInvoke(e) \/ DispatchFetchPage(e) PROVE LruInv'
  <2>1. /\ \E c \in Channel : Requested(c, e, pool, inflight, rx)
        /\ phase' = phase
    BY <1>6 DEF DispatchInvoke, DispatchFetchPage, Channel
  <2>2. overlapped \subseteq overlapped'
    BY <2>1 DEF Requested
  <2>3. Keeps(pool')
    BY <1>1, <1>2, <2>1, TakesCover
  <2> QED BY <1>3, <2>1, <2>2, <2>3
<1>7. CASE SyncFallback
  <2>1. /\ FallbackStarted(pool, inflight, rx, templates)
        /\ phase' = phase /\ overlapped' = overlapped
    BY <1>7 DEF SyncFallback
  <2>2. Keeps(pool')
    BY <1>1, <1>2, <2>1, TakesCover
  <2> QED BY <1>3, <2>1, <2>2
<1>8. CASE PollInvoke
  <2> DEFINE request == rx["invoke"]
             slots   == [rx EXCEPT !["invoke"] = NoRequest]
             busy    == Freed(inflight, request.ext)
  <2>1. PICK outcome \in Outcomes(request) :
          \/ pool' = Returned(pool, request, outcome) /\ UNCHANGED overlapped
          \/ Requested("page", request.ext, Returned(pool, request, outcome), busy, slots)
    BY <1>8 DEF PollInvoke
  <2>2. request \in Request /\ request.ext \in Ext
    BY <1>1, <1>8, SlotTypes DEF PollInvoke, Channel
  <2> DEFINE p == Returned(pool, request, outcome)
  <2>3. PoolShape(p)
    BY <1>1, <2>2, ReturnedShape DEF Brings
  <2>4. Keeps(p)
    BY <1>1, <1>2, <2>2, ReturnedCovers
  <2> HIDE DEF p, slots, busy
  <2>5. CASE pool' = p /\ UNCHANGED overlapped
    BY <1>3, <1>8, <2>4, <2>5 DEF PollInvoke
  <2>6. CASE Requested("page", request.ext, p, busy, slots)
    <3>1. overlapped \subseteq overlapped'
      BY <2>6 DEF Requested
    <3>2. LruOK(pool'.lru) /\ (Covered(p, S) => Covered(pool', S))
      BY <1>1, <2>2, <2>3, <2>4, <2>6, TakesCover DEF Channel
    <3> QED BY <1>3, <1>8, <2>4, <3>1, <3>2 DEF PollInvoke
  <2> QED BY <2>1, <2>5, <2>6 DEF p
<1>9. CASE PollPage
  <2> DEFINE request == rx["page"]
  <2>1. PICK outcome \in Outcomes(request) :
          \/ pool' = Returned(pool, request, outcome)
          \/ pool' = ReturnedOffPage(pool, request, outcome)
    BY <1>9 DEF PollPage
  <2>2. request \in Request /\ phase' = phase /\ overlapped' = overlapped
    BY <1>1, <1>9, SlotTypes DEF PollPage, Channel
  <2>3. Keeps(pool')
    BY <1>1, <1>2, <2>1, <2>2, ReturnedCovers
  <2> QED BY <1>3, <2>2, <2>3
<1>10. CASE PollFallback
  <2> DEFINE e == rx["fallback"].ext
  <2>1. PICK p, busy, slots, store :
          /\ p = DroppedToStub(pool, e) \/ p = MarkedFailed(pool, e) \/ p = Stored(pool, e)
          /\ FallbackStarted(p, busy, slots, store)
    BY <1>10 DEF PollFallback
  <2>2. e \in Ext /\ phase' = phase /\ overlapped' = overlapped
    BY <1>1, <1>10, SlotTypes DEF PollFallback, Channel
  <2> HIDE DEF e
  <2>3. PoolShape(p) /\ Keeps(p)
    <3>1. CASE p = DroppedToStub(pool, e)
      BY <1>1, <1>2, <2>2, <3>1, DroppedShape, DroppedCovers DEF Brings
    <3>2. CASE p = MarkedFailed(pool, e)
      BY <1>1, <1>2, <2>2, <3>2, MarkedFailedShape, MarksKeepLru DEF Brings, Covered
    <3>3. CASE p = Stored(pool, e)
      BY <1>1, <1>2, <2>2, <3>3, StoredShape, StoredCovers DEF Brings
    <3> QED BY <2>1, <3>1, <3>2, <3>3
  <2>4. LruOK(pool'.lru) /\ (Covered(p, S) => Covered(pool', S))
    BY <1>1, <2>1, <2>3, TakesCover
  <2> QED BY <1>3, <2>2, <2>3, <2>4
<1>11. CASE RestartAggregation \/ \E e \in Ext : Retry(e)
  <2>1. pool'.lru = pool.lru /\ phase' = "scan"
    BY <1>1, <1>11 DEF RestartAggregation, Retry, Restarted, PoolShape
  <2> QED BY <1>2, <1>4, <2>1
<1>12. CASE MetaArrives \/ Arrivals
  <2>1. pool'.lru = pool.lru /\ phase' = "stream"
    BY <1>1, <1>12 DEF MetaArrives, Arrivals, ExtArrives, PoolShape
  <2> QED BY <1>2, <1>4, <2>1
<1>13. CASE AggregationDone
  <2>1. PICK vector \in Vectors(pool.processes) : pool' = AccessAll(pool, vector)
    BY <1>13 DEF AggregationDone
  <2>2. LruOK(pool'.lru) /\ Covered(pool', S)
    BY <1>1, <1>2, <2>1, AccessAllCovers
  <2>3. overlapped' = overlapped
    BY <1>13 DEF AggregationDone
  <2> QED BY <2>2, <2>3 DEF LruInv, S
<1>14. CASE AggregationLost
  BY <1>2, <1>14 DEF AggregationLost, LruInv
<1>15. CASE RefreshHealth
  <2>1. PICK exits, n : /\ \A e \in Ext : exits[e] \in Exits(e)
                        /\ n \in 0 .. Len(Reaped(pool, exits).lru.order)
                        /\ pool' = Reclaimed(Reaped(pool, exits), n)
    <3>1. PICK exits : /\ \A e \in Ext : exits[e] \in Exits(e)
                       /\ \E n \in 0 .. (IF visible THEN 0
                                         ELSE Len(Reaped(pool, exits).lru.order)) :
                            pool' = Reclaimed(Reaped(pool, exits), n)
      BY <1>15 DEF RefreshHealth
    <3> DEFINE len == Len(Reaped(pool, exits).lru.order)
    <3>2. len \in Nat
      <4> DEFINE gone == {e \in Ext : exits[e].exited > 0}
      <4>1. /\ Reaped(pool, exits).lru = RemovedAll(pool.lru, gone)
            /\ pool.lru \in [order : Seq(Ext), capacity : 1 .. MaxCapacity]
        BY <1>2 DEF Reaped, LruOK
      <4>2. Reaped(pool, exits).lru.order = Without(pool.lru.order, gone)
        BY <4>1 DEF RemovedAll
      <4> HIDE DEF gone
      <4>3. Without(pool.lru.order, gone) \in Seq(Ext)
        BY <4>1, WithoutIds
      <4> QED BY <4>2, <4>3
    <3> HIDE DEF len
    <3>3. PICK n \in 0 .. (IF visible THEN 0 ELSE len) :
            pool' = Reclaimed(Reaped(pool, exits), n)
      BY <3>1 DEF len
    <3>4. n \in 0 .. len
      BY <3>2, <3>3
    <3> QED BY <3>1, <3>3, <3>4 DEF len
  <2>2. \A e \in Ext : exits[e].exited \in Nat /\ exits[e].crashed \in 0 .. pool.processes[e]
    BY <1>1, <2>1 DEF Exits, PoolShape
  <2>3. Keeps(pool')
    BY <1>1, <1>2, <2>1, <2>2, RefreshedCovers
  <2> QED BY <1>3, <1>15, <2>3 DEF RefreshHealth
<1>16. ASSUME NEW capacity \in 1 .. MaxCapacity, SetCapacity(capacity) PROVE LruInv'
  <2>1. Keeps(pool')
    BY <1>1, <1>2, <1>16, ResizedCovers DEF SetCapacity
  <2> QED BY <1>3, <1>16, <2>1 DEF SetCapacity
<1>17. CASE \/ \E c \in Channel : PollDisconnected(c)
            \/ \E e \in Ext : OrphanFinishes(e)
            \/ Show \/ Hide \/ UNCHANGED vars
  <2>1. UNCHANGED <<pool, phase, overlapped>>
    BY <1>17 DEF PollDisconnected, OrphanFinishes, Show, Hide, vars
  <2> QED BY <1>3, <1>5, <2>1
<1> QED
  BY <1>6, <1>7, <1>8, <1>9, <1>10, <1>11, <1>12, <1>13, <1>14, <1>15, <1>16, <1>17
     DEF Next

\* It holds in every reachable state.
THEOREM LruInductive == Spec => []LruInv
<1>1. IInv /\ LruInv /\ [Next]_vars => LruInv'
  BY LruInvNext
<1> QED
  BY <1>1, LruInvInit, Inductive, PTL DEF Spec

\* Between rounds every warm client that no overlap concerns is in the
\* keep-alive set, which never exceeds its capacity, whatever is stored,
\* evicted, resized, reclaimed or dropped, as long as the threads of the
\* rounds end with Done: no client is beyond the reach of eviction.
THEOREM LruCovers ==
    ASSUME ~WorkerMayPanic
    PROVE  Spec => []LruCoversPool
<1>1. LruInv => LruCoversPool
  BY DEF LruInv, LruOK, Covered, LruCoversPool
<1> QED
  BY <1>1, LruInductive, PTL

\* What the invariants above leave out of TypeOK.
RestOK ==
    /\ visible \in BOOLEAN
    /\ templates \in [Ext -> TemplateState]
    /\ scanned \in BOOLEAN
    /\ listed \subseteq Ext
    /\ rounds \in 0 .. MaxRounds

\* No step of the loop takes those out of their types.
LEMMA RestNext == IInv /\ RestOK /\ [Next]_vars => RestOK'
<1> USE DEF RestOK, aggregation
<1> SUFFICES ASSUME IInv, RestOK, [Next]_vars PROVE RestOK'
  OBVIOUS
<1>1. rx \in [Channel -> Request \cup {NoRequest}]
  BY DEF IInv, TypeInv
\* The chain marks the templates it asks for.
<1>2. ASSUME NEW p, NEW busy, NEW slots, NEW store \in [Ext -> TemplateState],
             FallbackStarted(p, busy, slots, store)
      PROVE  templates' \in [Ext -> TemplateState]
  BY <1>2 DEF FallbackStarted, TemplateState
<1>3. ASSUME NEW e \in Ext, DispatchInvoke(e) \/ DispatchFetchPage(e) PROVE RestOK'
  BY <1>3 DEF DispatchInvoke, DispatchFetchPage
<1>4. CASE SyncFallback
  BY <1>2, <1>4 DEF SyncFallback
<1>5. CASE PollInvoke
  <2>1. visible' \in BOOLEAN
    BY <1>5 DEF PollInvoke
  <2> QED BY <1>5, <2>1 DEF PollInvoke
<1>6. CASE PollPage
  <2>1. rx["page"].ext \in Ext
    BY <1>1, <1>6, SlotTypes DEF PollPage, Channel
  <2>2. listed' \subseteq Ext
    BY <1>6, <2>1 DEF PollPage
  <2> QED BY <1>6, <2>2 DEF PollPage
<1>7. CASE PollFallback
  <2> DEFINE store == [templates EXCEPT ![rx["fallback"].ext] = "settled"]
  <2>1. store \in [Ext -> TemplateState]
    BY DEF TemplateState
  <2>2. \E p, busy, slots : FallbackStarted(p, busy, slots, store)
    BY <1>7 DEF PollFallback
  <2> HIDE DEF store
  <2>3. templates' \in [Ext -> TemplateState]
    BY <1>2, <2>1, <2>2
  <2> QED BY <1>7, <2>3 DEF PollFallback
<1>8. CASE RestartAggregation \/ \E e \in Ext : Retry(e)
  <2>1. \E p : Restarted(p)
    BY <1>8 DEF RestartAggregation, Retry
  <2>2. templates' \in [Ext -> TemplateState] /\ UNCHANGED <<visible, scanned, listed>>
    BY <2>1 DEF Restarted, TemplateState
  <2>3. rounds' \in 0 .. MaxRounds
    BY <2>1, BoundAssumption DEF Restarted
  <2> QED BY <2>2, <2>3
<1>9. CASE MetaArrives \/ Arrivals
  BY <1>9 DEF MetaArrives, Arrivals, ExtArrives
<1>10. CASE AggregationDone \/ AggregationLost \/ RefreshHealth
  BY <1>10 DEF AggregationDone, AggregationLost, RefreshHealth
<1>11. CASE \/ \E c \in Channel : PollDisconnected(c)
            \/ \E e \in Ext : OrphanFinishes(e)
            \/ \E capacity \in 1 .. MaxCapacity : SetCapacity(capacity)
            \/ Show \/ Hide \/ UNCHANGED vars
  BY <1>11 DEF PollDisconnected, OrphanFinishes, SetCapacity, Show, Hide, vars
<1> QED
  BY <1>3, <1>4, <1>5, <1>6, <1>7, <1>8, <1>9, <1>10, <1>11 DEF Next

\* The pool, the slots, the stores and the round keep their types: no take finds
\* the vector empty, so the counts of clients stay natural numbers, and the
\* keep-alive set lists extensions only.
THEOREM TypeCorrect == Spec => []TypeOK
<1>1. Init => RestOK
  <2> SUFFICES ASSUME Init PROVE RestOK
    OBVIOUS
  <2>1. visible \in BOOLEAN /\ scanned \in BOOLEAN
    BY Zenon DEF Init
  <2>2. templates \in [Ext -> TemplateState] /\ listed \subseteq Ext
    BY DEF Init, TemplateState
  <2>3. rounds \in 0 .. MaxRounds
    BY BoundAssumption DEF Init
  <2> QED BY <2>1, <2>2, <2>3 DEF RestOK
<1>2. IInv /\ RestOK /\ [Next]_vars => RestOK'
  BY RestNext
<1>3. IInv /\ LruInv /\ RestOK => TypeOK
  <2> SUFFICES ASSUME IInv, LruInv, RestOK PROVE TypeOK
    OBVIOUS
  <2>1. /\ pool \in [processes : [Ext -> Nat], lru : {pool.lru},
                     sources : [Ext -> Status], crash_guards : [Ext -> Guard]]
        /\ pool.lru \in [order : Seq(Ext), capacity : 1 .. MaxCapacity]
    BY DEF IInv, TypeInv, PoolShape, LruInv, LruOK
  <2> DEFINE Lrus == [order : Seq(Ext), capacity : 1 .. MaxCapacity]
  <2>2. pool \in [processes : [Ext -> Nat], lru : Lrus,
                  sources : [Ext -> Status], crash_guards : [Ext -> Guard]]
    <3> HIDE DEF Lrus
    <3> QED BY <2>1 DEF Lrus
  <2> QED BY <2>2 DEF IInv, TypeInv, RestOK, TypeOK, PoolType
<1> QED
  BY <1>1, <1>2, <1>3, Inductive, LruInductive, PTL DEF Spec
=============================================================================
