----------------------------- MODULE WarmPool -----------------------------
(***************************************************************************)
(* The extension pool of the palette (ExtPool and its handlers in          *)
(* crates/dd-gui/src/app): the warm clients, the requests that borrow      *)
(* them, the aggregation rounds that replace them, and the bookkeeping     *)
(* that must stay in step: LRU set, source statuses, crash guards,         *)
(* fallback templates.                                                     *)
(*                                                                         *)
(* One thread, the egui frame loop, runs every handler; background         *)
(* threads (a request, an aggregation round) answer on channels the loop   *)
(* polls.  A handler is therefore one atomic step, and what interleaves    *)
(* is the answers, the exits of extension processes and the user.          *)
(***************************************************************************)
EXTENDS Naturals, FiniteSets, Sequences, SequencesExt, LruWarmSet, CrashGuard

CONSTANTS
    Ext,             \* the extensions the scan finds
    InProc,          \* those of them that run inside the host process
    Direct,          \* those with a page a key opens (Ctrl+F, file search)
    NoExt,           \* not an extension
    MaxCapacity,     \* the largest settings.warm_capacity (16 in the code)
    MaxRounds,       \* bound: how often aggregation is restarted
    WorkerMayPanic   \* may a background thread end without an answer?

ASSUME ExtAssumption ==
    /\ IsFiniteSet(Ext)
    /\ InProc \subseteq Ext
    /\ Direct \subseteq Ext
    /\ NoExt \notin Ext
ASSUME CapacityAssumption == MaxCapacity \in Nat \ {0}
ASSUME BoundAssumption == MaxRounds \in Nat /\ WorkerMayPanic \in BOOLEAN

\* A slot for each receiver of ExtPool: invoke_rx, page_rx, fallback_rx.
Channel == {"invoke", "page", "fallback"}

\* A request in a slot: whose client it borrowed, or reheated (stub_reheat).
Request == [ext : Ext, reheat : BOOLEAN]
NoRequest == [ext |-> NoExt, reheat |-> FALSE]

\* SourceStatus; "None" where sources has no entry for the extension.
Status == {"None", "Warm", "Stub", "Failed"}

\* FallbackStore: unknown is "neither registered nor fetching", settled is
\* Ready or Exhausted: neither is fetched again.
TemplateState == {"unknown", "fetching", "settled"}

\* How a request ends: an answer; an error from a client that lives, has
\* exited, or is stuck in its in-process worker; or no client was opened.
Outcome == {"ok", "err", "exit", "hang", "nospawn"}

VARIABLES
    visible,      \* the panel is shown: ui() runs, and with it the polls
    pool,         \* processes, lru, sources, crash_guards: see PoolType
    inflight,     \* extensions marked busy
    rx,           \* the three receivers
    orphans,      \* fallback calls still running whose receiver was dropped
    templates,    \* fallback_store
    phase,        \* aggregation: idle, scan (before Meta), stream (after it)
    todo,         \* extensions of this round that have not arrived
    arrived,      \* the outcomes that have, "None" for the others
    scanned,      \* exts has been set: a Meta event has been applied
    listed,       \* extensions with items on the root list or an open page
    rounds,       \* aggregation restarts so far
    overlapped    \* history: extensions a request of which met a round

vars == <<visible, pool, inflight, rx, orphans, templates, phase, todo,
          arrived, scanned, listed, rounds, overlapped>>

aggregation == <<phase, todo, arrived, scanned, rounds>>

\* processes counts the clients of an extension in the vector; the order
\* between extensions is left open (AggregationDone, FallbackStarted).
PoolType ==
    [processes    : [Ext -> Nat],
     lru          : [order : Seq(Ext), capacity : 1 .. MaxCapacity],
     sources      : [Ext -> Status],
     crash_guards : [Ext -> Guard]]

TypeOK ==
    /\ visible \in BOOLEAN
    /\ pool \in PoolType
    /\ inflight \subseteq Ext
    /\ rx \in [Channel -> Request \cup {NoRequest}]
    /\ orphans \in [Ext -> Nat]
    /\ templates \in [Ext -> TemplateState]
    /\ phase \in {"idle", "scan", "stream"}
    /\ todo \subseteq Ext
    /\ arrived \in [Ext -> Status]
    /\ scanned \in BOOLEAN
    /\ listed \subseteq Ext
    /\ rounds \in 0 .. MaxRounds
    /\ overlapped \subseteq Ext

-----------------------------------------------------------------------------
(* pool.rs and health.rs: what one call does to the pool.                  *)

Tripped(p, e) == p.crash_guards[e].tripped

\* A take: the first client of the extension leaves the vector.
Taken(p, e) == [p EXCEPT !.processes[e] = @ - 1]

\* evict_warm, once per element of victims.
Evicted(p, victims) ==
    LET times(e) == Cardinality({i \in DOMAIN victims : victims[i] = e})
        gone     == ToSet(victims)
    IN  [p EXCEPT
          !.processes = [e \in Ext |-> IF times(e) \in 0 .. @[e]
                                       THEN @[e] - times(e) ELSE 0],
          !.lru       = RemovedAll(@, gone),
          !.sources   = [e \in Ext |-> IF e \in gone /\ @[e] = "Warm"
                                       THEN "Stub" ELSE @[e]]]

\* store_warm_process of a client that is not stuck; the extension just
\* touched is never its own victim.
Stored(p, e) ==
    LET kept == [p EXCEPT !.processes[e] = @ + 1, !.lru = Accessed(@, e)]
    IN  Evicted(kept, OthersAmong(VictimsOfAccess(p.lru, e), e))

\* drop_source_to_stub.
DroppedToStub(p, e) ==
    [p EXCEPT !.processes[e] = 0,
              !.lru          = Removed(@, e),
              !.sources[e]   = IF @ = "Warm" THEN "Stub" ELSE @]

\* mark_source_warm, with the reset_crash it ends in.
MarkedWarm(p, e) ==
    [p EXCEPT !.sources[e]      = IF @ = "None" THEN @ ELSE "Warm",
              !.crash_guards[e] = NewGuard]

\* mark_source_failed: what store_warm_process does with a stuck client.
MarkedFailed(p, e) ==
    [p EXCEPT !.sources[e] = IF @ = "None" THEN @ ELSE "Failed"]

\* record_crash, n times: the source fails when the guard has just tripped.
CrashRecorded(p, e, n) ==
    LET guard == AfterCrashes(p.crash_guards[e], n)
    IN  [p EXCEPT !.sources[e] = IF @ # "None" /\ guard.tripped /\ ~Tripped(p, e)
                                 THEN "Failed" ELSE @,
                  !.crash_guards[e] = guard]

-----------------------------------------------------------------------------
Init ==
    /\ visible = FALSE
    /\ \E capacity \in 1 .. MaxCapacity :
         pool = [processes    |-> [e \in Ext |-> 0],
                 lru          |-> EmptyLru(capacity),
                 sources      |-> [e \in Ext |-> "None"],
                 crash_guards |-> [e \in Ext |-> NewGuard]]
    /\ inflight = {}
    /\ rx = [c \in Channel |-> NoRequest]
    /\ orphans = [e \in Ext |-> 0]
    /\ templates = [e \in Ext |-> "unknown"]
    /\ phase = "scan"
    /\ todo = {}
    /\ arrived = [e \in Ext |-> "None"]
    /\ scanned = FALSE
    /\ listed = {}
    /\ rounds = 0
    /\ overlapped = {}

\* Calls of e that have not returned.
Calls(e) == Cardinality({c \in Channel : rx[c].ext = e}) + orphans[e]

\* The running round may still bring a client of e.
StillToCome(e) == phase = "scan" \/ e \in todo

FirstArrival == \A e \in Ext : arrived[e] = "None"

-----------------------------------------------------------------------------
(* Requests: dispatch.                                                     *)

\* The early returns of dispatch_invoke and dispatch_fetch_page: the slot or
\* the extension is busy, the breaker is open, or nothing is known of e.
RefusedUnlessBusy(c, e, p, busy, slots) ==          \* mutant: busy forgotten
    slots[c] # NoRequest \/ Tripped(p, e) \/ (p.processes[e] = 0 /\ ~scanned)

RefusedUnlessTripped(c, e, p, busy, slots) ==       \* mutant: breaker forgotten
    slots[c] # NoRequest \/ e \in busy \/ (p.processes[e] = 0 /\ ~scanned)

Refused(c, e, p, busy, slots) ==
    \/ slots[c] # NoRequest
    \/ e \in busy
    \/ Tripped(p, e)
    \/ p.processes[e] = 0 /\ ~scanned

\* The two dispatches up to the spawned thread, from the state (p, busy,
\* slots) their caller has reached: a warm client is taken, or without one a
\* new client will be opened (reheat).
Requested(c, e, p, busy, slots) ==
    IF Refused(c, e, p, busy, slots)
    THEN /\ pool' = p
         /\ inflight' = busy
         /\ rx' = slots
         /\ UNCHANGED overlapped
    ELSE LET reheat == p.processes[e] = 0
         IN  /\ pool' = IF reheat THEN p ELSE Taken(p, e)
             /\ inflight' = busy \cup {e}
             /\ rx' = [slots EXCEPT ![c] = [ext |-> e, reheat |-> reheat]]
             /\ overlapped' = overlapped \cup (IF StillToCome(e) THEN {e} ELSE {})

\* Enter on a command, a fallback item, or the confirmation of either.
DispatchInvoke(e) ==
    /\ visible
    /\ e \in listed
    /\ Requested("invoke", e, pool, inflight, rx)
    /\ UNCHANGED <<visible, orphans, templates, aggregation, listed>>

\* A page command, the refresh of the page on top of the stack, or Ctrl+F,
\* which works as soon as exts is set, before its extension has arrived.
DispatchFetchPage(e) ==
    /\ visible
    /\ e \in listed \cup Direct
    /\ Requested("page", e, pool, inflight, rx)
    /\ UNCHANGED <<visible, orphans, templates, aggregation, listed>>

\* FallbackStore::wants, asked of the clients in the vector.
Wanted(p, store) == {e \in Ext : p.processes[e] > 0 /\ store[e] = "unknown"}

\* start_fallback_fetch_chain: the first client whose templates are wanted.
\* It looks at neither inflight nor the crash guards.
FallbackStarted(p, busy, slots, store) ==
    LET wanted == Wanted(p, store)
    IN  IF slots["fallback"] # NoRequest \/ wanted = {}
        THEN /\ pool' = p
             /\ inflight' = busy
             /\ rx' = slots
             /\ templates' = store
        ELSE \E e \in wanted :
             /\ pool' = Taken(p, e)
             /\ inflight' = busy \cup {e}
             /\ rx' = [slots EXCEPT !["fallback"] = [ext |-> e, reheat |-> FALSE]]
             /\ templates' = [store EXCEPT ![e] = "fetching"]

\* sync_fallback, on a frame that shows the root page without a match.
SyncFallback ==
    /\ visible
    /\ phase = "idle"
    /\ FallbackStarted(pool, inflight, rx, templates)
    /\ UNCHANGED <<visible, orphans, aggregation, listed, overlapped>>

-----------------------------------------------------------------------------
(* Requests: the polls of ui().                                            *)

\* The outcomes a request can have: only a process exits, only the worker of
\* an in-process extension hangs, only a reheat can fail to open a client.
Outcomes(request) ==
    {o \in Outcome : /\ o = "exit" => request.ext \notin InProc
                     /\ o = "hang" => request.ext \in InProc
                     /\ o = "nospawn" => request.reheat}

\* poll_invoke, and poll_page while its page is on top: a reheated client
\* is kept only if the request succeeded, and no crash is counted against
\* it; a borrowed client comes back unless it is dead or stuck.
Returned(p, request, outcome) ==
    LET e == request.ext
    IN  CASE outcome = "ok" /\ request.reheat  -> MarkedWarm(Stored(p, e), e)
          [] outcome = "ok" /\ ~request.reheat -> Stored(p, e)
          [] outcome # "ok" /\ request.reheat  -> p
          [] outcome = "exit" /\ ~request.reheat ->
                CrashRecorded(DroppedToStub(p, e), e, 1)
          [] outcome = "hang" /\ ~request.reheat -> MarkedFailed(p, e)
          [] outcome = "err" /\ ~request.reheat  -> Stored(p, e)

\* poll_page after the user has left the page: a success is stored without
\* being marked warm, a dead or failed reheated client is dropped uncounted.
ReturnedOffPage(p, request, outcome) ==
    LET e == request.ext
    IN  CASE outcome = "ok" -> Stored(p, e)
          [] outcome = "nospawn" -> p
          [] outcome = "exit" -> DroppedToStub(p, e)
          [] outcome = "err"  -> IF request.reheat THEN DroppedToStub(p, e)
                                 ELSE Stored(p, e)
          [] outcome = "hang" -> IF request.reheat THEN DroppedToStub(p, e)
                                 ELSE MarkedFailed(p, e)

\* Every poll that has an answer clears the busy mark first.
NotFreed(busy, e) == busy                           \* mutant: mark forgotten

Freed(busy, e) == busy \ {e}

\* poll_invoke: the client comes back, then apply_action: nothing for the
\* pool, Dismiss or Hide, or GoToPage with its dispatch_fetch_page.
PollInvoke ==
    LET request == rx["invoke"]
        e       == request.ext
        busy    == Freed(inflight, e)
        slots   == [rx EXCEPT !["invoke"] = NoRequest]
    IN  /\ visible
        /\ request # NoRequest
        /\ \E outcome \in Outcomes(request) :
             LET p == Returned(pool, request, outcome)
             IN  \/ /\ pool' = p
                    /\ inflight' = busy
                    /\ rx' = slots
                    /\ visible' \in (IF outcome = "ok" THEN BOOLEAN ELSE {TRUE})
                    /\ UNCHANGED overlapped
                 \/ /\ outcome = "ok"
                    /\ Requested("page", e, p, busy, slots)
                    /\ UNCHANGED visible
        /\ UNCHANGED <<orphans, templates, aggregation, listed>>

PollPage ==
    LET request == rx["page"]
    IN  /\ visible
        /\ request # NoRequest
        /\ \E outcome \in Outcomes(request) :
             \/ /\ pool' = Returned(pool, request, outcome)
                /\ listed' = listed \cup (IF outcome = "ok" THEN {request.ext}
                                         ELSE {})
             \/ /\ pool' = ReturnedOffPage(pool, request, outcome)
                /\ UNCHANGED listed
        /\ inflight' = Freed(inflight, request.ext)
        /\ rx' = [rx EXCEPT !["page"] = NoRequest]
        /\ UNCHANGED <<visible, orphans, templates, aggregation, overlapped>>

\* poll_fallback: the templates are filed, the client comes back (a dead one
\* is dropped without a crash being counted), the chain goes on.
PollFallback ==
    LET request == rx["fallback"]
        e       == request.ext
        p(outcome) == CASE outcome = "exit" -> DroppedToStub(pool, e)
                        [] outcome = "hang" -> MarkedFailed(pool, e)
                        [] OTHER            -> Stored(pool, e)
    IN  /\ visible
        /\ request # NoRequest
        /\ \E outcome \in Outcomes(request) :
             FallbackStarted(p(outcome), Freed(inflight, e),
                             [rx EXCEPT !["fallback"] = NoRequest],
                             [templates EXCEPT ![e] = "settled"])
        /\ UNCHANGED <<visible, orphans, aggregation, listed, overlapped>>

\* A thread ended without an answer: the Disconnected arm of the polls drops
\* the receiver and leaves inflight as it is.
PollDisconnected(c) ==
    /\ WorkerMayPanic
    /\ visible
    /\ rx[c] # NoRequest
    /\ rx' = [rx EXCEPT ![c] = NoRequest]
    /\ UNCHANGED <<visible, pool, inflight, orphans, templates, aggregation,
                   listed, overlapped>>

\* A fallback call nobody waits for returns: its client is dropped with it.
OrphanFinishes(e) ==
    /\ orphans[e] > 0
    /\ orphans' = [orphans EXCEPT ![e] = @ - 1]
    /\ UNCHANGED <<visible, pool, inflight, rx, templates, aggregation,
                   listed, overlapped>>

-----------------------------------------------------------------------------
(* Aggregation rounds.                                                     *)

\* restart_aggregation from the pool p: the templates, the busy marks and
\* the fallback receiver go; the other two receivers stay.
Restarted(p) ==
    LET dropped == rx["fallback"].ext
    IN  /\ rounds < MaxRounds
        /\ rounds' = rounds + 1
        /\ pool' = p
        /\ templates' = [e \in Ext |-> "unknown"]
        /\ inflight' = {}
        /\ rx' = [rx EXCEPT !["fallback"] = NoRequest]
        /\ orphans' = [e \in Ext |-> orphans[e] + (IF e = dropped THEN 1 ELSE 0)]
        /\ phase' = "scan"
        /\ todo' = {}
        /\ overlapped' = overlapped \cup {e \in Ext : Calls(e) > 0}
        /\ UNCHANGED <<visible, arrived, scanned, listed>>

\* Top-level items_changed, settings left with changes, a trust decision.
RestartAggregation ==
    /\ visible
    /\ Restarted(pool)

\* The Retry button, which a row shows only while its source has failed.
Retry(e) ==
    /\ visible
    /\ pool.sources[e] = "Failed"
    /\ Restarted([pool EXCEPT !.crash_guards[e] = NewGuard])

\* apply_aggregate_meta; active leaves out disabled and untrusted extensions.
MetaArrives ==
    /\ phase = "scan"
    /\ phase' = "stream"
    /\ \E active \in SUBSET Ext : todo' = active
    /\ arrived' = [e \in Ext |-> "None"]
    /\ scanned' = TRUE
    /\ UNCHANGED <<visible, pool, inflight, rx, orphans, templates, listed,
                   rounds, overlapped>>

\* apply_aggregate_ext: the first result of a round empties the vector, a
\* ready extension brings its client, and the sources and the root list are
\* rebuilt from what has arrived (listed keeps the extensions of earlier
\* rounds, which an open page may still show).  Only a process has a stub.
ExtArrives(e, outcome) ==
    LET kept == IF FirstArrival THEN [x \in Ext |-> 0] ELSE pool.processes
    IN  /\ phase = "stream"
        /\ e \in todo
        /\ outcome = "Stub" => e \notin InProc
        /\ todo' = todo \ {e}
        /\ arrived' = [arrived EXCEPT ![e] = outcome]
        /\ pool' = [pool EXCEPT
                     !.processes = IF outcome = "Warm"
                                   THEN [kept EXCEPT ![e] = @ + 1] ELSE kept,
                     !.sources = arrived']
        /\ listed' = listed \cup (IF outcome = "Failed" THEN {} ELSE {e})
        /\ UNCHANGED <<visible, inflight, rx, orphans, templates, phase,
                       scanned, rounds, overlapped>>

\* The vector as a sequence of ids: every order it may have.
Vectors(processes) ==
    LET length == Cardinality(UNION {{e} \X (1 .. processes[e]) : e \in Ext})
    IN  {v \in [1 .. length -> Ext] :
           \A e \in Ext :
             Cardinality({i \in 1 .. length : v[i] = e}) = processes[e]}

\* finish_aggregation: every client is accessed in vector order, and only
\* after that loop are the victims it collected evicted.
AccessAll(p, vector) ==
    LET end == AccessedInTurn(p.lru, vector)
    IN  Evicted([p EXCEPT !.lru = end.lru], end.victims)

AggregationDone ==
    /\ phase = "stream"
    /\ todo = {}
    /\ phase' = "idle"
    /\ arrived' = [e \in Ext |-> "None"]
    /\ \E vector \in Vectors(pool.processes) : pool' = AccessAll(pool, vector)
    /\ UNCHANGED <<visible, inflight, rx, orphans, templates, todo, scanned,
                   listed, rounds, overlapped>>

\* The round's thread ended without Done: only the loading state stops.
AggregationLost ==
    /\ WorkerMayPanic
    /\ phase # "idle"
    /\ phase' = "idle"
    /\ todo' = {}
    /\ UNCHANGED <<visible, pool, inflight, rx, orphans, templates, arrived,
                   scanned, listed, rounds, overlapped>>

-----------------------------------------------------------------------------
(* The frame loop's housekeeping, the settings and the window.             *)

\* What refresh_health may see of the clients of e in the vector: how many
\* have exited, and how many of those with a non-zero code.
Exits(e) ==
    {x \in [exited : 0 .. pool.processes[e], crashed : 0 .. pool.processes[e]] :
       /\ x.crashed <= x.exited
       /\ e \in InProc => x.exited = 0}

\* If any client of an extension has exited all of them are dropped
\* (drop_source_to_stub), and each crash is recorded.
Reaped(p, exits) ==
    LET guard(e)  == AfterCrashes(p.crash_guards[e], exits[e].crashed)
        status(e) == IF p.sources[e] = "None" \/ exits[e].exited = 0
                     THEN p.sources[e]
                     ELSE IF guard(e).tripped /\ ~Tripped(p, e) THEN "Failed"
                     ELSE IF p.sources[e] = "Failed" THEN "Failed" ELSE "Stub"
    IN  [processes    |-> [e \in Ext |-> IF exits[e].exited = 0
                                         THEN p.processes[e] ELSE 0],
         lru          |-> RemovedAll(p.lru, {e \in Ext : exits[e].exited > 0}),
         sources      |-> [e \in Ext |-> status(e)],
         crash_guards |-> [e \in Ext |-> guard(e)]]

\* warm_idle_reclaim: those of the n longest idle that are in the vector.
InVector(p, ids) == Without(ids, {e \in Ext : p.processes[e] = 0})

Reclaimed(p, n) == Evicted(p, InVector(p, IdleVictims(p.lru, n)))

\* refresh_health, every frame; it reclaims only while the panel is hidden.
RefreshHealth ==
    /\ \E e \in Ext : pool.processes[e] > 0
    /\ \E exits \in [Ext -> UNION {Exits(e) : e \in Ext}] :
         /\ \A e \in Ext : exits[e] \in Exits(e)
         /\ LET reaped == Reaped(pool, exits)
            IN  \E n \in 0 .. (IF visible THEN 0 ELSE Len(reaped.lru.order)) :
                  pool' = Reclaimed(reaped, n)
    /\ UNCHANGED <<visible, inflight, rx, orphans, templates, aggregation,
                   listed, overlapped>>

\* apply_warm_capacity.
SetCapacity(capacity) ==
    /\ visible
    /\ capacity # pool.lru.capacity
    /\ pool' = Evicted([pool EXCEPT !.lru = Resized(@, capacity)],
                       VictimsOfResize(pool.lru, capacity))
    /\ UNCHANGED <<visible, inflight, rx, orphans, templates, aggregation,
                   listed, overlapped>>

Show ==
    /\ ~visible
    /\ visible' = TRUE
    /\ UNCHANGED <<pool, inflight, rx, orphans, templates, aggregation,
                   listed, overlapped>>

Hide ==
    /\ visible
    /\ visible' = FALSE
    /\ UNCHANGED <<pool, inflight, rx, orphans, templates, aggregation,
                   listed, overlapped>>

-----------------------------------------------------------------------------
Arrivals == \E e \in Ext : \E outcome \in Status \ {"None"} : ExtArrives(e, outcome)

Next ==
    \/ \E e \in Ext : DispatchInvoke(e)
    \/ \E e \in Ext : DispatchFetchPage(e)
    \/ SyncFallback
    \/ PollInvoke
    \/ PollPage
    \/ PollFallback
    \/ \E c \in Channel : PollDisconnected(c)
    \/ \E e \in Ext : OrphanFinishes(e)
    \/ RestartAggregation
    \/ \E e \in Ext : Retry(e)
    \/ MetaArrives
    \/ Arrivals
    \/ AggregationDone
    \/ AggregationLost
    \/ RefreshHealth
    \/ \E capacity \in 1 .. MaxCapacity : SetCapacity(capacity)
    \/ Show
    \/ Hide

Spec == Init /\ [][Next]_vars

\* The patrol of a panel hidden for so long that every client is idle.
IdleReclaim ==
    /\ ~visible
    /\ RefreshHealth
    /\ pool' = Reclaimed(pool, Len(pool.lru.order))

\* Threads answer (a call times out), an aggregation round comes to its end
\* (calls time out there too), and a hidden panel is woken every 15 s to
\* reclaim what has been idle; the polls run only on frames of a visible
\* panel, which the user shows and hides, hence strong fairness.
Fairness ==
    /\ SF_vars(PollInvoke) /\ SF_vars(PollPage) /\ SF_vars(PollFallback)
    /\ WF_vars(MetaArrives) /\ WF_vars(Arrivals) /\ WF_vars(AggregationDone)
    /\ WF_vars(IdleReclaim)

FairSpec == Spec /\ Fairness

-----------------------------------------------------------------------------
(* What a history without overlap guarantees.  An extension is in          *)
(* overlapped once a request of it was outstanding when a round started or *)
(* was sent before the round had delivered the extension.                  *)

\* Calls on an extension are serialised, and at most one client of it exists:
\* it is in the vector or a request has it, never both (app/mod.rs, the
\* fields processes and inflight; protocol section 4).
SerialPerExtension ==
    \A e \in Ext \ overlapped : Calls(e) + pool.processes[e] <= 1

\* Why it is so, as an inductive invariant: the client of e, the busy mark and
\* the one slot that names e are handed over together, the running round has
\* not yet delivered what it has still to deliver, and no fallback call runs
\* beside a round.  (p, busy, slots) stand for (pool, inflight, rx).
Exclusive(e, p, busy, slots) ==
    /\ p.processes[e] <= 1
    /\ p.processes[e] = 1 => e \notin busy
    /\ \A c \in Channel : slots[c].ext = e => e \in busy
    /\ \A c, d \in Channel : slots[c].ext = e /\ slots[d].ext = e => c = d
    /\ StillToCome(e) => e \notin busy
    /\ e \in todo /\ ~FirstArrival => p.processes[e] = 0

OneHolder ==
    /\ \A e \in Ext \ overlapped : Exclusive(e, pool, inflight, rx) /\ orphans[e] = 0
    /\ phase # "idle" => rx["fallback"] = NoRequest
    /\ phase # "stream" => todo = {}

\* Once the breaker of an extension is open no invoke or get_items of it is
\* under way, so none can come back and close it (app/health.rs, section 11).
TrippedIsQuiet ==
    \A e \in Ext \ overlapped :
      Tripped(pool, e) => rx["invoke"].ext # e /\ rx["page"].ext # e

\* An open breaker is closed by the Retry button and by nothing else.
TripIsSticky ==
    [][\A e \in Ext \ overlapped' :
         Tripped(pool, e) => Tripped(pool, e)' \/ Retry(e)]_vars

\* Between rounds every warm client is in the LRU set, which is within its
\* capacity: none is beyond the reach of eviction and of idle reclaim.
LruCoversPool ==
    /\ Len(pool.lru.order) <= pool.lru.capacity
    /\ phase = "idle" =>
         \A e \in Ext \ overlapped :
           pool.processes[e] > 0 => e \in ToSet(pool.lru.order)

(* What holds whether or not requests overlap rounds.                      *)

\* A busy extension is free again after a while if the panel keeps being shown.
RequestsSettle == []<>visible => \A e \in Ext : e \in inflight ~> e \notin inflight

\* A panel that stays hidden gives up all its warm clients (warm_idle_reclaim
\* exists because the pool "only grows"), save those of overlapped extensions.
HiddenReleases ==
    <>[]~visible => <>[](\A e \in Ext \ overlapped : pool.processes[e] = 0)

(* What the comments and the protocol say, and the code does not keep.     *)

\* "At most one in-flight request per extension at any time."
AtMostOneInFlight == \A e \in Ext : Calls(e) <= 1

\* While the breaker is open and nothing is loading, the settings page offers
\* the retry that closes it, for it shows the source as failed.
TrippedOffersRetry ==
    \A e \in Ext : phase = "idle" /\ Tripped(pool, e)
                     => pool.sources[e] \in {"None", "Failed"}

\* A source is Warm only while a client of it is kept, or is at work.
WarmMeansProcess ==
    \A e \in Ext : pool.sources[e] = "Warm" => pool.processes[e] + Calls(e) > 0
=============================================================================
