----------------------------- MODULE InProcess -----------------------------
(***************************************************************************)
(* The client of a built-in extension (crates/dd-gui/src/ext_client.rs,    *)
(* ext_inprocess.rs): no process, but a call runs on a thread of its own   *)
(* and may take longer than the caller waits.  The object, and with it     *)
(* what the calls asked the host for, moves into the thread and comes back *)
(* with the result; a call that is given up keeps its object for good.     *)
(***************************************************************************)
EXTENDS Naturals, Sequences, SequencesExt, FiniteSetsExt

CONSTANTS
    MaxCalls,       \* bound: calls, initialize among them
    RequestsCap,    \* HOST_REQUESTS_CAP
    BusCap,         \* DIAGNOSTIC_BUS_CAP
    MaxEffects      \* bound: effects of one call

Call == 1 .. MaxCalls
Nobody == 0

\* An InProcessExtension: its reverse requests and its notifications, each
\* named by the call that made it and its place in that call.
Asked == Call \X (1 .. MaxEffects)
Fresh == [host_requests |-> <<>>, notifications |-> <<>>]

VARIABLES
    state,      \* of the client: "closed", "opening", "open", or "hung"
    slot,       \* the object in the client, as a sequence of none or one
    threads,    \* calls that are running, with the object each of them has
    waiting,    \* the call the caller waits for, Nobody if none
    calls,      \* calls made so far
    ended,      \* ghost: how each call ended for its caller
    ran,        \* ghost: reverse requests the frame loop has drained
    reported    \* ghost: notifications it has polled

inprocVars == <<state, slot, threads, waiting, calls, ended, ran, reported>>

Ending == {"none", "ok", "error", "timeout"}

TypeOK ==
    /\ state \in {"closed", "opening", "open", "hung"}
    /\ \A object \in ToSet(slot) \cup {t.object : t \in threads} :
          /\ ToSet(object.host_requests) \subseteq Asked
          /\ Len(object.host_requests) <= RequestsCap
          /\ ToSet(object.notifications) \subseteq Asked
          /\ Len(object.notifications) <= BusCap
    /\ \A t \in threads : t.call \in Call
    /\ waiting \in Call \cup {Nobody} /\ calls \in 0 .. MaxCalls
    /\ ended \in [Call -> Ending]
    /\ ToSet(ran) \cup ToSet(reported) \subseteq Asked
    /\ slot # <<>> => state = "open" /\ waiting = Nobody

Init ==
    /\ state = "closed" /\ slot = <<>> /\ threads = {} /\ waiting = Nobody
    /\ calls = 0 /\ ended = [c \in Call |-> "none"] /\ ran = <<>> /\ reported = <<>>

-----------------------------------------------------------------------------
\* run_with_timeout: the object goes into a thread
Start(object) ==
    /\ calls < MaxCalls
    /\ calls' = calls + 1
    /\ waiting' = calls + 1
    /\ threads' = threads \cup {[call |-> calls + 1, object |-> object]}

\* open_builtin: a new object, and initialize on it
OpenBuiltin ==
    /\ state = "closed"
    /\ Start(Fresh)
    /\ state' = "opening"
    /\ UNCHANGED <<slot, ended, ran, reported>>

\* inproc_call with the object at hand; without it the call fails at once with
\* hung_error and changes nothing.
InprocCall ==
    /\ state = "open" /\ slot # <<>>
    /\ Start(Head(slot))
    /\ slot' = <<>>
    /\ UNCHANGED <<state, ended, ran, reported>>

\* drop-oldest, as the buses are bounded
Capped(bus, cap) == SubSeq(bus, Max({1, Len(bus) - cap + 1}), Len(bus))

\* call: the answer comes first in what serve_line returns, its effects after.
Routed(object, requests, notifications) ==
    [host_requests |-> Capped(object.host_requests \o requests, RequestsCap),
     notifications |-> Capped(object.notifications \o notifications, BusCap)]

\* The thread is done before the caller has given up.  A panic is caught and is
\* an error without effects; so may an error be that the extension answers.
Returns(t, requests, notifications, result) ==
    /\ t.call = waiting
    /\ result = "error" => requests = <<>> /\ notifications = <<>>
    /\ state = "opening" => requests = <<>> /\ notifications = <<>>
    /\ threads' = threads \ {t}
    /\ waiting' = Nobody
    /\ ended' = [ended EXCEPT ![t.call] = result]
    /\ state' = IF state = "open" \/ result = "ok" THEN "open" ELSE "closed"
    /\ slot' = IF state' = "open" THEN <<Routed(t.object, requests, notifications)>> ELSE <<>>
    /\ UNCHANGED <<calls, ran, reported>>

\* mutant: a client that is left without its object takes it back
ReturnsTooLateToTheClient(t) ==
    /\ t.call # waiting
    /\ threads' = threads \ {t}
    /\ slot' = IF state = "hung" THEN <<Routed(t.object, << <<t.call, 1>> >>, <<>>)>> ELSE slot
    /\ state' = IF state = "hung" THEN "open" ELSE state
    /\ UNCHANGED <<waiting, calls, ended, ran, reported>>

\* Nobody receives: the object, and all it has been asked for, is dropped.
ReturnsTooLate(t) ==
    /\ t.call # waiting
    /\ threads' = threads \ {t}
    /\ UNCHANGED <<state, slot, waiting, calls, ended, ran, reported>>

\* recv_timeout: open fails, or the client is left without its object
TimesOut ==
    /\ waiting # Nobody
    /\ ended' = [ended EXCEPT ![waiting] = "timeout"]
    /\ waiting' = Nobody
    /\ state' = IF state = "opening" THEN "closed" ELSE "hung"
    /\ UNCHANGED <<slot, threads, calls, ran, reported>>

\* The frame loop polls a client that is in the pool; a hung one has nothing.
Poll ==
    /\ state = "open" /\ slot # <<>>
    /\ Head(slot) # Fresh
    /\ ran' = ran \o Head(slot).host_requests
    /\ reported' = reported \o Head(slot).notifications
    /\ slot' = <<Fresh>>
    /\ UNCHANGED <<state, threads, waiting, calls, ended>>

\* store_warm_process refuses a hung client, the pool evicts an open one; the
\* next request opens another.
Close ==
    /\ waiting = Nobody /\ state \in {"open", "hung"}
    /\ state' = "closed"
    /\ slot' = <<>>
    /\ UNCHANGED <<threads, waiting, calls, ended, ran, reported>>

EffectsOf(call) == {[i \in 1 .. n |-> <<call, i>>] : n \in 0 .. MaxEffects}

Next ==
    \/ OpenBuiltin
    \/ InprocCall
    \/ \E t \in threads, result \in {"ok", "error"} :
          \E requests, notifications \in EffectsOf(t.call) :
             Returns(t, requests, notifications, result)
    \/ \E t \in threads : ReturnsTooLate(t)
    \/ TimesOut
    \/ Poll
    \/ Close

Spec == Init /\ [][Next]_inprocVars

-----------------------------------------------------------------------------
\* What the host runs for a built-in extension was asked for by calls that
\* answered their caller in time, in the order of the calls, and is run once:
\* nothing of a call that was given up, however late it ends and however often
\* the extension has been opened again meanwhile.
Increasing(bus) ==
    \A i, j \in DOMAIN bus : i < j => \/ bus[i][1] < bus[j][1]
                                      \/ bus[i][1] = bus[j][1] /\ bus[i][2] < bus[j][2]

RunsWhatWasReturned ==
    /\ Increasing(ran) /\ Increasing(reported)
    /\ \A i \in DOMAIN ran : ended[ran[i][1]] = "ok"
    /\ \A i \in DOMAIN reported : ended[reported[i][1]] = "ok"
=============================================================================
