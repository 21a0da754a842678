---------------------------- MODULE ExtProcess ----------------------------
(***************************************************************************)
(* One extension process and its client (ExtensionProcess in               *)
(* crates/dd-host/src/process.rs).  Four parties move independently: the   *)
(* process, the reader thread, a worker thread that has borrowed the       *)
(* client for some calls, and the frame loop, which polls the client while *)
(* it is in the pool.  They meet in the pipe to the process's standard     *)
(* input and in the bounded queue of InboundGate.                          *)
(***************************************************************************)
EXTENDS Naturals, Sequences

CONSTANTS
    Kinds,        \* the kinds of frame the extension sends in this instance
    MaxCalls,     \* bound: requests of the host
    MaxFrames,    \* bound: frames of the extension
    QueueCap,     \* INBOUND_QUEUE_CAP, 128 in the code
    RequestCap,   \* HOST_REQUESTS_CAP, 32 in the code
    PipeCap       \* messages the pipe to standard input holds

\* Frames by what the client does with them.  "declared" and "undeclared" are
\* host/* requests, "other" stands for every frame that is only kept for
\* diagnosis, "invalid" for a line that is no JSON-RPC envelope.
AllKinds == {"response", "declared", "undeclared", "changed", "other",
             "invalid", "toolarge", "notutf8"}

ASSUME KindsAssumption == Kinds \subseteq AllKinds
ASSUME CapAssumption ==
    /\ MaxCalls \in Nat /\ MaxFrames \in Nat
    /\ QueueCap \in Nat \ {0} /\ RequestCap \in Nat \ {0} /\ PipeCap \in Nat \ {0}

Call == 1 .. MaxCalls

Message == [kind : Kinds \ {"response"}, id : {0}]
             \cup [kind : Kinds \cap {"response"}, id : Call]

\* What the host writes: a request, or the answer to a frame.
Written == [kind : {"call"}, id : Call]
             \cup [kind : {"reply", "refusal", "oversized"}, id : {0}]
NoMessage == [kind |-> "nothing", id |-> 0]

\* How a call ended: ProtocolError by what it tells the caller.
Outcome == {"none", "answered", "timeout", "exited", "toolarge", "notutf8", "io"}

VARIABLES
    queue, cut, owing, overflown, dropped, swapping, received, last, reported,
    alive,          \* the process runs
    reader,         \* the reader thread: reading, poisoned (Decoder) or ended
    stdin,          \* the pipe to the process
    stdout,         \* the pipe from it, as whole frames
    read,           \* calls the process has read: it may answer them
    offered,        \* history: calls it has answered
    holder,         \* who has the client: worker, pool, or none (dropped)
    ready,          \* initialize has succeeded: declared is set
    next_id,        \* the id of the next request
    waiting,        \* the request in flight, 0 if there is none
    polling,        \* poll_notifications is running
    owed,           \* what the host is about to write, or blocked on
    host_requests,  \* reverse requests on record, for the frame loop to run
    outcome,        \* history: how each call ended
    ran,            \* history: kinds of reverse requests that were run
    unreported      \* history: an items_changed was taken and not reported

gateVars == <<queue, cut, owing, overflown, dropped, swapping, received, last,
              reported>>
childVars == <<alive, reader, stdin, stdout, read, offered>>
callVars == <<ready, next_id, waiting, outcome>>
hostVars == <<holder, polling, owed, host_requests, ran, unreported>>

vars == <<gateVars, childVars, callVars, hostVars>>

Gate == INSTANCE InboundGate WITH Body <- Message

TypeOK ==
    /\ Gate!TypeOK
    /\ alive \in BOOLEAN
    /\ reader \in {"reading", "poisoned", "ended"}
    /\ stdin \in Seq(Written) /\ Len(stdin) <= PipeCap
    /\ stdout \in Seq(Message)
    /\ read \subseteq Call /\ offered \subseteq Call
    /\ holder \in {"worker", "pool", "none"}
    /\ ready \in BOOLEAN
    /\ next_id \in 1 .. MaxCalls + 1
    /\ waiting \in {0} \cup Call
    /\ polling \in BOOLEAN
    /\ owed \in Written \cup {NoMessage}
    /\ host_requests \in Seq({"declared", "undeclared"})
    /\ Len(host_requests) <= RequestCap
    /\ outcome \in [Call -> Outcome]
    /\ ran \subseteq {"declared", "undeclared"}
    /\ unreported \in BOOLEAN

\* spawn: a worker starts the process and holds its client.
Init ==
    /\ Gate!Init
    /\ alive = TRUE /\ reader = "reading" /\ stdin = <<>> /\ stdout = <<>>
    /\ read = {} /\ offered = {}
    /\ holder = "worker" /\ ready = FALSE /\ next_id = 1 /\ waiting = 0
    /\ polling = FALSE /\ owed = NoMessage /\ host_requests = <<>>
    /\ outcome = [c \in Call |-> "none"]
    /\ ran = {} /\ unreported = FALSE

-----------------------------------------------------------------------------
(* The process and the reader thread.                                      *)

ProcessReads ==
    /\ alive
    /\ stdin # <<>>
    /\ stdin' = Tail(stdin)
    /\ read' = read \cup (IF Head(stdin).kind = "call" THEN {Head(stdin).id} ELSE {})
    /\ UNCHANGED <<gateVars, alive, reader, stdout, offered, callVars, hostVars>>

\* The process may say anything at any time, and answer a request it has read
\* late, twice or never.
ProcessWrites(message) ==
    /\ alive
    /\ cut + Len(stdout) < MaxFrames
    /\ message.kind = "response" => message.id \in read
    /\ stdout' = Append(stdout, message)
    /\ offered' = IF message.kind = "response" THEN offered \cup {message.id}
                                              ELSE offered
    /\ UNCHANGED <<gateVars, alive, reader, stdin, read, callVars, hostVars>>

\* read_loop: the frames of a chunk are delivered one by one.  An oversized
\* message poisons the decoder, unless its end came with the chunk that made it
\* too long.
ReaderDelivers ==
    /\ reader = "reading"
    /\ holder # "none"
    /\ stdout # <<>>
    /\ Gate!Deliver(Head(stdout))
    /\ stdout' = Tail(stdout)
    /\ reader' \in {reader} \cup (IF Head(stdout).kind = "toolarge"
                                 THEN {"poisoned"} ELSE {})
    /\ UNCHANGED <<alive, stdin, read, offered, callVars, hostVars>>

\* A poisoned decoder discards whatever comes.
ReaderDiscards ==
    /\ reader = "poisoned"
    /\ stdout # <<>>
    /\ stdout' = Tail(stdout)
    /\ UNCHANGED <<gateVars, alive, reader, stdin, read, offered, callVars, hostVars>>

ReaderUpdates ==
    /\ Gate!RaiseFlag \/ Gate!AddCount
    /\ UNCHANGED <<childVars, callVars, hostVars>>

ProcessExits ==
    /\ alive
    /\ alive' = FALSE
    /\ UNCHANGED <<gateVars, reader, stdin, stdout, read, offered, callVars, hostVars>>

\* read_loop leaves at the end of the stream, and the channel disconnects; or
\* when it meets the other end of the channel gone.
ReaderEnds ==
    /\ reader # "ended"
    /\ owing = {}
    /\ \/ ~alive /\ stdout = <<>>
       \/ holder = "none" /\ reader = "reading"
    /\ reader' = "ended"
    /\ UNCHANGED <<gateVars, alive, stdin, stdout, read, offered, callVars, hostVars>>

-----------------------------------------------------------------------------
(* Writing to the process.                                                 *)

\* The call in flight ends; a successful initialize makes the client ready.
Ends(result) ==
    /\ outcome' = [outcome EXCEPT ![waiting] = result]
    /\ waiting' = 0
    /\ ready' \in (IF waiting = 1 /\ result = "answered" THEN BOOLEAN ELSE {ready})
    /\ UNCHANGED next_id

\* write_message, which waits for room in the pipe.
WriteSucceeds ==
    /\ owed \notin {NoMessage, [kind |-> "oversized", id |-> 0]}
    /\ alive
    /\ Len(stdin) < PipeCap
    /\ stdin' = Append(stdin, owed)
    /\ owed' = NoMessage
    /\ UNCHANGED <<gateVars, alive, reader, stdout, read, offered, callVars,
                   holder, polling, host_requests, ran, unreported>>

WriteRetries ==                         \* mutant: a broken pipe is tried again
    /\ owed # NoMessage
    /\ ~alive
    /\ UNCHANGED vars

\* The pipe is broken: a call fails with it, a poll does not mind.
WriteFails ==
    /\ owed \notin {NoMessage, [kind |-> "oversized", id |-> 0]}
    /\ ~alive
    /\ owed' = NoMessage
    /\ IF waiting # 0 THEN Ends("io") ELSE UNCHANGED callVars
    /\ UNCHANGED <<gateVars, childVars, holder, polling, host_requests, ran,
                   unreported>>

\* abort_oversized: answer if possible, then kill; the call fails, the poll
\* breaks off.
AbortOversized ==
    /\ owed.kind = "oversized"
    /\ alive => Len(stdin) < PipeCap
    /\ alive' = FALSE
    /\ owed' = NoMessage
    /\ polling' = FALSE
    /\ IF waiting # 0 THEN Ends("toolarge") ELSE UNCHANGED callVars
    /\ UNCHANGED <<gateVars, reader, stdin, stdout, read, offered, holder,
                   host_requests, ran, unreported>>

-----------------------------------------------------------------------------
(* The worker: call.                                                       *)

CallStarts ==
    /\ holder = "worker"
    /\ waiting = 0
    /\ next_id <= MaxCalls
    /\ next_id > 1 => ready
    /\ waiting' = next_id
    /\ next_id' = next_id + 1
    /\ owed' = [kind |-> "call", id |-> next_id]
    /\ UNCHANGED <<gateVars, childVars, ready, outcome, holder, polling,
                   host_requests, ran, unreported>>

\* answer_host_request: on record first, the oldest giving way, then answered
\* according to the capabilities initialize has declared.
PushCapped(requests, kind) ==
    Append(IF Len(requests) >= RequestCap THEN Tail(requests) ELSE requests, kind)

ReplyTo(kind) ==
    CASE kind = "declared" /\ ready  -> [kind |-> "reply", id |-> 0]
      [] kind = "declared" /\ ~ready -> [kind |-> "refusal", id |-> 0]
      [] kind \in {"undeclared", "invalid"} -> [kind |-> "refusal", id |-> 0]
      [] kind = "toolarge" -> [kind |-> "oversized", id |-> 0]
      [] OTHER -> NoMessage

\* What handle_line and the loop of poll_notifications share.
Handled(kind) ==
    /\ owed' = ReplyTo(kind)
    /\ host_requests' = IF kind \in {"declared", "undeclared"}
                        THEN PushCapped(host_requests, kind) ELSE host_requests

\* The frame ends the call: the answer to it, or one that is no text.
SettlesAnyResponse(message, id) ==           \* mutant: the id is not compared
    message.kind \in {"response", "notutf8"}

Settles(message, id) ==
    \/ message.kind = "response" /\ message.id = id
    \/ message.kind = "notutf8"

CallReceives ==
    LET message == Head(queue).body
    IN  /\ holder = "worker" /\ waiting # 0 /\ owed = NoMessage
        /\ Gate!Receive
        /\ Handled(message.kind)
        /\ IF Settles(message, waiting)
           THEN Ends(IF message.kind = "response" THEN "answered" ELSE "notutf8")
           ELSE UNCHANGED callVars
        /\ unreported' = (unreported \/ message.kind = "changed")
        /\ UNCHANGED <<childVars, holder, polling, ran>>

\* The deadline is looked at before every wait, so it passes whatever arrives.
CallTimesOut ==
    /\ holder = "worker" /\ waiting # 0 /\ owed = NoMessage
    /\ Ends("timeout")
    /\ UNCHANGED <<gateVars, childVars, hostVars>>

\* The channel is disconnected, which shows only once it is empty.
CallFindsExitAtOnce ==                  \* mutant: has_exited is asked instead
    /\ holder = "worker" /\ waiting # 0 /\ owed = NoMessage
    /\ ~alive
    /\ Ends("exited")
    /\ UNCHANGED <<gateVars, childVars, hostVars>>

CallFindsExit ==
    /\ holder = "worker" /\ waiting # 0 /\ owed = NoMessage
    /\ reader = "ended"
    /\ queue = <<>>
    /\ Ends("exited")
    /\ UNCHANGED <<gateVars, childVars, hostVars>>

-----------------------------------------------------------------------------
(* The frame loop: poll_notifications and the run of reverse requests.     *)

\* take_inbound_overflow comes first.
PollStartsAnew ==                    \* mutant: the flag goes, the count stays
    /\ holder = "pool" /\ ~polling
    /\ polling' = TRUE
    /\ overflown' = FALSE
    /\ UNCHANGED <<queue, cut, owing, dropped, swapping, received, last, reported,
                   childVars, callVars, holder, owed, host_requests, ran, unreported>>

PollStarts ==
    /\ holder = "pool" /\ ~polling
    /\ polling' = TRUE
    /\ IF overflown THEN Gate!SwapFlag ELSE UNCHANGED gateVars
    /\ UNCHANGED <<childVars, callVars, holder, owed, host_requests, ran, unreported>>

PollSwaps ==
    /\ polling
    /\ Gate!SwapCount
    /\ UNCHANGED <<childVars, callVars, hostVars>>

PollReceives ==
    /\ polling /\ owed = NoMessage
    /\ Gate!Receive
    /\ Handled(Head(queue).body.kind)
    /\ UNCHANGED <<childVars, callVars, holder, polling, ran, unreported>>

PollEnds ==
    /\ polling /\ ~swapping /\ owed = NoMessage
    /\ queue = <<>>
    /\ polling' = FALSE
    /\ UNCHANGED <<gateVars, childVars, callVars, holder, owed, host_requests,
                   ran, unreported>>

\* poll_host_requests: drain_host_requests, and each of them is executed.
RunHostRequests ==
    /\ holder = "pool" /\ ~polling
    /\ host_requests # <<>>
    /\ ran' = ran \cup {host_requests[i] : i \in DOMAIN host_requests}
    /\ host_requests' = <<>>
    /\ UNCHANGED <<gateVars, childVars, callVars, holder, polling, owed, unreported>>

-----------------------------------------------------------------------------
(* The client changes hands.                                               *)

Idle == waiting = 0 /\ owed = NoMessage /\ ~polling

Borrow ==
    /\ holder = "pool" /\ Idle
    /\ holder' = "worker"
    /\ UNCHANGED <<gateVars, childVars, callVars, polling, owed, host_requests,
                   ran, unreported>>

GiveBack ==
    /\ holder = "worker" /\ Idle
    /\ ready
    /\ holder' = "pool"
    /\ UNCHANGED <<gateVars, childVars, callVars, polling, owed, host_requests,
                   ran, unreported>>

\* Drop, which also ends close when its call fails or the process lingers.
DropClient ==
    /\ holder # "none" /\ Idle
    /\ holder' = "none"
    /\ alive' = FALSE
    /\ UNCHANGED <<gateVars, reader, stdin, stdout, read, offered, callVars,
                   polling, owed, host_requests, ran, unreported>>

-----------------------------------------------------------------------------
Writing == WriteSucceeds \/ WriteFails \/ AbortOversized
Polling == PollSwaps \/ PollReceives \/ PollEnds

Next ==
    \/ ProcessReads
    \/ \E message \in Message : ProcessWrites(message)
    \/ ReaderDelivers
    \/ ReaderDiscards
    \/ ReaderUpdates
    \/ ProcessExits
    \/ ReaderEnds
    \/ Writing
    \/ CallStarts
    \/ CallReceives
    \/ CallTimesOut
    \/ CallFindsExit
    \/ PollStarts
    \/ Polling
    \/ RunHostRequests
    \/ Borrow
    \/ GiveBack
    \/ DropClient

Spec == Init /\ [][Next]_vars

\* Threads of the host run; a deadline passes, and is noticed at the next turn
\* of the loop even if frames keep coming.
HostFairness ==
    /\ WF_vars(Writing) /\ WF_vars(Polling) /\ SF_vars(CallTimesOut)

HostFairSpec == Spec /\ HostFairness

\* The same with an extension that goes on reading its standard input.
FairSpec == HostFairSpec /\ WF_vars(ProcessReads)

-----------------------------------------------------------------------------
(* The client implements what its callers rely on.                         *)

\* How far each call has come, as its caller sees it.
Status ==
    [c \in Call |-> IF c = waiting THEN "waiting"
                    ELSE IF outcome[c] \in {"none", "answered"} THEN outcome[c]
                    ELSE "failed"]

Rpc == INSTANCE RpcClient WITH status <- Status

\* Calls are made one at a time, each ends once, and is answered only with an
\* answer to that very call, however late other answers arrive (call,
\* handle_line; protocol sections 3.3 and 10).
AnswersOwnCall == Rpc!RpcSafe

\* And each call ends, as long as the extension reads its input.
ImplementsRpc == Rpc!RpcSpec

\* The queue between the threads is the bounded gate of InboundGate.
ImplementsGate == Gate!Spec

\* An answer the extension gave before it exited reaches its caller: a call
\* that reports the exit was not answered, unless a counted drop took the
\* answer (call waits for Disconnected, which comes after the queued frames).
FramesLost == reported + dropped > 0 \/ "count" \in owing

AnswerBeatsExit ==
    \A c \in offered : outcome[c] = "exited" => FramesLost

\* poll_notifications comes back to the frame loop ("non-blocking").
PollsReturn == polling ~> ~polling

(* What the comments and the protocol say, and the code does not keep.     *)

\* A reverse request that is refused is not carried out (capabilities come
\* first, protocol section 7.4).
RefusedIsNotRun == "undeclared" \notin ran

\* items_changed may arrive at any time, while a request is processed too, and
\* is merged into the next refresh (section 12): it is never just swallowed.
ChangesAreReported == ~unreported

\* An oversized message closes the connection (section 2.3): once the decoder
\* is poisoned the process is dead, or the host is about to hear of it.
OversizedIsClosed ==
    reader = "poisoned" /\ alive =>
      \/ \E i \in DOMAIN queue : queue[i].body.kind = "toolarge"
      \/ owed.kind = "oversized"
=============================================================================
