------------------------- MODULE ExtProcessProofs -------------------------
(***************************************************************************)
(* What ExtProcess guarantees for every number of calls, frames and kinds  *)
(* of frame, and every capacity: its queue is the gate of InboundGate; a   *)
(* call is settled by its own answer only, as RpcClient promises; and an   *)
(* answer is not overtaken by the exit of its process.                     *)
(***************************************************************************)
EXTENDS ExtProcess, TLAPS

IsAnswer(message) == message.kind = "response"

StdoutOK == stdout \in Seq(Message)

\* Requests are numbered one after the other, and those that have ended have an
\* outcome.
Numbered ==
    /\ next_id \in 1 .. MaxCalls + 1
    /\ waiting \in {0} \cup Call
    /\ waiting < next_id
    /\ outcome \in [Call -> Outcome]
    /\ \A c \in Call : outcome[c] = "none" <=> (c >= next_id \/ c = waiting)

\* What the host writes are its messages.
StdinOK ==
    /\ stdin \in Seq(Written)
    /\ owed \in Written \cup {NoMessage}

\* A request reaches the process only after it was made.
Sent ==
    /\ owed.kind = "call" => owed.id < next_id
    /\ \A i \in 1 .. Len(stdin) : stdin[i].kind = "call" => stdin[i].id < next_id
    /\ \A c \in read : c \in Call /\ c < next_id

\* Nothing on its way to the host answers a request that the process has not
\* read and answered.
Causal ==
    /\ offered \subseteq read
    /\ \A i \in 1 .. Len(stdout) : IsAnswer(stdout[i]) => stdout[i].id \in offered
    /\ \A i \in 1 .. Len(queue) :
         IsAnswer(queue[i].body) => queue[i].body.id \in offered

-----------------------------------------------------------------------------
(* The gate.                                                               *)

GateFacts == INSTANCE InboundGateProofs WITH Body <- Message

\* Only frames come from the process.
LEMMA StdoutStep == StdoutOK /\ [Next]_vars => StdoutOK'
<1> SUFFICES ASSUME StdoutOK, [Next]_vars PROVE StdoutOK'
  OBVIOUS
<1> USE DEF StdoutOK
<1>1. ASSUME NEW message \in Message, ProcessWrites(message)
      PROVE  StdoutOK'
  BY <1>1 DEF ProcessWrites
<1>2. CASE ReaderDelivers \/ ReaderDiscards
  BY <1>2 DEF ReaderDelivers, ReaderDiscards
<1>3. CASE UNCHANGED stdout
  BY <1>3
<1> QED
  BY <1>1, <1>2, <1>3
     DEF Next, vars, childVars, Writing, Polling, ProcessReads, ReaderUpdates,
         ProcessExits, ReaderEnds, WriteSucceeds, WriteFails, AbortOversized,
         CallStarts, CallReceives, CallTimesOut, CallFindsExit, PollStarts,
         PollSwaps, PollReceives, PollEnds, RunHostRequests, Borrow, GiveBack,
         DropClient

\* Each step is one of the gate's, or leaves the gate alone.
LEMMA GateStep == StdoutOK /\ [Next]_vars => [Gate!Next]_(Gate!gateVars)
<1> SUFFICES ASSUME StdoutOK, [Next]_vars
             PROVE  [Gate!Next]_(Gate!gateVars)
  OBVIOUS
<1>1. CASE ReaderDelivers
  <2>1. Head(stdout) \in Message
    BY <1>1 DEF ReaderDelivers, StdoutOK
  <2> QED
    BY <1>1, <2>1 DEF ReaderDelivers, Gate!Next
<1>2. CASE ReaderUpdates \/ CallReceives \/ PollStarts \/ Polling
  BY <1>2 DEF ReaderUpdates, CallReceives, PollStarts, Polling, PollSwaps,
              PollReceives, PollEnds, gateVars, Gate!gateVars, Gate!Next
<1>3. CASE UNCHANGED gateVars
  BY <1>3 DEF gateVars, Gate!gateVars
<1> QED
  BY <1>1, <1>2, <1>3
     DEF Next, vars, Writing, ProcessReads, ProcessWrites, ReaderDiscards,
         ProcessExits, ReaderEnds, WriteSucceeds, WriteFails, AbortOversized,
         CallStarts, CallTimesOut, CallFindsExit, RunHostRequests, Borrow,
         GiveBack, DropClient

\* The queue between the reader thread and the client is the gate.
THEOREM QueueIsGate == Spec => ImplementsGate
<1>1. Init => StdoutOK /\ Gate!Init
  BY DEF Init, StdoutOK
<1>2. StdoutOK /\ [Next]_vars => StdoutOK'
  BY StdoutStep
<1>3. StdoutOK /\ [Next]_vars => [Gate!Next]_(Gate!gateVars)
  BY GateStep
<1>4. Spec => Gate!Spec
  BY <1>1, <1>2, <1>3, PTL DEF Spec, Gate!Spec
<1> QED
  BY <1>4 DEF ImplementsGate

\* So no frame of the process is lost uncounted, and none overtakes another.
THEOREM QueueKeepsBooks ==
  Spec => [](Gate!TypeOK /\ Gate!EveryFrameCounted /\ Gate!InOrder)
<1>1. Gate!Init <=> GateFacts!Init
  BY DEF Gate!Init, GateFacts!Init
<1>2. [Gate!Next]_(Gate!gateVars) <=> [GateFacts!Next]_(GateFacts!gateVars)
  BY DEF Gate!Next, GateFacts!Next, Gate!gateVars, GateFacts!gateVars,
         Gate!Deliver, GateFacts!Deliver, Gate!RaiseFlag, GateFacts!RaiseFlag,
         Gate!AddCount, GateFacts!AddCount, Gate!Receive, GateFacts!Receive,
         Gate!SwapFlag, GateFacts!SwapFlag, Gate!SwapCount, GateFacts!SwapCount,
         Gate!Update, GateFacts!Update
<1>3. Gate!Spec => GateFacts!Spec
  BY <1>1, <1>2, PTL DEF Gate!Spec, GateFacts!Spec
<1>4. GateFacts!Spec => [](GateFacts!TypeOK /\ GateFacts!EveryFrameCounted /\ GateFacts!InOrder)
  BY GateFacts!GateBounded, GateFacts!NoLossUncounted, GateFacts!FramesInOrder, CapAssumption, PTL
<1>5. GateFacts!TypeOK /\ GateFacts!EveryFrameCounted /\ GateFacts!InOrder
      => Gate!TypeOK /\ Gate!EveryFrameCounted /\ Gate!InOrder
  BY DEF GateFacts!TypeOK, GateFacts!EveryFrameCounted, GateFacts!InOrder,
         Gate!TypeOK, Gate!EveryFrameCounted, Gate!InOrder, Gate!Frame,
         GateFacts!Frame, Gate!Update, GateFacts!Update
<1> QED
  BY <1>3, <1>4, <1>5, QueueIsGate, PTL DEF ImplementsGate

-----------------------------------------------------------------------------
(* Calls and their answers.                                                *)

\* A call that ends is the one in flight; the others keep their outcome.
LEMMA EndsKeepsNumbers ==
  ASSUME Numbered, waiting # 0, UNCHANGED next_id,
         NEW result \in Outcome \ {"none"}, Ends(result)
  PROVE  Numbered' /\ waiting' = 0
<1>1. /\ waiting \in Call /\ waiting' = 0 /\ next_id' = next_id
      /\ outcome' = [outcome EXCEPT ![waiting] = result]
  BY DEF Numbered, Ends
<1>2. outcome' \in [Call -> Outcome]
  BY <1>1 DEF Numbered
<1>3. ASSUME NEW c \in Call PROVE outcome'[c] = "none" <=> (c >= next_id' \/ c = waiting')
  <2>1. CASE c = waiting
    BY <1>1, <2>1, CapAssumption DEF Numbered, Call
  <2>2. CASE c # waiting
    BY <1>1, <2>2, CapAssumption DEF Numbered, Call
  <2> QED
    BY <2>1, <2>2
<1> QED
  BY <1>1, <1>2, <1>3, CapAssumption DEF Numbered, Call

\* Every step keeps the numbering of requests.
LEMMA NumberedStep == Numbered /\ [Next]_vars => Numbered'
<1> SUFFICES ASSUME Numbered, [Next]_vars PROVE Numbered'
  OBVIOUS
<1>1. CASE CallStarts
  <2>1. /\ waiting = 0 /\ next_id \in Call /\ waiting' = next_id
        /\ next_id' = next_id + 1 /\ outcome' = outcome
    BY <1>1, CapAssumption DEF CallStarts, Numbered, Call
  <2>2. \A c \in Call : c >= next_id <=> (c >= next_id' \/ c = waiting')
    BY <2>1, CapAssumption DEF Call
  <2>3. \A c \in Call : c # waiting
    BY <2>1, CapAssumption DEF Call
  <2> QED
    BY <2>1, <2>2, <2>3, CapAssumption DEF Numbered, Call
<1>2. CASE WriteFails \/ AbortOversized
  <2>1. CASE waiting # 0
    BY <1>2, <2>1, EndsKeepsNumbers DEF WriteFails, AbortOversized, Outcome, Ends
  <2>2. CASE waiting = 0
    BY <1>2, <2>2 DEF WriteFails, AbortOversized, callVars, Numbered
  <2> QED
    BY <2>1, <2>2
<1>3. CASE CallReceives
  <2>1. waiting # 0
    BY <1>3 DEF CallReceives
  <2>2. CASE Ends("answered") \/ Ends("notutf8")
    BY <2>1, <2>2, EndsKeepsNumbers DEF Outcome, Ends
  <2>3. CASE UNCHANGED callVars
    BY <2>3 DEF callVars, Numbered
  <2> QED
    BY <1>3, <2>2, <2>3 DEF CallReceives
<1>4. CASE CallTimesOut \/ CallFindsExit
  BY <1>4, EndsKeepsNumbers DEF CallTimesOut, CallFindsExit, Outcome, Ends
<1>5. CASE UNCHANGED callVars
  BY <1>5 DEF callVars, Numbered
<1>6. CASE WriteSucceeds
  BY <1>6 DEF WriteSucceeds, callVars, Numbered
<1> QED
  BY <1>1, <1>2, <1>3, <1>4, <1>5, <1>6
     DEF Next, vars, Writing, Polling, ProcessReads, ProcessWrites, ReaderDelivers,
         ReaderDiscards, ReaderUpdates, ProcessExits, ReaderEnds, PollStarts,
         PollSwaps, PollReceives, PollEnds, RunHostRequests, Borrow, GiveBack,
         DropClient

\* Every step writes what Written lists.
LEMMA StdinStep == StdinOK /\ Numbered /\ [Next]_vars => StdinOK'
<1> SUFFICES ASSUME StdinOK, Numbered, [Next]_vars PROVE StdinOK'
  OBVIOUS
<1> USE DEF StdinOK
<1>1. CASE CallStarts
  <2>1. next_id \in Call
    BY <1>1, CapAssumption DEF CallStarts, Numbered, Call
  <2>2. [kind |-> "call", id |-> next_id] \in Written
    BY <2>1 DEF Written
  <2> QED
    BY <1>1, <2>2 DEF CallStarts, childVars
<1>2. CASE CallReceives \/ PollReceives
  <2>1. ASSUME NEW kind PROVE ReplyTo(kind) \in Written \cup {NoMessage}
    BY DEF ReplyTo, Written
  <2> QED
    BY <1>2, <2>1 DEF CallReceives, PollReceives, Handled, childVars
<1>3. CASE WriteSucceeds \/ WriteFails \/ AbortOversized
  BY <1>3 DEF WriteSucceeds, WriteFails, AbortOversized, childVars
<1>4. CASE ProcessReads
  BY <1>4 DEF ProcessReads, hostVars
<1>5. CASE UNCHANGED <<stdin, owed>>
  BY <1>5
<1> QED
  BY <1>1, <1>2, <1>3, <1>4, <1>5
     DEF Next, vars, childVars, hostVars, Writing, Polling, ProcessWrites,
         ReaderDelivers, ReaderDiscards, ReaderUpdates, ProcessExits, ReaderEnds,
         CallTimesOut, CallFindsExit, PollStarts, PollSwaps, PollEnds,
         RunHostRequests, Borrow, GiveBack, DropClient

\* Every step sends only requests that were made.
LEMMA SentStep == Sent /\ StdinOK /\ Numbered /\ [Next]_vars => Sent'
<1> SUFFICES ASSUME Sent, StdinOK, Numbered, [Next]_vars PROVE Sent'
  OBVIOUS
<1> USE DEF Sent
<1>1. CASE CallStarts
  <2>1. /\ next_id \in Nat /\ next_id' = next_id + 1
        /\ owed' = [kind |-> "call", id |-> next_id]
        /\ UNCHANGED <<stdin, read>>
    BY <1>1, CapAssumption DEF CallStarts, Numbered, childVars
  <2>2. \A i \in 1 .. Len(stdin) : stdin[i].id \in Nat
    <3>1. \A i \in 1 .. Len(stdin) : stdin[i] \in Written
      BY DEF StdinOK
    <3> QED
      BY <3>1, CapAssumption DEF Written, Call
  <2> QED
    BY <2>1, <2>2, CapAssumption DEF Call
<1>2. CASE CallReceives \/ PollReceives
  <2>1. ASSUME NEW kind PROVE ReplyTo(kind).kind # "call"
    BY DEF ReplyTo, NoMessage
  <2>2. UNCHANGED <<stdin, read, next_id>>
    BY <1>2 DEF CallReceives, PollReceives, childVars, callVars, Ends
  <2> QED
    BY <1>2, <2>1, <2>2 DEF CallReceives, PollReceives, Handled
<1>3. CASE WriteSucceeds
  <2>1. /\ stdin' = Append(stdin, owed) /\ owed'.kind # "call"
        /\ UNCHANGED <<read, next_id>>
    BY <1>3 DEF WriteSucceeds, NoMessage, callVars
  <2>2. \A i \in 1 .. Len(stdin') :
          stdin'[i] = owed \/ (i \in 1 .. Len(stdin) /\ stdin'[i] = stdin[i])
    BY <2>1 DEF StdinOK
  <2> QED
    BY <2>1, <2>2
<1>4. CASE WriteFails \/ AbortOversized
  BY <1>4 DEF WriteFails, AbortOversized, childVars, callVars, Ends, NoMessage
<1>5. CASE ProcessReads
  <2>1. /\ stdin # <<>> /\ stdin' = Tail(stdin) /\ UNCHANGED <<owed, next_id>>
        /\ read' = read \cup (IF Head(stdin).kind = "call" THEN {Head(stdin).id} ELSE {})
    BY <1>5 DEF ProcessReads, hostVars, callVars
  <2>2. Head(stdin) = stdin[1] /\ 1 \in 1 .. Len(stdin) /\ stdin[1] \in Written
    BY <2>1 DEF StdinOK
  <2>3. \A i \in 1 .. Len(stdin') : i + 1 \in 1 .. Len(stdin) /\ stdin'[i] = stdin[i + 1]
    BY <2>1 DEF StdinOK
  <2>4. stdin[1].kind = "call" => stdin[1].id \in Call
    BY <2>2 DEF Written
  <2>5. \A c \in read' : c \in Call /\ c < next_id'
    BY <2>1, <2>2, <2>4
  <2> QED
    BY <2>1, <2>3, <2>5
<1>6. CASE UNCHANGED <<stdin, owed, read, next_id>>
  BY <1>6
<1> QED
  BY <1>1, <1>2, <1>3, <1>4, <1>5, <1>6
     DEF Next, vars, childVars, hostVars, callVars, Writing, Polling, ProcessWrites,
         ReaderDelivers, ReaderDiscards, ReaderUpdates, ProcessExits, ReaderEnds,
         CallTimesOut, CallFindsExit, Ends, PollStarts, PollSwaps, PollEnds,
         RunHostRequests, Borrow, GiveBack, DropClient

\* Every answer on its way was given by the process.
LEMMA CausalStep ==
  Causal /\ Sent /\ StdoutOK /\ Gate!TypeOK /\ [Next]_vars => Causal'
<1> SUFFICES ASSUME Causal, Sent, StdoutOK, Gate!TypeOK, [Next]_vars PROVE Causal'
  OBVIOUS
<1> USE DEF Causal, IsAnswer
<1>1. CASE ProcessReads
  BY <1>1 DEF ProcessReads, gateVars
<1>2. ASSUME NEW message \in Message, ProcessWrites(message) PROVE Causal'
  <2>1. /\ stdout' = Append(stdout, message) /\ UNCHANGED <<queue, read>>
        /\ offered \subseteq offered' /\ offered' \subseteq read
        /\ message.kind = "response" => message.id \in offered'
    BY <1>2 DEF ProcessWrites, gateVars
  <2>2. \A i \in 1 .. Len(stdout') :
          stdout'[i] = message \/ (i \in 1 .. Len(stdout) /\ stdout'[i] = stdout[i])
    BY <2>1 DEF StdoutOK
  <2> QED
    BY <2>1, <2>2
<1>3. CASE ReaderDelivers
  <2>1. /\ stdout # <<>> /\ stdout' = Tail(stdout) /\ UNCHANGED <<offered, read>>
        /\ \/ queue' = queue
           \/ queue' = Append(queue, [no |-> cut', body |-> Head(stdout)])
    BY <1>3 DEF ReaderDelivers, Gate!Deliver
  <2>2. \A i \in 1 .. Len(stdout') :
          i + 1 \in 1 .. Len(stdout) /\ stdout'[i] = stdout[i + 1]
    BY <2>1 DEF StdoutOK
  <2>3. Head(stdout) = stdout[1] /\ 1 \in 1 .. Len(stdout)
    BY <2>1 DEF StdoutOK
  <2>4. \A i \in 1 .. Len(queue') :
          \/ queue'[i].body = stdout[1]
          \/ i \in 1 .. Len(queue) /\ queue'[i] = queue[i]
    BY <2>1, <2>3 DEF Gate!TypeOK
  <2> QED
    BY <2>1, <2>2, <2>3, <2>4
<1>4. CASE ReaderDiscards
  <2>1. /\ stdout # <<>> /\ stdout' = Tail(stdout)
        /\ UNCHANGED <<offered, read, queue>>
    BY <1>4 DEF ReaderDiscards, gateVars
  <2>2. \A i \in 1 .. Len(stdout') :
          i + 1 \in 1 .. Len(stdout) /\ stdout'[i] = stdout[i + 1]
    BY <2>1 DEF StdoutOK
  <2> QED
    BY <2>1, <2>2
<1>5. CASE CallReceives \/ PollReceives
  <2>1. /\ queue # <<>> /\ queue' = Tail(queue)
        /\ UNCHANGED <<offered, read, stdout>>
    BY <1>5 DEF CallReceives, PollReceives, Gate!Receive, childVars
  <2>2. \A i \in 1 .. Len(queue') :
          i + 1 \in 1 .. Len(queue) /\ queue'[i] = queue[i + 1]
    BY <2>1 DEF Gate!TypeOK
  <2> QED
    BY <2>1, <2>2
<1>6. CASE UNCHANGED <<offered, read, stdout, queue>>
  BY <1>6
<1> QED
  BY <1>1, <1>2, <1>3, <1>4, <1>5, <1>6
     DEF Next, vars, gateVars, childVars, Writing, Polling, ReaderUpdates,
         Gate!RaiseFlag, Gate!AddCount, ProcessExits, ReaderEnds, WriteSucceeds,
         WriteFails, AbortOversized, CallStarts, CallTimesOut, CallFindsExit,
         PollStarts, Gate!SwapFlag, PollSwaps, Gate!SwapCount, PollEnds,
         RunHostRequests, Borrow, GiveBack, DropClient

-----------------------------------------------------------------------------
(* What a caller sees.                                                     *)

\* A call that ends is the one a caller waits for, and nothing else changes for
\* any caller.
LEMMA EndsSettles ==
  ASSUME Numbered, waiting # 0, UNCHANGED <<next_id, offered>>,
         NEW result \in Outcome \ {"none"}, Ends(result),
         result = "answered" => waiting \in offered
  PROVE  Rpc!RpcNext
<1>1. /\ waiting \in Call /\ waiting' = 0 /\ waiting \in Rpc!Call
      /\ outcome' = [outcome EXCEPT ![waiting] = result]
      /\ outcome \in [Call -> Outcome]
  BY DEF Numbered, Ends, Call, Rpc!Call
<1>2. Status[waiting] = "waiting"
  BY <1>1 DEF Status
<1>3. Status' = [Status EXCEPT ![waiting] =
                   IF result = "answered" THEN "answered" ELSE "failed"]
  <2>1. \A c \in Call : c # waiting => c # 0 /\ outcome'[c] = outcome[c]
    BY <1>1, CapAssumption DEF Call
  <2>2. waiting # 0 /\ outcome'[waiting] = result
    BY <1>1
  <2>3. \A c \in Call : Status'[c] = IF c = waiting
                    THEN IF result = "answered" THEN "answered" ELSE "failed"
                    ELSE Status[c]
    BY <1>1, <2>1, <2>2 DEF Status
  <2>4. DOMAIN Status = Call /\ DOMAIN Status' = Call
        /\ Status = [c \in Call |-> Status[c]] /\ Status' = [c \in Call |-> Status'[c]]
    BY DEF Status
  <2> QED
    BY <2>3, <2>4
<1>4. CASE result = "answered"
  <2>1. Rpc!Answered(waiting)
    BY <1>2, <1>3, <1>4 DEF Rpc!Answered
  <2> QED
    BY <1>1, <2>1 DEF Rpc!RpcNext
<1>5. CASE result # "answered"
  <2>1. Rpc!Failed(waiting)
    BY <1>2, <1>3, <1>5 DEF Rpc!Failed
  <2> QED
    BY <1>1, <2>1 DEF Rpc!RpcNext
<1> QED
  BY <1>4, <1>5

\* Each step is one a caller expects, or shows him nothing.
LEMMA RpcStep ==
  Numbered /\ Sent /\ Causal /\ Gate!TypeOK /\ [Next]_vars
    => [Rpc!RpcNext]_(Rpc!rpcVars)
<1> SUFFICES ASSUME Numbered, Sent, Causal, Gate!TypeOK, [Next]_vars
             PROVE  [Rpc!RpcNext]_(Rpc!rpcVars)
  OBVIOUS
<1>1. CASE CallStarts
  <2>1. /\ waiting = 0 /\ next_id \in Call /\ waiting' = next_id
        /\ outcome' = outcome /\ offered' = offered
    BY <1>1, CapAssumption DEF CallStarts, Numbered, Call, childVars
  <2>2. \A d \in Call : d # waiting
    BY <2>1, CapAssumption DEF Call
  <2>3. \A d \in Call : Status[d] # "waiting" /\ (Status[d] = "none" <=> d >= next_id)
    BY <2>1, <2>2 DEF Status, Numbered
  <2>4. Status' = [Status EXCEPT ![next_id] = "waiting"]
    BY <2>1, <2>2 DEF Status
  <2>5. Rpc!Ask(next_id) /\ next_id \in Rpc!Call
    BY <2>1, <2>3, <2>4 DEF Rpc!Ask, Rpc!Call, Call
  <2> QED
    BY <2>5 DEF Rpc!RpcNext
<1>2. CASE CallReceives
  <2>1. /\ waiting # 0 /\ offered' = offered /\ queue # <<>>
    BY <1>2 DEF CallReceives, childVars, Gate!Receive
  <2>2. CASE ~Settles(Head(queue).body, waiting)
    BY <1>2, <2>1, <2>2 DEF CallReceives, callVars, Status, Rpc!rpcVars
  <2>3. CASE Settles(Head(queue).body, waiting)
    <3> DEFINE result == IF Head(queue).body.kind = "response" THEN "answered" ELSE "notutf8"
    <3>1. Ends(result)
      BY <1>2, <2>3 DEF CallReceives
    <3>2. Head(queue) = queue[1] /\ 1 \in 1 .. Len(queue)
      BY <2>1 DEF Gate!TypeOK
    <3>3. result = "answered" => waiting \in offered
      BY <2>3, <3>2 DEF Settles, Causal, IsAnswer
    <3>4. result \in Outcome \ {"none"} /\ UNCHANGED next_id
      BY <3>1 DEF Outcome, Ends
    <3> HIDE DEF result
    <3>5. Rpc!RpcNext
      BY <2>1, <3>1, <3>3, <3>4, EndsSettles
    <3> QED
      BY <3>5
  <2> QED
    BY <2>2, <2>3
<1>3. CASE WriteFails \/ AbortOversized
  <2>1. offered' = offered
    BY <1>3 DEF WriteFails, AbortOversized, childVars
  <2>2. CASE waiting # 0
    <3>1. (Ends("io") \/ Ends("toolarge")) /\ UNCHANGED next_id
      BY <1>3, <2>2 DEF WriteFails, AbortOversized, Ends
    <3>2. Rpc!RpcNext
      BY <2>1, <2>2, <3>1, EndsSettles DEF Outcome
    <3> QED
      BY <3>2
  <2>3. CASE waiting = 0
    BY <1>3, <2>1, <2>3
       DEF WriteFails, AbortOversized, callVars, Status, Rpc!rpcVars
  <2> QED
    BY <2>2, <2>3
<1>4. CASE CallTimesOut \/ CallFindsExit
  <2>1. /\ waiting # 0 /\ offered' = offered /\ UNCHANGED next_id
        /\ Ends("timeout") \/ Ends("exited")
    BY <1>4 DEF CallTimesOut, CallFindsExit, childVars, Ends
  <2>2. Rpc!RpcNext
    BY <2>1, EndsSettles DEF Outcome
  <2> QED
    BY <2>2
<1>5. ASSUME NEW message \in Message, ProcessWrites(message)
      PROVE  [Rpc!RpcNext]_(Rpc!rpcVars)
  <2>1. Status' = Status
    BY <1>5 DEF ProcessWrites, callVars, Status
  <2>2. CASE message.kind = "response"
    <3> DEFINE c == message.id
    <3>1. offered' = offered \cup {c} /\ c \in read
      BY <1>5, <2>2 DEF ProcessWrites
    <3>2. c \in Call /\ c < next_id
      BY <3>1 DEF Sent
    <3>3. Status[c] # "none"
      BY <3>2, CapAssumption DEF Status, Numbered, Call
    <3>4. Rpc!Offer(c) /\ c \in Rpc!Call
      BY <2>1, <3>1, <3>2, <3>3 DEF Rpc!Offer, Rpc!Call, Call
    <3> QED
      BY <3>4 DEF Rpc!RpcNext
  <2>3. CASE message.kind # "response"
    BY <1>5, <2>1, <2>3 DEF ProcessWrites, Rpc!rpcVars
  <2> QED
    BY <2>2, <2>3
<1>6. CASE UNCHANGED <<outcome, waiting, offered>>
  BY <1>6 DEF Status, Rpc!rpcVars
<1>7. CASE WriteSucceeds
  BY <1>7 DEF WriteSucceeds, callVars, Status, Rpc!rpcVars
<1> QED
  BY <1>1, <1>2, <1>3, <1>4, <1>5, <1>6, <1>7
     DEF Next, vars, childVars, callVars, Writing, Polling, ProcessReads,
         ReaderDelivers, ReaderDiscards, ReaderUpdates, ProcessExits, ReaderEnds,
         PollStarts, PollSwaps, PollReceives, PollEnds, RunHostRequests, Borrow,
         GiveBack, DropClient

Books == StdoutOK /\ StdinOK /\ Numbered /\ Sent /\ Causal

\* At the start nothing is under way.
LEMMA InitBooks == Init => Books /\ Rpc!RpcInit
<1> SUFFICES ASSUME Init PROVE Books /\ Rpc!RpcInit
  OBVIOUS
<1>1. StdoutOK /\ StdinOK /\ Sent
  BY DEF Init, StdoutOK, StdinOK, Sent, NoMessage
<1>2. Numbered
  BY CapAssumption DEF Init, Numbered, Call, Outcome
<1>3. Causal
  BY DEF Init, Gate!Init, Causal
<1>4. Rpc!RpcInit
  <2>1. \A c \in Call : c # waiting
    BY CapAssumption DEF Init, Call
  <2> QED
    BY <2>1 DEF Init, Rpc!RpcInit, Status, Rpc!Call, Call
<1> QED
  BY <1>1, <1>2, <1>3, <1>4 DEF Books

\* Every step keeps the books of requests and answers.
LEMMA BooksStep == Books /\ Gate!TypeOK /\ [Next]_vars => Books'
<1> SUFFICES ASSUME Books, Gate!TypeOK, [Next]_vars PROVE Books'
  OBVIOUS
<1> USE DEF Books
<1>1. StdoutOK'
  BY StdoutStep
<1>2. StdinOK'
  BY StdinStep
<1>3. Numbered'
  BY NumberedStep
<1>4. Sent'
  BY SentStep
<1>5. Causal'
  BY CausalStep
<1> QED
  BY <1>1, <1>2, <1>3, <1>4, <1>5

\* Whatever the process writes, and however late: calls are made one at a time,
\* each ends once, and is answered only with the answer to that very call.
THEOREM OnlyOwnAnswers == Spec => AnswersOwnCall
<1>1. Init => Books /\ Rpc!RpcInit
  BY InitBooks
<1>2. Books /\ Gate!TypeOK /\ [Next]_vars => Books'
  BY BooksStep
<1>3. Books /\ Gate!TypeOK /\ [Next]_vars => [Rpc!RpcNext]_(Rpc!rpcVars)
  BY RpcStep DEF Books
<1>4. Spec => []Gate!TypeOK
  BY QueueKeepsBooks, PTL
<1>5. Spec => Rpc!RpcSafe
  BY <1>1, <1>2, <1>3, <1>4, PTL DEF Spec, Rpc!RpcSafe
<1> QED
  BY <1>5 DEF AnswersOwnCall

-----------------------------------------------------------------------------
(* An answer and the exit of its process.                                  *)

Answer(c) == [kind |-> "response", id |-> c]
TooLarge == [kind |-> "toolarge", id |-> 0]

InQueue(body) == \E i \in 1 .. Len(queue) : queue[i].body = body
InStdout(body) == \E i \in 1 .. Len(stdout) : stdout[i] = body

\* Who may be doing what: a call or a poll belongs to the holder of the client,
\* the writing to a call or a poll, and a process with no reader is gone.
Holding ==
    /\ waiting # 0 => holder = "worker"
    /\ polling => holder = "pool"
    /\ holder = "worker" /\ waiting = 0 => owed = NoMessage
    /\ holder = "none" => ~alive
    /\ reader \in {"reading", "poisoned", "ended"}
    /\ reader = "ended" => ~alive
    /\ \A c \in Call : outcome[c] = "exited" => ~alive

\* The host has noticed, is about to notice, or has counted that something went
\* wrong with the stream.
Noticed == FramesLost \/ InQueue(TooLarge) \/ owed.kind = "oversized"

PoisonNoticed == reader = "poisoned" /\ alive => Noticed

\* The answer to the call in flight is still on its way to the host.
AnswerDue ==
    waiting # 0 /\ waiting \in offered =>
      \/ Noticed
      \/ InQueue(Answer(waiting))
      \/ reader = "reading" /\ InStdout(Answer(waiting))

ExitFacts == Holding /\ PoisonNoticed /\ AnswerDue

\* Every step keeps the roles apart.
LEMMA HoldingStep == Holding /\ Numbered /\ [Next]_vars => Holding'
<1> SUFFICES ASSUME Holding, Numbered, [Next]_vars PROVE Holding'
  OBVIOUS
<1> USE DEF Holding
<1>1. CASE CallStarts
  <2>1. waiting' # 0
    BY <1>1 DEF CallStarts, Numbered
  <2> QED
    BY <1>1, <2>1 DEF CallStarts, gateVars, childVars
<1>2. CASE CallReceives
  <2>1. waiting # 0 /\ UNCHANGED <<holder, polling, swapping, alive, reader>>
    BY <1>2 DEF CallReceives, Gate!Receive, childVars
  <2>2. CASE UNCHANGED callVars
    BY <1>2, <2>1, <2>2 DEF callVars
  <2>3. CASE /\ Ends("answered") \/ Ends("notutf8")
             /\ Settles(Head(queue).body, waiting)
    <3>1. waiting' = 0 /\ owed' = NoMessage
      BY <1>2, <2>3 DEF CallReceives, Handled, ReplyTo, Settles, Ends
    <3>2. ASSUME NEW c \in Call, outcome'[c] = "exited" PROVE outcome[c] = "exited"
      BY <2>3, <3>2 DEF Ends, Numbered
    <3> QED
      BY <2>1, <3>1, <3>2
  <2> QED
    BY <1>2, <2>2, <2>3 DEF CallReceives
<1>3. CASE CallTimesOut
  <2>1. /\ UNCHANGED <<holder, polling, swapping, alive, reader, owed>>
        /\ owed = NoMessage /\ waiting' = 0
    BY <1>3 DEF CallTimesOut, gateVars, childVars, hostVars, Ends
  <2>2. ASSUME NEW c \in Call, outcome'[c] = "exited" PROVE outcome[c] = "exited"
    BY <1>3, <2>2 DEF CallTimesOut, Ends, Numbered
  <2> QED
    BY <2>1, <2>2
<1>4. CASE CallFindsExit
  <2>1. /\ UNCHANGED <<holder, polling, swapping, alive, reader, owed>>
        /\ owed = NoMessage /\ waiting' = 0 /\ reader = "ended"
    BY <1>4 DEF CallFindsExit, gateVars, childVars, hostVars, Ends
  <2> QED
    BY <2>1
<1>5. CASE WriteSucceeds
  BY <1>5 DEF WriteSucceeds, gateVars, callVars
<1>6. CASE WriteFails \/ AbortOversized
  <2>1. /\ UNCHANGED <<holder, swapping, reader>>
        /\ owed' = NoMessage /\ waiting' = 0 /\ ~alive'
        /\ (polling' => polling)
    BY <1>6 DEF WriteFails, AbortOversized, gateVars, childVars, callVars, Ends
  <2> QED
    BY <2>1
<1>7. CASE PollStarts
  BY <1>7 DEF PollStarts, Gate!SwapFlag, gateVars, childVars, callVars
<1>8. CASE Polling
  BY <1>8 DEF Polling, PollSwaps, PollReceives, PollEnds, Gate!SwapCount,
              Gate!Receive, Handled, gateVars, childVars, callVars, hostVars
<1>9. CASE ReaderUpdates \/ ReaderDelivers
  BY <1>9 DEF ReaderUpdates, ReaderDelivers, Gate!Deliver, Gate!RaiseFlag,
              Gate!AddCount, childVars, callVars, hostVars
<1>10. CASE ProcessReads \/ ReaderDiscards \/ ProcessExits \/ ReaderEnds
  BY <1>10 DEF ProcessReads, ReaderDiscards, ProcessExits, ReaderEnds,
               gateVars, callVars, hostVars
<1>11. ASSUME NEW message \in Message, ProcessWrites(message) PROVE Holding'
  BY <1>11 DEF ProcessWrites, gateVars, callVars, hostVars
<1>12. CASE RunHostRequests \/ Borrow \/ GiveBack \/ DropClient
  BY <1>12 DEF RunHostRequests, Borrow, GiveBack, DropClient, Idle,
               gateVars, childVars, callVars
<1>13. CASE UNCHANGED vars
  BY <1>13 DEF vars, gateVars, childVars, callVars, hostVars
<1> QED
  BY <1>1, <1>2, <1>3, <1>4, <1>5, <1>6, <1>7, <1>8, <1>9, <1>10, <1>11, <1>12, <1>13
     DEF Next, Writing

\* A loss that is counted stays in the books.
LEMMA LossStays == Gate!TypeOK /\ [Gate!Next]_(Gate!gateVars) /\ FramesLost => FramesLost'
<1> SUFFICES ASSUME Gate!TypeOK, [Gate!Next]_(Gate!gateVars), FramesLost
             PROVE  FramesLost'
  OBVIOUS
<1> USE DEF Gate!TypeOK, FramesLost
<1>1. ASSUME NEW body \in Message, Gate!Deliver(body) PROVE FramesLost'
  BY <1>1 DEF Gate!Deliver, Gate!Update
<1>2. CASE Gate!RaiseFlag
  BY <1>2 DEF Gate!RaiseFlag
<1>3. CASE Gate!AddCount
  BY <1>3 DEF Gate!AddCount
<1>4. CASE Gate!Receive
  BY <1>4 DEF Gate!Receive
<1>5. CASE Gate!SwapFlag
  BY <1>5 DEF Gate!SwapFlag
<1>6. CASE Gate!SwapCount
  BY <1>6 DEF Gate!SwapCount
<1>7. CASE UNCHANGED Gate!gateVars
  BY <1>7 DEF Gate!gateVars
<1> QED
  BY <1>1, <1>2, <1>3, <1>4, <1>5, <1>6, <1>7 DEF Gate!Next

\* A frame the reader delivers is in the queue afterwards, or its loss is owed
\* to the count; the frames before it stay.
LEMMA DeliverQueues ==
  ASSUME Gate!TypeOK, NEW message \in Message, Gate!Deliver(message)
  PROVE  /\ InQueue(message)' \/ FramesLost'
         /\ \A body : InQueue(body) => InQueue(body)'
<1>1. CASE Len(queue) < QueueCap
  <2>1. /\ Len(queue') = Len(queue) + 1 /\ Len(queue) \in Nat
        /\ \A i \in 1 .. Len(queue) : queue'[i] = queue[i]
        /\ queue'[Len(queue) + 1].body = message
    BY <1>1 DEF Gate!Deliver, Gate!TypeOK
  <2>2. InQueue(message)'
    <3>1. Len(queue) + 1 \in 1 .. Len(queue')
      BY <2>1
    <3> QED
      BY <2>1, <3>1 DEF InQueue
  <2> QED
    BY <2>1, <2>2 DEF InQueue
<1>2. CASE ~(Len(queue) < QueueCap)
  BY <1>2 DEF Gate!Deliver, Gate!Update, FramesLost, InQueue
<1> QED
  BY <1>1, <1>2

\* A frame that is taken is the first; the others stay.
LEMMA ReceiveTakesFirst ==
  ASSUME Gate!TypeOK, Gate!Receive
  PROVE  \A body : InQueue(body) => body = Head(queue).body \/ InQueue(body)'
<1>1. /\ Len(queue) > 0 /\ Len(queue') = Len(queue) - 1 /\ Len(queue) \in Nat
      /\ \A i \in 1 .. Len(queue') : queue'[i] = queue[i + 1]
      /\ Head(queue) = queue[1]
  BY DEF Gate!Receive, Gate!TypeOK
<1>2. ASSUME NEW i \in 1 .. Len(queue), i # 1
      PROVE  i - 1 \in 1 .. Len(queue') /\ queue'[i - 1] = queue[i]
  BY <1>1, <1>2
<1>3. ASSUME NEW body, InQueue(body), body # Head(queue).body PROVE InQueue(body)'
  <2>1. PICK i \in 1 .. Len(queue) : queue[i].body = body
    BY <1>3 DEF InQueue
  <2>2. i # 1
    BY <1>1, <1>3, <2>1
  <2>3. i - 1 \in 1 .. Len(queue') /\ queue'[i - 1].body = body
    BY <1>2, <2>1, <2>2
  <2> QED
    BY <2>3 DEF InQueue
<1> QED
  BY <1>3

\* Once noticed, trouble with the stream stays noticed, until the host has put
\* an end to the process.
LEMMA NoticedStays ==
  ASSUME Gate!TypeOK, StdoutOK, StdinOK, Holding, [Next]_vars, Noticed
  PROVE  Noticed' \/ (~alive' /\ waiting' = 0)
<1>1. FramesLost => FramesLost'
  BY GateStep, LossStays
<1>2. CASE ReaderDelivers
  <2>1. Head(stdout) \in Message /\ owed' = owed
    BY <1>2 DEF ReaderDelivers, StdoutOK, hostVars
  <2> QED
    BY <1>1, <1>2, <2>1, DeliverQueues DEF ReaderDelivers, Noticed
<1>3. CASE CallReceives \/ PollReceives
  <2>1. /\ Gate!Receive /\ owed = NoMessage
        /\ owed' = ReplyTo(Head(queue).body.kind)
    BY <1>3 DEF CallReceives, PollReceives, Handled
  <2>2. Head(queue).body = TooLarge => owed'.kind = "oversized"
    BY <2>1 DEF TooLarge, ReplyTo
  <2> QED
    BY <1>1, <2>1, <2>2, ReceiveTakesFirst DEF Noticed, NoMessage
<1>4. CASE AbortOversized
  BY <1>4 DEF AbortOversized, Ends, callVars
<1>5. CASE WriteSucceeds \/ WriteFails
  <2>1. owed.kind # "oversized"
    <3>1. owed \in Written \cup {NoMessage}
      BY DEF StdinOK
    <3> QED
      BY <1>5, <3>1 DEF WriteSucceeds, WriteFails, Written, NoMessage
  <2> QED
    BY <1>1, <1>5, <2>1 DEF WriteSucceeds, WriteFails, gateVars, Noticed, InQueue
<1>6. CASE CallStarts
  BY <1>1, <1>6 DEF CallStarts, Holding, gateVars, Noticed, InQueue, NoMessage
<1>7. CASE UNCHANGED <<queue, owed>>
  BY <1>1, <1>7 DEF Noticed, InQueue
<1> QED
  BY <1>2, <1>3, <1>4, <1>5, <1>6, <1>7
     DEF Next, Writing, Polling, vars, gateVars, hostVars, ProcessReads,
         ProcessWrites, ReaderDiscards, ReaderUpdates, Gate!RaiseFlag,
         Gate!AddCount, ProcessExits, ReaderEnds, CallTimesOut, CallFindsExit,
         PollStarts, Gate!SwapFlag, PollSwaps, Gate!SwapCount, PollEnds,
         RunHostRequests, Borrow, GiveBack, DropClient

\* A process does not come back to life, and its reader does not resume.
LEMMA NoRevival ==
  ASSUME [Next]_vars
  PROVE  /\ alive' => alive
         /\ reader' = "poisoned" => reader = "poisoned" \/ ReaderDelivers
         /\ reader = "reading" => reader' = "reading" \/ ReaderDelivers \/ ReaderEnds
<1>1. CASE UNCHANGED <<alive, reader>>
  BY <1>1
<1>2. CASE ReaderDelivers \/ ReaderEnds
  BY <1>2 DEF ReaderDelivers, ReaderEnds
<1>3. CASE ProcessExits \/ AbortOversized \/ DropClient
  BY <1>3 DEF ProcessExits, AbortOversized, DropClient
<1> QED
  BY <1>1, <1>2, <1>3
     DEF Next, Writing, Polling, vars, childVars, ProcessReads, ProcessWrites,
         ReaderDiscards, ReaderUpdates, CallStarts, CallReceives, CallTimesOut,
         CallFindsExit, WriteSucceeds, WriteFails, PollStarts, PollSwaps,
         PollReceives, PollEnds, RunHostRequests, Borrow, GiveBack

\* The decoder is poisoned by a frame the host is going to notice.
LEMMA PoisonStep ==
  ASSUME Gate!TypeOK, StdoutOK, StdinOK, Holding, PoisonNoticed, [Next]_vars
  PROVE  PoisonNoticed'
<1> SUFFICES ASSUME reader' = "poisoned", alive' PROVE Noticed'
  BY DEF PoisonNoticed
<1>1. alive
  BY NoRevival
<1>2. CASE reader = "poisoned"
  BY <1>1, <1>2, NoticedStays DEF PoisonNoticed
<1>3. CASE reader # "poisoned"
  <2>1. ReaderDelivers
    BY <1>3, NoRevival
  <2>2. Head(stdout).kind = "toolarge"
    BY <1>3, <2>1 DEF ReaderDelivers
  <2>3. Head(stdout) \in Message
    BY <2>1 DEF ReaderDelivers, StdoutOK
  <2>4. Head(stdout) = TooLarge
    BY <2>2, <2>3 DEF Message, TooLarge
  <2> QED
    BY <2>1, <2>3, <2>4, DeliverQueues DEF ReaderDelivers, Noticed
<1> QED
  BY <1>2, <1>3

\* Until its call ends, an answer moves on from the process to the queue, unless
\* trouble is noticed.
LEMMA DueStep ==
  ASSUME Gate!TypeOK, Books, ExitFacts, [Next]_vars
  PROVE  AnswerDue'
<1> SUFFICES ASSUME waiting' # 0, waiting' \in offered', ~Noticed'
             PROVE  \/ InQueue(Answer(waiting))'
                    \/ reader' = "reading" /\ InStdout(Answer(waiting))'
  BY DEF AnswerDue
<1> USE DEF Books, ExitFacts
<1>1. ~Noticed
  BY NoticedStays
<1>2. CASE CallStarts
  <2>1. waiting' = next_id /\ offered' = offered /\ next_id \in Nat
    BY <1>2, CapAssumption DEF CallStarts, childVars, Numbered
  <2>2. next_id \notin offered
    BY <2>1 DEF Causal, Sent
  <2> QED
    BY <2>1, <2>2
<1>3. CASE ~CallStarts
  <2>1. waiting' = waiting /\ waiting # 0
    BY <1>3
       DEF Next, Writing, Polling, vars, gateVars, hostVars, callVars, Ends,
           ProcessReads, ProcessWrites, ReaderDelivers, ReaderDiscards,
           ReaderUpdates, ProcessExits, ReaderEnds, WriteSucceeds, WriteFails,
           AbortOversized, CallReceives, CallTimesOut, CallFindsExit,
           PollStarts, PollSwaps, PollReceives, PollEnds, RunHostRequests,
           Borrow, GiveBack, DropClient
  <2>2. holder = "worker" /\ ~polling
    BY <2>1 DEF Holding
  <2>3. ASSUME NEW message \in Message, ProcessWrites(message)
        PROVE  \/ InQueue(Answer(waiting))'
               \/ reader' = "reading" /\ InStdout(Answer(waiting))'
    <3>1. /\ alive /\ UNCHANGED <<reader, queue>>
          /\ stdout' = Append(stdout, message)
      BY <2>3 DEF ProcessWrites, gateVars
    <3>2. \A body : InQueue(body) => InQueue(body)'
      BY <3>1 DEF InQueue
    <3>3. /\ Len(stdout') = Len(stdout) + 1 /\ Len(stdout) \in Nat
          /\ \A i \in 1 .. Len(stdout) : stdout'[i] = stdout[i]
          /\ stdout'[Len(stdout) + 1] = message
          /\ Len(stdout) + 1 \in 1 .. Len(stdout')
      BY <3>1 DEF StdoutOK
    <3>4. \A body : InStdout(body) => InStdout(body)'
      BY <3>3 DEF InStdout
    <3>5. CASE waiting \in offered
      BY <1>1, <2>1, <3>1, <3>2, <3>4, <3>5 DEF AnswerDue
    <3>6. CASE waiting \notin offered
      <4>1. message.kind = "response" /\ message.id = waiting
        BY <2>1, <2>3, <3>6 DEF ProcessWrites
      <4>2. message = Answer(waiting)
        BY <4>1 DEF Message, Answer
      <4>3. InStdout(Answer(waiting))'
        BY <2>1, <3>3, <4>2 DEF InStdout
      <4>4. reader # "poisoned" /\ reader # "ended"
        BY <1>1, <3>1 DEF PoisonNoticed, Holding
      <4> QED
        BY <3>1, <4>3, <4>4 DEF Holding
    <3> QED
      BY <3>5, <3>6
  <2>4. CASE waiting \notin offered
    <3>1. PICK message \in Message : ProcessWrites(message)
      BY <1>3, <2>1, <2>4
         DEF Next, Writing, Polling, vars, childVars, hostVars, callVars,
             ProcessReads, ReaderDelivers, ReaderDiscards, ReaderUpdates,
             ProcessExits, ReaderEnds, WriteSucceeds, WriteFails,
             AbortOversized, CallReceives, CallTimesOut, CallFindsExit,
             PollStarts, PollSwaps, PollReceives, PollEnds, RunHostRequests,
             Borrow, GiveBack, DropClient
    <3> QED
      BY <2>3, <3>1
  <2>5. CASE waiting \in offered /\ InQueue(Answer(waiting))
    <3>1. CASE CallReceives
      <4>1. ~Settles(Head(queue).body, waiting)
        BY <2>1, <3>1 DEF CallReceives, Ends
      <4>2. Head(queue).body # Answer(waiting)
        BY <4>1 DEF Settles, Answer
      <4>3. InQueue(Answer(waiting)) => InQueue(Answer(waiting))'
        BY <2>1, <3>1, <4>2, ReceiveTakesFirst DEF CallReceives, InQueue, Answer
      <4> QED
        BY <2>5, <4>3
    <3>2. CASE ReaderDelivers
      <4>1. Head(stdout) \in Message
        BY <3>2 DEF ReaderDelivers, StdoutOK
      <4>2. InQueue(Answer(waiting)) => InQueue(Answer(waiting))'
        BY <2>1, <3>2, <4>1, DeliverQueues DEF ReaderDelivers, InQueue, Answer
      <4> QED
        BY <2>5, <4>2
    <3>3. CASE UNCHANGED queue
      BY <2>1, <2>5, <3>3 DEF InQueue, Answer
    <3> QED
      BY <1>3, <2>2, <2>3, <3>1, <3>2, <3>3
         DEF Next, Writing, Polling, vars, gateVars, ProcessReads,
             ReaderDiscards, ReaderUpdates, Gate!RaiseFlag, Gate!AddCount,
             ProcessExits, ReaderEnds, WriteSucceeds, WriteFails,
             AbortOversized, CallTimesOut, CallFindsExit, PollStarts,
             Gate!SwapFlag, PollSwaps, Gate!SwapCount, PollReceives, PollEnds,
             RunHostRequests, Borrow, GiveBack, DropClient
  <2>6. CASE /\ waiting \in offered /\ ~InQueue(Answer(waiting))
             /\ reader = "reading" /\ InStdout(Answer(waiting))
    <3>1. CASE ReaderDelivers
      <4>1. /\ Head(stdout) \in Message /\ Head(stdout) = stdout[1]
            /\ Len(stdout) > 0 /\ Len(stdout) \in Nat
            /\ Len(stdout') = Len(stdout) - 1
            /\ \A i \in 1 .. Len(stdout') : stdout'[i] = stdout[i + 1]
        BY <3>1 DEF ReaderDelivers, StdoutOK
      <4>2. CASE Head(stdout) = Answer(waiting)
        <5>1. InQueue(Answer(waiting))' \/ FramesLost'
          BY <2>1, <3>1, <4>1, <4>2, DeliverQueues DEF ReaderDelivers, InQueue, Answer
        <5> QED
          BY <5>1 DEF Noticed
      <4>3. CASE Head(stdout) # Answer(waiting)
        <5>1. PICK i \in 1 .. Len(stdout) : stdout[i] = Answer(waiting)
          BY <2>6 DEF InStdout
        <5>2. i - 1 \in 1 .. Len(stdout') /\ stdout'[i - 1] = stdout[i]
          BY <4>1, <4>3, <5>1
        <5>3. InStdout(Answer(waiting))'
          BY <2>1, <5>1, <5>2 DEF InStdout, Answer
        <5>4. CASE Head(stdout).kind = "toolarge"
          <6>1. Head(stdout) = TooLarge
            BY <4>1, <5>4 DEF Message, TooLarge
          <6>2. InQueue(TooLarge)' \/ FramesLost'
            BY <3>1, <4>1, <6>1, DeliverQueues DEF ReaderDelivers
          <6> QED
            BY <6>2 DEF Noticed
        <5>5. CASE Head(stdout).kind # "toolarge"
          BY <2>6, <3>1, <5>3, <5>5 DEF ReaderDelivers
        <5> QED
          BY <5>4, <5>5
      <4> QED
        BY <4>2, <4>3
    <3>2. CASE ReaderEnds
      <4>1. stdout # <<>>
        BY <2>6 DEF InStdout
      <4> QED
        BY <2>2, <3>2, <4>1 DEF ReaderEnds
    <3>3. CASE ReaderDiscards
      BY <2>6, <3>3 DEF ReaderDiscards
    <3>4. CASE UNCHANGED <<stdout, reader>>
      BY <2>1, <2>6, <3>4 DEF InStdout, Answer
    <3> QED
      BY <1>3, <2>3, <3>1, <3>2, <3>3, <3>4
         DEF Next, Writing, Polling, vars, childVars, ProcessReads,
             ReaderUpdates, ProcessExits, WriteSucceeds, WriteFails,
             AbortOversized, CallReceives, CallTimesOut, CallFindsExit,
             PollStarts, PollSwaps, PollReceives, PollEnds, RunHostRequests,
             Borrow, GiveBack, DropClient
  <2> QED
    BY <1>1, <2>1, <2>4, <2>5, <2>6 DEF AnswerDue
<1> QED
  BY <1>2, <1>3

\* A call that finds the process gone has no answer left to wait for.
LEMMA ExitStep ==
  ASSUME Gate!TypeOK, Books, ExitFacts, AnswerBeatsExit, [Next]_vars
  PROVE  AnswerBeatsExit'
<1> SUFFICES ASSUME NEW c \in offered', outcome'[c] = "exited" PROVE FramesLost'
  BY DEF AnswerBeatsExit
<1> USE DEF Books, ExitFacts
<1>1. FramesLost => FramesLost'
  BY GateStep, LossStays
<1>2. CASE CallFindsExit
  <2>1. /\ waiting # 0 /\ owed = NoMessage /\ reader = "ended" /\ queue = <<>>
        /\ offered' = offered /\ Ends("exited")
    BY <1>2 DEF CallFindsExit, childVars
  <2>2. CASE c = waiting
    BY <1>1, <2>1, <2>2 DEF AnswerDue, Noticed, InQueue, NoMessage
  <2>3. CASE c # waiting
    <3>1. outcome[c] = "exited"
      BY <2>1, <2>3 DEF Ends, Numbered, Causal, Sent
    <3> QED
      BY <1>1, <2>1, <3>1 DEF AnswerBeatsExit
  <2> QED
    BY <2>2, <2>3
<1>3. CASE ~CallFindsExit
  <2>1. c \in Call
    BY BooksStep DEF Causal, Sent
  <2>2. outcome[c] = "exited"
    <3>1. CASE UNCHANGED outcome
      BY <3>1
    <3>2. CASE \E result \in Outcome \ {"exited"} : Ends(result)
      BY <2>1, <3>2 DEF Ends, Numbered
    <3> QED
      BY <1>3, <3>1, <3>2
         DEF Next, Writing, Polling, vars, callVars, Outcome, ProcessReads,
             ProcessWrites, ReaderDelivers, ReaderDiscards, ReaderUpdates,
             ProcessExits, ReaderEnds, WriteSucceeds, WriteFails,
             AbortOversized, CallStarts, CallReceives, CallTimesOut,
             PollStarts, PollSwaps, PollReceives, PollEnds, RunHostRequests,
             Borrow, GiveBack, DropClient
  <2>3. ~alive
    BY <2>1, <2>2 DEF Holding
  <2>4. offered' = offered
    BY <2>3
       DEF Next, Writing, Polling, vars, childVars, ProcessReads, ProcessWrites,
           ReaderDelivers, ReaderDiscards, ReaderUpdates, ProcessExits,
           ReaderEnds, WriteSucceeds, WriteFails, AbortOversized, CallStarts,
           CallReceives, CallTimesOut, CallFindsExit, PollStarts, PollSwaps,
           PollReceives, PollEnds, RunHostRequests, Borrow, GiveBack, DropClient
  <2> QED
    BY <1>1, <2>2, <2>4 DEF AnswerBeatsExit
<1> QED
  BY <1>2, <1>3

\* At the start there is nothing to lose.
LEMMA InitExit == Init => ExitFacts /\ AnswerBeatsExit
<1> SUFFICES ASSUME Init PROVE ExitFacts /\ AnswerBeatsExit
  OBVIOUS
<1>1. Holding
  BY Zenon DEF Init, Gate!Init, Holding
<1>2. PoisonNoticed /\ AnswerDue /\ AnswerBeatsExit
  BY DEF Init, PoisonNoticed, AnswerDue, AnswerBeatsExit
<1> QED
  BY <1>1, <1>2 DEF ExitFacts

\* An answer given before the process exits reaches its caller, unless its loss
\* is counted.
THEOREM AnswerOutlivesProcess == Spec => []AnswerBeatsExit
<1>1. Init => Books /\ ExitFacts /\ AnswerBeatsExit
  BY InitBooks, InitExit
<1>2. Books /\ Gate!TypeOK /\ [Next]_vars => Books'
  BY BooksStep
<1>3. Books /\ Gate!TypeOK /\ ExitFacts /\ [Next]_vars => ExitFacts'
  BY HoldingStep, PoisonStep, DueStep DEF Books, ExitFacts
<1>4. Books /\ Gate!TypeOK /\ ExitFacts /\ AnswerBeatsExit /\ [Next]_vars
        => AnswerBeatsExit'
  BY ExitStep
<1>5. Spec => []Gate!TypeOK
  BY QueueKeepsBooks, PTL
<1> QED
  BY <1>1, <1>2, <1>3, <1>4, <1>5, PTL DEF Spec

-----------------------------------------------------------------------------
(* The shape of the state.                                                 *)

ReverseKinds == {"declared", "undeclared"}

RequestsOK ==
    /\ host_requests \in Seq(ReverseKinds)
    /\ Len(host_requests) <= RequestCap
    /\ ran \subseteq ReverseKinds

FlagsOK ==
    /\ alive \in BOOLEAN /\ ready \in BOOLEAN
    /\ polling \in BOOLEAN /\ unreported \in BOOLEAN
    /\ holder \in {"worker", "pool", "none"}

PipeOK == Len(stdin) <= PipeCap

\* The record of reverse requests stays within its capacity.
LEMMA PushBounded ==
  ASSUME RequestsOK, NEW kind \in ReverseKinds
  PROVE  /\ PushCapped(host_requests, kind) \in Seq(ReverseKinds)
         /\ Len(PushCapped(host_requests, kind)) <= RequestCap
<1>1. CASE Len(host_requests) >= RequestCap
  <2>1. host_requests # <<>>
    BY <1>1, CapAssumption DEF RequestsOK
  <2> QED
    BY <1>1, <2>1, CapAssumption DEF RequestsOK, PushCapped
<1>2. CASE ~(Len(host_requests) >= RequestCap)
  BY <1>2, CapAssumption DEF RequestsOK, PushCapped
<1> QED
  BY <1>1, <1>2

\* Every step keeps the record of reverse requests within its capacity.
LEMMA RequestsStep == RequestsOK /\ [Next]_vars => RequestsOK'
<1> SUFFICES ASSUME RequestsOK, [Next]_vars PROVE RequestsOK'
  OBVIOUS
<1>1. CASE CallReceives \/ PollReceives
  <2>1. ran' = ran
    BY <1>1 DEF CallReceives, PollReceives
  <2>2. \/ host_requests' = host_requests
        \/ \E kind \in ReverseKinds : host_requests' = PushCapped(host_requests, kind)
    BY <1>1 DEF CallReceives, PollReceives, Handled, ReverseKinds
  <2> QED
    BY <2>1, <2>2, PushBounded DEF RequestsOK
<1>2. CASE RunHostRequests
  BY <1>2, CapAssumption DEF RunHostRequests, RequestsOK
<1>3. CASE UNCHANGED <<host_requests, ran>>
  BY <1>3 DEF RequestsOK
<1> QED
  BY <1>1, <1>2, <1>3
     DEF Next, Writing, Polling, vars, hostVars, ProcessReads, ProcessWrites,
         ReaderDelivers, ReaderDiscards, ReaderUpdates, ProcessExits, ReaderEnds,
         WriteSucceeds, WriteFails, AbortOversized, CallStarts, CallTimesOut,
         CallFindsExit, PollStarts, PollSwaps, PollEnds, Borrow, GiveBack,
         DropClient

\* Every step keeps the pipe to the process within what it holds.
LEMMA PipeStep == PipeOK /\ StdinOK /\ [Next]_vars => PipeOK'
<1> SUFFICES ASSUME PipeOK, StdinOK, [Next]_vars PROVE PipeOK'
  OBVIOUS
<1>1. CASE ProcessReads
  BY <1>1, CapAssumption DEF ProcessReads, PipeOK, StdinOK
<1>2. CASE WriteSucceeds
  BY <1>2, CapAssumption DEF WriteSucceeds, PipeOK, StdinOK, NoMessage
<1>3. CASE UNCHANGED stdin
  BY <1>3 DEF PipeOK
<1> QED
  BY <1>1, <1>2, <1>3
     DEF Next, Writing, Polling, vars, childVars, ProcessWrites, ReaderDelivers,
         ReaderDiscards, ReaderUpdates, ProcessExits, ReaderEnds, WriteFails,
         AbortOversized, CallStarts, CallReceives, CallTimesOut, CallFindsExit,
         PollStarts, PollSwaps, PollReceives, PollEnds, RunHostRequests, Borrow,
         GiveBack, DropClient

\* The flags stay flags, and the client has a holder or none.
LEMMA FlagsStep == FlagsOK /\ [Next]_vars => FlagsOK'
<1> SUFFICES ASSUME FlagsOK, [Next]_vars PROVE FlagsOK'
  OBVIOUS
<1>1. holder' \in {"worker", "pool", "none"}
  <2>1. holder' = holder \/ Borrow \/ GiveBack \/ DropClient
    BY DEF Next, Writing, Polling, vars, hostVars, ProcessReads, ProcessWrites,
           ReaderDelivers, ReaderDiscards, ReaderUpdates, ProcessExits,
           ReaderEnds, WriteSucceeds, WriteFails, AbortOversized, CallStarts,
           CallReceives, CallTimesOut, CallFindsExit, PollStarts, PollSwaps,
           PollReceives, PollEnds, RunHostRequests
  <2> QED
    BY <2>1 DEF Borrow, GiveBack, DropClient, FlagsOK
<1>2. alive' \in BOOLEAN
  <2>1. alive' = alive \/ alive' = FALSE
    BY Zenon
       DEF Next, Writing, Polling, vars, childVars, ProcessReads, ProcessWrites,
           ReaderDelivers, ReaderDiscards, ReaderUpdates, ProcessExits,
           ReaderEnds, WriteSucceeds, WriteFails, AbortOversized, CallStarts,
           CallReceives, CallTimesOut, CallFindsExit, PollStarts, PollSwaps,
           PollReceives, PollEnds, RunHostRequests, Borrow, GiveBack, DropClient
  <2> QED
    BY <2>1, Zenon DEF FlagsOK
<1>3. ready' \in BOOLEAN
  <2>1. ready' = ready \/ ready' \in BOOLEAN
    BY Zenon
       DEF Next, Writing, Polling, vars, callVars, Ends, ProcessReads,
           ProcessWrites, ReaderDelivers, ReaderDiscards, ReaderUpdates,
           ProcessExits, ReaderEnds, WriteSucceeds, WriteFails, AbortOversized,
           CallStarts, CallReceives, CallTimesOut, CallFindsExit, PollStarts,
           PollSwaps, PollReceives, PollEnds, RunHostRequests, Borrow, GiveBack,
           DropClient
  <2> QED
    BY <2>1, Zenon DEF FlagsOK
<1>4. polling' \in BOOLEAN
  <2>1. polling' = polling \/ polling' = TRUE \/ polling' = FALSE
    BY Zenon
       DEF Next, Writing, Polling, vars, hostVars, ProcessReads, ProcessWrites,
           ReaderDelivers, ReaderDiscards, ReaderUpdates, ProcessExits,
           ReaderEnds, WriteSucceeds, WriteFails, AbortOversized, CallStarts,
           CallReceives, CallTimesOut, CallFindsExit, PollStarts, PollSwaps,
           PollReceives, PollEnds, RunHostRequests, Borrow, GiveBack, DropClient
  <2> QED
    BY <2>1, Zenon DEF FlagsOK
<1>5. unreported' \in BOOLEAN
  <2>1. unreported' = unreported \/ unreported' \in BOOLEAN
    BY Zenon
       DEF Next, Writing, Polling, vars, hostVars, ProcessReads, ProcessWrites,
           ReaderDelivers, ReaderDiscards, ReaderUpdates, ProcessExits,
           ReaderEnds, WriteSucceeds, WriteFails, AbortOversized, CallStarts,
           CallReceives, CallTimesOut, CallFindsExit, PollStarts, PollSwaps,
           PollReceives, PollEnds, RunHostRequests, Borrow, GiveBack, DropClient
  <2> QED
    BY <2>1, Zenon DEF FlagsOK
<1> QED
  BY <1>1, <1>2, <1>3, <1>4, <1>5 DEF FlagsOK

\* Neither the pipe, the queue nor the record of reverse requests outgrows its
\* capacity, whatever the extension sends; and every variable has its type.
THEOREM TypeCorrect == Spec => []TypeOK
<1>1. Init => Books /\ ExitFacts /\ RequestsOK /\ PipeOK /\ FlagsOK
  <2>1. Init => RequestsOK /\ PipeOK
    BY CapAssumption DEF Init, RequestsOK, PipeOK
  <2>2. Init => FlagsOK
    BY Zenon DEF Init, FlagsOK
  <2> QED
    BY <2>1, <2>2, InitBooks, InitExit
<1>2. Books /\ Gate!TypeOK /\ [Next]_vars => Books'
  BY BooksStep
<1>3. Books /\ Gate!TypeOK /\ ExitFacts /\ [Next]_vars => ExitFacts'
  BY HoldingStep, PoisonStep, DueStep DEF Books, ExitFacts
<1>4. Books /\ RequestsOK /\ PipeOK /\ FlagsOK /\ [Next]_vars
        => RequestsOK' /\ PipeOK' /\ FlagsOK'
  BY RequestsStep, PipeStep, FlagsStep DEF Books
<1>5. Gate!TypeOK /\ Books /\ ExitFacts /\ RequestsOK /\ PipeOK /\ FlagsOK => TypeOK
  BY DEF Books, ExitFacts, StdoutOK, StdinOK, Numbered, Sent, Causal, Holding,
         RequestsOK, ReverseKinds, PipeOK, FlagsOK, TypeOK
<1>6. Spec => []Gate!TypeOK
  BY QueueKeepsBooks, PTL
<1> QED
  BY <1>1, <1>2, <1>3, <1>4, <1>5, <1>6, PTL DEF Spec
=============================================================================
