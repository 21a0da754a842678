----------------------------- MODULE ServeLoop -----------------------------
(***************************************************************************)
(* The SDK end of the protocol: the loop of an extension's process (run    *)
(* and serve_line in crates/dd-ext/src/lib.rs), the validator both ends    *)
(* share (crates/dd-protocol/src/envelope.rs) and the host's sorting of    *)
(* what it reads (classify, answer_host_request and reply_envelope_error   *)
(* in crates/dd-host/src/process.rs).                                      *)
(***************************************************************************)
EXTENDS Integers, Sequences, SequencesExt, FiniteSetsExt

CONSTANTS
    HasPages,       \* the extension declares a PageHandler
    MaxRequests,    \* bound: lines of the host
    MaxEffects,     \* bound: effects of an invoke
    MaxOwn          \* bound: lines of the extension's own threads

\* A line by what Envelope::validate tells apart: the kind of JSON text, and
\* the kind of value of each field, NoId and "none" where the field is missing.
NoId == 0
Null == -1
Odd == -2       \* a value of the wrong type
Method == {"initialize", "top_level_commands", "fallback_commands", "get_command",
           "invoke", "get_items", "close", "unheard_of"}
Line == [top : {"object", "array", "scalar", "text", "too large"},
         id : Int,
         jsonrpc : {"none", "2.0", "odd"},
         method : {"none", "odd", "host/show_status", "items_changed"} \cup Method,
         params : {"none", "fit", "unfit", "odd"},     \* "odd" is no object
         result : BOOLEAN,
         error : {"none", "object", "odd"}]

Plain == [top |-> "object", id |-> NoId, jsonrpc |-> "2.0", method |-> "none",
          params |-> "none", result |-> FALSE, error |-> "none"]
Request(n, method, params) == [Plain EXCEPT !.id = n, !.method = method, !.params = params]
Result(n) == [Plain EXCEPT !.id = n, !.result = TRUE]
TooLarge == [Plain EXCEPT !.top = "too large"]     \* the frame

\* error_response: an id that is not known is written as null
ErrorResponse(n) == [Plain EXCEPT !.id = IF n = NoId THEN Null ELSE n, !.error = "object"]
HostRequest(n) == Request(n, "host/show_status", "fit")
ItemsChanged == Request(NoId, "items_changed", "fit")

VARIABLES
    stdin,          \* lines of the host the process has not read
    chunk,          \* what is left of the frames of one read
    should_exit,
    running,
    outputs,        \* what serve_line returned and has not been written yet
    REQ_ID,         \* ids of the extension's own requests
    stdout,         \* lines of the process the host has not read
    asked,          \* ghost: ids of lines to answer, as the process took them
    answered,       \* ghost: ids of the answers it has written
    sent, own       \* lines of the host, and of the extension's own threads

serveVars == <<stdin, chunk, should_exit, running, outputs, REQ_ID, stdout, asked, answered,
              sent, own>>

TypeOK ==
    /\ ToSet(stdin) \cup ToSet(chunk) \subseteq Line
    /\ should_exit \in BOOLEAN /\ running \in BOOLEAN
    /\ ToSet(outputs) \cup ToSet(stdout) \subseteq Line
    /\ REQ_ID \in Nat \ {0}
    /\ ToSet(asked) \cup ToSet(answered) \subseteq 1 .. MaxRequests
    /\ running \/ outputs = <<>>
    /\ sent \in 0 .. MaxRequests /\ own \in 0 .. MaxOwn

Init ==
    /\ stdin = <<>> /\ chunk = <<>> /\ should_exit = FALSE /\ running = TRUE
    /\ outputs = <<>> /\ REQ_ID = 1 /\ stdout = <<>> /\ asked = <<>> /\ answered = <<>>
    /\ sent = 0 /\ own = 0

-----------------------------------------------------------------------------
(* Envelope::validate.  The first test that fails decides, and what is     *)
(* known of the id by then is the id of the error.                         *)

Known(line) == IF line.id \in {NoId, Null, Odd} THEN NoId ELSE line.id
HasId(line) == Known(line) # NoId

\* mutant: an id that is null is an id of the wrong type
ChecksNull(line) ==
    << <<line.top = "text", NoId>>, <<line.top # "object", NoId>>,
       <<line.id \in {Odd, Null}, NoId>>,
       <<line.jsonrpc # "2.0", Known(line)>>, <<line.method = "odd", Known(line)>>,
       <<line.params = "odd", Known(line)>>,
       <<line.result /\ line.error # "none", Known(line)>>,
       <<line.error = "odd", Known(line)>> >>

Checks(line) ==
    << <<line.top = "text", NoId>>,                         \* ParseError
       <<line.top # "object", NoId>>,                       \* BatchArray, NotAnObject
       <<line.id = Odd, NoId>>,                           \* InvalidId
       <<line.jsonrpc # "2.0", Known(line)>>,               \* Missing, Unsupported
       <<line.method = "odd", Known(line)>>,                \* InvalidMethod
       <<line.params = "odd", Known(line)>>,                \* NonObjectParams
       <<line.result /\ line.error # "none", Known(line)>>, \* ResultAndError
       <<line.error = "odd", Known(line)>> >>               \* InvalidErrorObject

Failing(line) == {i \in DOMAIN Checks(line) : Checks(line)[i][1]}
Valid(line) == Failing(line) = {}
ToErrorResponse(line) == ErrorResponse(Checks(line)[Min(Failing(line))][2])

\* classify: the answer to a request, and a request of the extension
IsAnswer(line) == line.method = "none" /\ HasId(line)
IsHostRequest(line) == line.method = "host/show_status" /\ HasId(line)

-----------------------------------------------------------------------------
(* The process.                                                            *)

Effect == {"host_request", "items_changed"}
EffectLines(effects) ==
    [i \in DOMAIN effects |->
       IF effects[i] = "items_changed" THEN ItemsChanged
       ELSE HostRequest(REQ_ID + Cardinality({j \in 1 .. i - 1 : effects[j] = "host_request"}))]

\* serve_line: the lines to write.  A response that cannot be serialised is an
\* error of its own, and the effects of an invoke are then dropped.
Answers(line, effects, broken) ==
    LET n == line.id
        result == IF broken THEN <<ErrorResponse(n)>> ELSE <<Result(n)>>
        invalid_params == <<ErrorResponse(n)>>
        page_not_found == <<ErrorResponse(n)>>
        method_not_found == <<ErrorResponse(n)>>
    IN CASE ~Valid(line) -> <<ToErrorResponse(line)>>
         [] Valid(line) /\ (line.method = "none" \/ ~HasId(line)) -> <<>>
         [] OTHER ->
            CASE line.method \in {"initialize", "top_level_commands", "fallback_commands"} -> result
              [] line.method = "get_command" ->
                   IF line.params = "fit" THEN result ELSE invalid_params
              [] line.method = "invoke" ->
                   IF line.params # "fit" THEN invalid_params
                   ELSE IF broken THEN result ELSE result \o EffectLines(effects)
              [] line.method = "get_items" ->
                   IF HasPages /\ line.params = "fit" THEN result ELSE page_not_found
              [] line.method = "close" -> <<Result(n)>>
              [] OTHER -> method_not_found

\* stdin.read and Decoder::push: some of what the host has written
ReadChunk(n) ==
    /\ running /\ chunk = <<>> /\ outputs = <<>> /\ ~should_exit
    /\ n \in 1 .. Len(stdin)
    /\ chunk' = SubSeq(stdin, 1, n)
    /\ stdin' = SubSeq(stdin, n + 1, Len(stdin))
    /\ UNCHANGED <<should_exit, running, outputs, REQ_ID, stdout, asked, answered, sent, own>>

\* One frame of the chunk.  After a close, or a message above the limit, the
\* rest of the chunk is still served.
ServeLine(effects, broken) ==
    /\ running /\ outputs = <<>> /\ chunk # <<>>
    /\ chunk' = Tail(chunk)
    /\ LET line == Head(chunk) IN
         \/ /\ line = TooLarge
            /\ outputs' = <<ErrorResponse(NoId)>> /\ should_exit' = TRUE
            /\ UNCHANGED <<REQ_ID, asked>>
         \/ /\ line # TooLarge
            /\ LET request == Valid(line) /\ line.method # "none" /\ HasId(line) IN
                 /\ outputs' = Answers(line, effects, broken)
                 /\ should_exit' = (should_exit \/ (request /\ line.method = "close"))
                 /\ asked' = IF request \/ (~Valid(line) /\ HasId(ToErrorResponse(line)))
                            THEN Append(asked, line.id) ELSE asked
            /\ REQ_ID' = REQ_ID + Cardinality({i \in DOMAIN outputs' : IsHostRequest(outputs'[i])})
    /\ UNCHANGED <<stdin, running, stdout, answered, sent, own>>

\* write_message, one line under the lock of the standard output
WriteMessage ==
    /\ running /\ outputs # <<>>
    /\ outputs' = Tail(outputs)
    /\ stdout' = Append(stdout, Head(outputs))
    /\ answered' = IF IsAnswer(Head(outputs)) THEN Append(answered, Head(outputs).id) ELSE answered
    /\ UNCHANGED <<stdin, chunk, should_exit, running, REQ_ID, asked, sent, own>>

Exit ==
    /\ running /\ should_exit /\ chunk = <<>> /\ outputs = <<>>
    /\ running' = FALSE
    /\ UNCHANGED <<stdin, chunk, should_exit, outputs, REQ_ID, stdout, asked, answered, sent, own>>

\* notify_items_changed, from a thread of the extension between any two lines;
\* and a line some code of the extension prints there, which is no message.
OwnLine(line) ==
    /\ running
    /\ stdout' = Append(stdout, line)
    /\ own' = own + 1
    /\ UNCHANGED <<stdin, chunk, should_exit, running, outputs, REQ_ID, asked, answered, sent>>

-----------------------------------------------------------------------------
(* The host.                                                               *)

\* A request, or a line of a host that gets the envelope wrong.
HostWrites(line) ==
    /\ stdin' = Append(stdin, line)
    /\ sent' = sent + 1
    /\ UNCHANGED <<chunk, should_exit, running, outputs, REQ_ID, stdout, asked, answered, own>>

\* poll_notifications and handle_line: a request of the extension is answered,
\* a line that is no envelope is refused, the rest is taken and not answered.
HostReads(declared) ==
    /\ stdout # <<>>
    /\ stdout' = Tail(stdout)
    /\ LET line == Head(stdout) IN
         stdin' = IF ~Valid(line) THEN Append(stdin, ToErrorResponse(line))
                  ELSE IF ~IsHostRequest(line) THEN stdin
                  ELSE Append(stdin, IF declared THEN Result(line.id) ELSE ErrorResponse(line.id))
    /\ UNCHANGED <<chunk, should_exit, running, outputs, REQ_ID, asked, answered, sent, own>>

-----------------------------------------------------------------------------
Malformed(line) ==
    {[line EXCEPT !.top = "text"], [line EXCEPT !.top = "array"], [line EXCEPT !.id = Odd],
     [line EXCEPT !.jsonrpc = "none"], [line EXCEPT !.method = "odd"],
     [line EXCEPT !.params = "odd"], [line EXCEPT !.result = TRUE, !.error = "object"],
     [line EXCEPT !.error = "odd"]}

Next ==
    \/ \E n \in 1 .. Len(stdin) : ReadChunk(n)
    \/ \E effects \in SeqOf(Effect, MaxEffects), broken \in BOOLEAN : ServeLine(effects, broken)
    \/ WriteMessage
    \/ Exit
    \/ \E line \in {ItemsChanged} \cup Malformed(HostRequest(1)) : own < MaxOwn /\ OwnLine(line)
    \/ /\ sent < MaxRequests
       /\ \E line \in {TooLarge} \cup Malformed(Request(sent + 1, "invoke", "fit")) \cup
                      {Request(sent + 1, m, p) : m \in Method, p \in {"fit", "unfit"}} :
            HostWrites(line)
    \/ \E declared \in BOOLEAN : HostReads(declared)

Spec == Init /\ [][Next]_serveVars

-----------------------------------------------------------------------------
\* Whatever either end is sent, what it writes of its own the other end's
\* validator takes: a refusal is never refused in its turn.  Only lines that
\* were made wrong are.
NoEcho ==
    \A line \in (ToSet(stdin) \cup ToSet(stdout)) \ {TooLarge} :
       \/ Valid(line)
       \/ line \in Malformed(HostRequest(1))
       \/ \E n \in 1 .. MaxRequests : line \in Malformed(Request(n, "invoke", "fit"))

\* The lines of the host that carry an id are answered under that id, once and
\* in their order, those of the chunk that holds the close included; what is to
\* be written for a line has the answer first and its effects after, and the
\* lines of the extension's threads only come in between.
AnswersInOrder ==
    /\ \A i \in DOMAIN outputs : IsAnswer(outputs[i]) => i = 1
    /\ asked = IF outputs # <<>> /\ IsAnswer(Head(outputs))
               THEN Append(answered, Head(outputs).id) ELSE answered
=============================================================================
