------------------------------ MODULE ShellRun ------------------------------
(***************************************************************************)
(* The shell extension (crates/dd-ext/src/builtins/shell.rs): the gate in  *)
(* front of a command, and run_capture, which reads the output of the      *)
(* process in two threads while it waits for it to end.  What the process  *)
(* leaves running in the background keeps its end of the pipes open.       *)
(***************************************************************************)
EXTENDS Naturals, Sequences, SequencesExt

CONSTANTS
    Deadline,       \* EXEC_TIMEOUT_MS, in polls
    PipeSize,       \* what a pipe holds before its writer blocks
    MaxOutput       \* bound: what is written to one pipe

Stream == {"stdout", "stderr"}

\* The words of a command line, cut at & | and line ends, by their first word.
Segment == {"plain", "dangerous", "nested", "empty"}
Query == [segments : SeqOf(Segment, 2), caret : BOOLEAN]
NoQuery == [segments |-> <<>>, caret |-> FALSE]

VARIABLES
    phase,          \* where handle_invoke is
    query, confirmed,
    child,          \* the process of the command
    heir,           \* a process it left behind, with the pipes
    pipe, written,  \* per pipe: what is in it, what was ever written
    reader,         \* the thread of spawn_pipe_reader
    got,            \* what it has read
    polls,
    answer          \* the last result

shellVars == <<phase, query, confirmed, child, heir, pipe, written, reader, got, polls, answer>>
procVars == <<child, heir, pipe, written, reader, got, polls>>

TypeOK ==
    /\ phase \in {"idle", "polling", "joining"}
    /\ query \in Query /\ confirmed \in BOOLEAN
    /\ child \in {"none", "running", "exited", "killed"}
    /\ heir \in BOOLEAN
    /\ pipe \in [Stream -> 0..PipeSize]
    /\ written \in [Stream -> 0..MaxOutput] /\ got \in [Stream -> 0..MaxOutput]
    /\ reader \in [Stream -> {"none", "reading", "ended"}]
    /\ polls \in 0..Deadline
    /\ answer.kind \in {"none", "dismiss", "toast", "confirm", "timeout", "output"}

Zero == [s \in Stream |-> 0]

Init ==
    /\ phase = "idle" /\ query = NoQuery /\ confirmed = FALSE
    /\ child = "none" /\ heir = FALSE
    /\ pipe = Zero /\ written = Zero /\ got = Zero
    /\ reader = [s \in Stream |-> "none"]
    /\ polls = 0
    /\ answer = [kind |-> "none", output |-> Zero]

-----------------------------------------------------------------------------
\* is_dangerous_command, for one segment: the named commands and the shells
\* inside the shell.
IsDangerousCommand(segment) == segment \in {"dangerous", "nested"}

\* is_dangerous_query: any segment, or the escape character anywhere.
IsDangerousQuery(q) ==
    q.caret \/ \E i \in DOMAIN q.segments : IsDangerousCommand(q.segments[i])

Says(kind) == answer' = [kind |-> kind, output |-> Zero]

\* handle_invoke of shell.open_terminal.
OpenTerminal ==
    /\ phase = "idle"
    /\ Says("dismiss") \/ Says("toast")
    /\ UNCHANGED <<phase, query, confirmed, procVars>>

\* handle_invoke of shell.run.query, up to a result of its own ...
Refuse(q, yes) ==
    /\ phase = "idle"
    /\ IF q.segments = <<>> THEN Says("toast")
       ELSE ~yes /\ IsDangerousQuery(q) /\ Says("confirm")
    /\ query' = q /\ confirmed' = yes
    /\ UNCHANGED <<phase, procVars>>

\* ... or up to the process and its two readers; spawning may fail.
Spawn(q, yes) ==
    /\ phase = "idle" /\ q.segments # <<>>
    /\ yes \/ ~IsDangerousQuery(q)
    /\ query' = q /\ confirmed' = yes
    /\ \/ /\ Says("toast")
          /\ UNCHANGED <<phase, procVars>>
       \/ /\ phase' = "polling" /\ child' = "running" /\ heir' = FALSE
          /\ pipe' = Zero /\ written' = Zero /\ got' = Zero
          /\ reader' = [s \in Stream |-> "reading"]
          /\ polls' = 0
          /\ Says("none")

\* The system extension (builtins/system.rs), decide and launch: the
\* dangerous ones of its commands have the same gate.
SystemCommand(dangerous, yes) ==
    /\ phase = "idle"
    /\ IF dangerous /\ ~yes THEN Says("confirm") ELSE Says("dismiss") \/ Says("toast")
    /\ UNCHANGED <<phase, query, confirmed, procVars>>

\* The process, and what it left behind, write; a full pipe makes them wait.
Write(s) ==
    /\ child = "running" \/ heir
    /\ written[s] < MaxOutput /\ pipe[s] < PipeSize
    /\ written' = [written EXCEPT ![s] = @ + 1]
    /\ pipe' = [pipe EXCEPT ![s] = @ + 1]
    /\ UNCHANGED <<phase, query, confirmed, child, heir, reader, got, polls, answer>>

\* The process starts another in the background, which inherits the pipes.
LeaveBehind ==
    /\ child = "running" /\ ~heir
    /\ heir' = TRUE
    /\ UNCHANGED <<phase, query, confirmed, child, pipe, written, reader, got, polls, answer>>

HeirEnds ==
    /\ heir
    /\ heir' = FALSE
    /\ UNCHANGED <<phase, query, confirmed, child, pipe, written, reader, got, polls, answer>>

Exit ==
    /\ child = "running"
    /\ child' = "exited"
    /\ UNCHANGED <<phase, query, confirmed, heir, pipe, written, reader, got, polls, answer>>

\* spawn_pipe_reader: read_to_end ends once nobody holds the other end.
Read(s) ==
    /\ reader[s] = "reading"
    /\ \/ /\ pipe[s] > 0
          /\ pipe' = [pipe EXCEPT ![s] = @ - 1]
          /\ got' = [got EXCEPT ![s] = @ + 1]
          /\ UNCHANGED reader
       \/ /\ pipe[s] = 0 /\ child # "running" /\ ~heir
          /\ reader' = [reader EXCEPT ![s] = "ended"]
          /\ UNCHANGED <<pipe, got>>
    /\ UNCHANGED <<phase, query, confirmed, child, heir, written, polls, answer>>

\* One turn of the loop around try_wait: the process ended, or time is up
\* and it is killed, what it left behind excepted; or the system does not say,
\* and the process is let go as it is. The readers are let go with it.
Poll ==
    /\ phase = "polling"
    /\ \/ /\ child = "exited"
          /\ phase' = "joining"
          /\ UNCHANGED <<child, polls, answer>>
       \/ /\ child = "running" /\ polls < Deadline
          /\ polls' = polls + 1
          /\ UNCHANGED <<phase, child, answer>>
       \/ /\ child = "running" /\ polls = Deadline
          /\ child' = "killed" /\ phase' = "idle"
          /\ Says("timeout")
          /\ UNCHANGED polls
       \/ phase' = "idle" /\ Says("toast") /\ UNCHANGED <<child, polls>>
    /\ UNCHANGED <<query, confirmed, heir, pipe, written, reader, got>>

\* A mutant: only the reader of the standard output is waited for.
JoinOne ==
    /\ phase = "joining" /\ reader["stdout"] = "ended"
    /\ phase' = "idle"
    /\ answer' = [kind |-> "output", output |-> got]
    /\ UNCHANGED <<query, confirmed, procVars>>

\* join of both readers: the output of both pipes, to the last byte.
Join ==
    /\ phase = "joining" /\ \A s \in Stream : reader[s] = "ended"
    /\ phase' = "idle"
    /\ answer' = [kind |-> "output", output |-> got]
    /\ UNCHANGED <<query, confirmed, procVars>>

Next ==
    \/ OpenTerminal
    \/ \E dangerous, yes \in BOOLEAN : SystemCommand(dangerous, yes)
    \/ \E q \in Query, yes \in BOOLEAN : Refuse(q, yes) \/ Spawn(q, yes)
    \/ \E s \in Stream : Write(s) \/ Read(s)
    \/ LeaveBehind
    \/ HeirEnds
    \/ Exit
    \/ Poll
    \/ Join

Spec == Init /\ [][Next]_shellVars

\* The scheduler runs the extension and its threads; the command itself ends.
FairSpec == /\ Spec
            /\ WF_shellVars(Poll) /\ WF_shellVars(Join) /\ WF_shellVars(Exit)
            /\ \A s \in Stream : WF_shellVars(Read(s))

-----------------------------------------------------------------------------
(* An output that is shown is everything the command and what it left      *)
(* behind wrote to the pipes: nothing is lost between the exit of the      *)
(* process and the threads that still read, whatever its size.             *)
OutputIsWhole ==
    phase = "idle" /\ answer.kind = "output" => answer.output = written

(* Once the command has ended, its output is there in finite time ("EOF 已  *)
(* 到或即将到达，join 恒有限时完成": joining always completes).             *)
RunReturns == phase = "joining" ~> phase = "idle"
=============================================================================
