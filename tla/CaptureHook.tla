---------------------------- MODULE CaptureHook ----------------------------
(***************************************************************************)
(* The keyboard hook that records a new hotkey                             *)
(* (crates/dd-gui/src/platform/capture_hook.rs, app/keys/hotkey_capture.rs). *)
(* Each opening of the dialog starts a thread that installs a hook which   *)
(* swallows the whole keyboard.  Nobody waits for that thread: the dialog  *)
(* and the threads meet only in two statics, THREAD_ID and CAPTURE_TX, and *)
(* in the WM_QUIT posted to a thread.                                      *)
(***************************************************************************)
EXTENDS Naturals, Sequences, SequencesExt

CONSTANTS
    Sessions,       \* bound: how often the dialog is opened
    Unread          \* bound: events of a session the dialog has not read

VARIABLES
    session,        \* openings of the dialog so far
    dialog,         \* hotkey_capturing and what belongs to it
    threadId, captureTx,    \* THREAD_ID, CAPTURE_TX: a session, 0 for none
    hit,            \* SELFTEST_HIT
    echo,           \* the injected F15 is on its way
    pc,             \* where the thread of each session is
    quit,           \* sessions whose thread has WM_QUIT in its queue
    hooks,          \* the installed hooks, the newest first
    chan            \* per session, what was sent to its receiver

statics == <<threadId, captureTx, hit>>
threads == <<pc, quit, hooks>>
hookVars == <<session, dialog, statics, echo, threads, chan>>

Session == 1 .. Sessions
Closed == [open |-> FALSE, rx |-> 0, guard |-> FALSE, failed |-> FALSE, pending |-> FALSE]

TypeOK ==
    /\ session \in 0 .. Sessions
    /\ dialog \in [open : BOOLEAN, rx : 0 .. session, guard : BOOLEAN, failed : BOOLEAN, pending : BOOLEAN]
    /\ {threadId, captureTx} \subseteq 0 .. session
    /\ hit \in BOOLEAN /\ echo \in BOOLEAN
    /\ pc \in [Session -> {"unused", "started", "named", "armed", "echo", "pump", "clear", "gone"}]
    /\ quit \subseteq Session
    /\ ToSet(hooks) \subseteq {s \in Session : pc[s] \in {"echo", "pump"}}
    /\ \A s \in Session : Len(chan[s]) <= Unread + Sessions
    /\ dialog.guard => dialog.open

Init ==
    /\ session = 0 /\ dialog = Closed
    /\ threadId = 0 /\ captureTx = 0 /\ hit = FALSE /\ echo = FALSE
    /\ pc = [s \in Session |-> "unused"] /\ quit = {} /\ hooks = <<>>
    /\ chan = [s \in Session |-> <<>>]

-----------------------------------------------------------------------------
\* Sending into CAPTURE_TX: nothing where it is empty.
Tell(e) == chan' = IF captureTx = 0 THEN chan ELSE [chan EXCEPT ![captureTx] = Append(@, e)]

\* end_hotkey_capture with the Drop of the guard: clears the sender and posts
\* WM_QUIT to the thread last named, which gets it only once it has a queue.
EndCapture ==
    /\ dialog' = Closed
    /\ captureTx' = IF dialog.guard THEN 0 ELSE captureTx
    /\ LET t == IF dialog.guard THEN {threadId} \ {0} ELSE {} IN
       \E got \in {t} \cup (IF \E s \in t : pc[s] \in {"named", "armed"} THEN {{}} ELSE {}) :
          quit' = quit \cup {s \in got : pc[s] # "gone"}

\* start_hotkey_capture: a second click closes; the thread may fail to start.
StartCapture ==
    /\ ~dialog.open /\ session < Sessions
    /\ session' = session + 1
    /\ \/ /\ dialog' = [Closed EXCEPT !.open = TRUE, !.guard = TRUE, !.rx = session + 1]
          /\ pc' = [pc EXCEPT ![session + 1] = "started"]
       \/ dialog' = [Closed EXCEPT !.open = TRUE, !.failed = TRUE] /\ UNCHANGED pc
    /\ UNCHANGED <<statics, echo, quit, hooks, chan>>

\* The button again, Cancel, a click beside the dialog, hide, or 30 s.
CloseDialog ==
    /\ dialog.open /\ EndCapture
    /\ UNCHANGED <<session, threadId, hit, echo, pc, hooks, chan>>

\* handle_hotkey_capture: one event a frame, as long as there is a receiver.
ReadEvent ==
    /\ dialog.open /\ dialog.rx # 0 /\ chan[dialog.rx] # <<>>
    /\ chan' = [chan EXCEPT ![dialog.rx] = Tail(@)]
    /\ CASE Head(chan[dialog.rx]) = "Cancel" -> EndCapture
         [] Head(chan[dialog.rx]) = "Ready" ->
              dialog' = [dialog EXCEPT !.failed = FALSE] /\ UNCHANGED <<captureTx, quit>>
         [] Head(chan[dialog.rx]) = "Failed" ->
              dialog' = [dialog EXCEPT !.failed = TRUE, !.rx = 0] /\ UNCHANGED <<captureTx, quit>>
         [] Head(chan[dialog.rx]) = "Combo" ->
              dialog' = [dialog EXCEPT !.pending = TRUE] /\ UNCHANGED <<captureTx, quit>>
    /\ UNCHANGED <<session, threadId, hit, echo, pc, hooks>>

-----------------------------------------------------------------------------
\* The thread of session s, in the order of start().
Name(s) ==
    /\ pc[s] = "started" /\ pc' = [pc EXCEPT ![s] = "named"] /\ threadId' = s
    /\ UNCHANGED <<session, dialog, captureTx, hit, echo, quit, hooks, chan>>

Arm(s) ==
    /\ pc[s] = "named" /\ pc' = [pc EXCEPT ![s] = "armed"] /\ captureTx' = s
    /\ UNCHANGED <<session, dialog, threadId, hit, echo, quit, hooks, chan>>

\* Installed at the first or second try, the echo injected; or told and left.
Install(s) ==
    /\ pc[s] = "armed"
    /\ \/ /\ pc' = [pc EXCEPT ![s] = "echo"] /\ hooks' = <<s>> \o hooks
          /\ hit' = FALSE /\ echo' = TRUE /\ UNCHANGED chan
       \/ /\ pc' = [pc EXCEPT ![s] = "clear"] /\ Tell("Failed") /\ UNCHANGED <<hooks, hit, echo>>
    /\ UNCHANGED <<session, dialog, threadId, captureTx, quit>>

\* The hook of a thread, unless it has removed itself.
Unhook(s) ==
    LET at == {i \in DOMAIN hooks : hooks[i] = s}
    IN  IF at = {} THEN hooks ELSE RemoveAt(hooks, CHOOSE i \in at : TRUE)

\* The echo came through, or WM_QUIT or 1.2 s ended the wait.
Verify(s) ==
    /\ pc[s] = "echo"
    /\ \/ /\ hit /\ s \notin quit
          /\ pc' = [pc EXCEPT ![s] = "pump"] /\ Tell("Ready") /\ UNCHANGED hooks
       \/ /\ ~hit \/ s \in quit
          /\ pc' = [pc EXCEPT ![s] = "clear"] /\ Tell("Failed") /\ hooks' = Unhook(s)
    /\ UNCHANGED <<session, dialog, statics, echo, quit>>

\* The pump: WM_QUIT clears the sender on its way out, an empty sender ends it.
Pump(s) ==
    /\ pc[s] = "pump" /\ (s \in quit \/ captureTx = 0)
    /\ pc' = [pc EXCEPT ![s] = IF s \in quit THEN "clear" ELSE "gone"]
    /\ hooks' = Unhook(s)
    /\ UNCHANGED <<session, dialog, statics, echo, quit, chan>>

ClearSender(s) ==
    /\ pc[s] = "clear" /\ pc' = [pc EXCEPT ![s] = "gone"] /\ captureTx' = 0
    /\ UNCHANGED <<session, dialog, threadId, hit, echo, quit, hooks, chan>>

-----------------------------------------------------------------------------
\* hook_proc down the chain: a hook whose thread is not the one last named
\* removes itself and lets the key pass; the first other one swallows it.
Passing == IF \E h \in ToSet(hooks) : h = threadId
           THEN SubSeq(hooks, 1, (CHOOSE i \in DOMAIN hooks : hooks[i] = threadId) - 1)
           ELSE hooks
Swallowed == threadId \in ToSet(hooks)
LeftHooks == SubSeq(hooks, Len(Passing) + 1, Len(hooks))

EchoArrives ==
    /\ echo /\ echo' = FALSE
    /\ hooks' = LeftHooks /\ hit' = (hit \/ Swallowed)
    /\ UNCHANGED <<session, dialog, threadId, captureTx, pc, quit, chan>>

\* A combination or Esc: swallowed and sent on, or seen by egui, which records
\* only where the dialog has no receiver.
KeyPressed(e) ==
    /\ hooks' = LeftHooks
    /\ \A s \in Session : Len(chan[s]) < Unread
    /\ IF Swallowed
       THEN Tell(e) /\ UNCHANGED <<dialog, captureTx, quit>>
       ELSE /\ UNCHANGED chan
            /\ CASE dialog.open /\ dialog.rx = 0 /\ e = "Cancel" -> EndCapture
                 [] dialog.open /\ dialog.rx = 0 /\ e = "Combo" ->
                      dialog' = [dialog EXCEPT !.pending = TRUE] /\ UNCHANGED <<captureTx, quit>>
                 [] OTHER -> UNCHANGED <<dialog, captureTx, quit>>
    /\ UNCHANGED <<session, threadId, hit, echo, pc>>

Thread(s) == Name(s) \/ Arm(s) \/ Install(s) \/ Verify(s) \/ Pump(s) \/ ClearSender(s)
Next ==
    \/ StartCapture \/ CloseDialog \/ ReadEvent
    \/ \E s \in Session : Thread(s)
    \/ EchoArrives
    \/ \E e \in {"Combo", "Cancel"} : KeyPressed(e)

\* A thread that can run does run.
Spec == Init /\ [][Next]_hookVars /\ \A s \in Session : WF_hookVars(Thread(s))

-----------------------------------------------------------------------------
\* capture_hook.rs on start: dropping the guard cancels the installation or
\* removes the hook, at any time; no hook stays once the dialog is closed.
DroppedGuardUnhooks == ~dialog.open ~> dialog.open \/ hooks = <<>>

\* capture_hook.rs on CAPTURE_TIMEOUT: Esc always cancels; so an open dialog has
\* a hook or a thread that will install one, or listens by itself.
EscCancels ==
    dialog.open /\ dialog.rx # 0 /\ chan[dialog.rx] = <<>>
      => \E s \in Session : pc[s] \notin {"unused", "gone"}
=============================================================================
