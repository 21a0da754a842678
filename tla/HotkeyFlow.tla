----------------------------- MODULE HotkeyFlow -----------------------------
(***************************************************************************)
(* Changing the global hotkey (crates/dd-gui/src/hotkey.rs,                *)
(* app/lifecycle.rs poll_hotkey, app/keys/hotkey_capture.rs,               *)
(* ui/settings_view/hotkey_dialog.rs).  The panel sends numbered requests  *)
(* to the thread that owns the registration, and writes the settings when  *)
(* the answer with the number it waits for says yes.  Other programs take  *)
(* and free combinations meanwhile.                                        *)
(***************************************************************************)
EXTENDS Naturals, Sequences

CONSTANTS
    Combo,          \* combinations of keys
    Default,        \* the one "restore default" asks for
    Windows,        \* TRUE: message_loop, FALSE: message_loop_unix
    Requests        \* bound: requests in a session

ASSUME HotkeyAssumption == Default \in Combo /\ Requests \in Nat

VARIABLES
    alive, current, registered,     \* the thread; its rollback; the system's view
    taken,          \* combinations held by other programs
    commands, answers,              \* to the thread, and from it
    settings,       \* hotkey_mods and hotkey_vk
    seq, confirm,   \* hotkey_seq; hotkey_confirm, or NoConfirm
    dialog          \* the dialog and what the settings page shows

thread == <<alive, current, registered, taken>>
panel == <<settings, seq, confirm, dialog>>
keyVars == <<thread, commands, answers, panel>>

Startup == 0        \* HOTKEY_SEQ_STARTUP
None == "none"
NoConfirm == [seq |-> 0, combo |-> Default]
Answer(n, ok, back) == [seq |-> n, ok |-> ok, rolledBack |-> back]
Died == [seq |-> Requests + 1, ok |-> FALSE, rolledBack |-> FALSE]
Shut(d) == [d EXCEPT !.capturing = FALSE, !.pending = None]

TypeOK ==
    /\ alive \in BOOLEAN /\ taken \subseteq Combo
    /\ {current, registered} \subseteq Combo \cup {None}
    /\ registered # None => alive /\ registered \notin taken
    /\ \A c \in {commands[i] : i \in DOMAIN commands} \cup {confirm} :
          c.seq \in 0 .. seq /\ c.combo \in Combo
    /\ seq \in 0 .. Requests /\ settings \in Combo
    /\ dialog \in [capturing : BOOLEAN, pending : Combo \cup {None}, failed : BOOLEAN,
                   unregistered : BOOLEAN]

\* spawn: the start-up registration may fail, and so may the thread.
Init ==
    /\ settings \in Combo /\ taken \in SUBSET Combo
    /\ alive \in BOOLEAN
    /\ registered = IF alive /\ settings \notin taken THEN settings ELSE None
    /\ current = IF Windows THEN settings ELSE registered
    /\ answers = IF registered = None THEN <<Answer(Startup, FALSE, FALSE)>> ELSE <<>>
    /\ commands = <<>> /\ seq = 0 /\ confirm = NoConfirm
    /\ dialog = [capturing |-> FALSE, pending |-> None, failed |-> FALSE, unregistered |-> FALSE]

-----------------------------------------------------------------------------
\* start_hotkey_capture and end_hotkey_capture: a request under way is kept.
OpenDialog ==
    /\ ~dialog.capturing
    /\ dialog' = [dialog EXCEPT !.capturing = TRUE, !.pending = None, !.failed = FALSE]
    /\ UNCHANGED <<thread, commands, answers, settings, seq, confirm>>

CloseDialog ==
    /\ dialog.capturing /\ dialog' = Shut(dialog)
    /\ UNCHANGED <<thread, commands, answers, settings, seq, confirm>>

\* A combination is pressed, or "reset" shows the present one again.
Record ==
    /\ dialog.capturing
    /\ \/ \E c \in Combo : dialog' = [dialog EXCEPT !.pending = c]
       \/ dialog' = [dialog EXCEPT !.pending = settings, !.failed = FALSE]
    /\ UNCHANGED <<thread, commands, answers, settings, seq, confirm>>

\* apply_captured_hotkey: a new number, which replaces the one waited for; a
\* thread that is gone never answers.
Apply(c) ==
    /\ seq < Requests /\ seq' = seq + 1
    /\ confirm' = [seq |-> seq + 1, combo |-> c]
    /\ dialog' = [dialog EXCEPT !.failed = FALSE]
    /\ commands' = IF alive THEN Append(commands, confirm') ELSE commands
    /\ UNCHANGED <<thread, answers, settings>>

\* The dialog's button waits for the answer; the one of the settings page,
\* apply_hotkey_default, does not.
Save ==
    /\ dialog.capturing /\ dialog.pending \notin {None, settings} /\ confirm = NoConfirm
    /\ Apply(dialog.pending)
RestoreDefault == ~dialog.capturing /\ Apply(Default)

-----------------------------------------------------------------------------
\* The thread: unregister, register the new one, or else the old one again.
HandleCommand ==
    /\ alive /\ commands # <<>> /\ commands' = Tail(commands)
    /\ LET next == Head(commands)
           back == current # None /\ current \notin taken
       IN IF next.combo \notin taken
          THEN /\ registered' = next.combo /\ current' = next.combo
               /\ answers' = Append(answers, Answer(next.seq, TRUE, TRUE))
          ELSE /\ registered' = IF back THEN current ELSE None
               /\ current' = IF Windows \/ back THEN current ELSE None
               /\ answers' = Append(answers, Answer(next.seq, FALSE, back))
    /\ UNCHANGED <<alive, taken, panel>>

\* GetMessageW fails.
ThreadDies ==
    /\ Windows /\ alive /\ alive' = FALSE
    /\ registered' = None /\ commands' = <<>> /\ answers' = Append(answers, Died)
    /\ UNCHANGED <<current, taken, panel>>

OthersTakeOrFree ==
    /\ \E c \in Combo \ {registered} : taken' = IF c \in taken THEN taken \ {c} ELSE taken \cup {c}
    /\ UNCHANGED <<alive, current, registered, commands, answers, panel>>

-----------------------------------------------------------------------------
\* poll_hotkey: 2 s have passed at the start of a frame, whatever waits in the
\* channel by then.
ConfirmTimesOut ==
    /\ confirm # NoConfirm /\ confirm' = NoConfirm
    /\ dialog' = [dialog EXCEPT !.failed = TRUE]
    /\ UNCHANGED <<thread, commands, answers, settings, seq>>

AnswersAny(a) == confirm # NoConfirm    \* mutant: matched by the order of arrival
AnswersIt(a) == confirm # NoConfirm /\ confirm.seq = a.seq

PollAnswer ==
    /\ answers # <<>> /\ answers' = Tail(answers)
    /\ LET got == Head(answers) IN
       \/ /\ got \in {Died, Answer(Startup, FALSE, FALSE)}
          /\ dialog' = [dialog EXCEPT !.unregistered = TRUE,
                                      !.failed = @ \/ (got = Died /\ confirm # NoConfirm)]
          /\ confirm' = IF got = Died THEN NoConfirm ELSE confirm
          /\ UNCHANGED settings
       \/ /\ got.seq \in 1 .. Requests /\ ~AnswersIt(got)
          /\ UNCHANGED <<dialog, confirm, settings>>
       \/ /\ got.seq \in 1 .. Requests /\ AnswersIt(got) /\ confirm' = NoConfirm
          /\ settings' = IF got.ok THEN confirm.combo ELSE settings
          /\ dialog' = IF got.ok THEN Shut([dialog EXCEPT !.unregistered = FALSE])
                       ELSE [dialog EXCEPT !.failed = TRUE, !.unregistered = @ \/ ~got.rolledBack]
    /\ UNCHANGED <<thread, commands, seq>>

Next == OpenDialog \/ CloseDialog \/ Record \/ Save \/ RestoreDefault
        \/ HandleCommand \/ ThreadDies \/ OthersTakeOrFree \/ ConfirmTimesOut \/ PollAnswer

Spec == Init /\ [][Next]_keyVars

-----------------------------------------------------------------------------
\* poll_hotkey writes the settings only for a combination that the thread has
\* registered and still holds (or held when it died), however many requests
\* were repeated, replaced or given up before.
WritesRegistered ==
    settings' # settings => settings' = IF alive THEN registered ELSE current
WrittenOnceRegistered == [][WritesRegistered]_keyVars

\* hotkey.rs: a success makes the panel write the settings, a failure leaves
\* both as they were; so once all is answered the settings name the hotkey.
SettingsNameTheHotkey ==
    alive /\ commands = <<>> /\ answers = <<>> /\ confirm = NoConfirm
      => registered \in {settings, None}
=============================================================================
