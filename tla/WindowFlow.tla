----------------------------- MODULE WindowFlow -----------------------------
(***************************************************************************)
(* The window of the panel (crates/dd-gui/src/app/lifecycle.rs, mod.rs     *)
(* logic and ui, ui/chrome.rs, tray.rs): shown and hidden by the hotkey,   *)
(* the tray, lost focus, keys and the results of commands, while the       *)
(* system may be moving or resizing it in a loop of its own.  A frame is   *)
(* taken step by step, and its viewport commands take effect at its end.   *)
(***************************************************************************)
EXTENDS Naturals, Sequences

CONSTANTS
    TrayCap         \* bound: events of the tray waiting for a frame

VARIABLES
    pc,             \* where the frame is; "out" between frames
    hotkey, trayEvents, trayClick,  \* a Toggle waiting; events; tray_click_flag
    visible, panelOpen, everFocused, lastFocusLoss,
    resetOnShow, nativeResize, since, hidePending,
    page,           \* top of the stack: "home", or "away" from it
    invoke,         \* "none", "running", or the result that waits to be polled
    os,             \* the window itself, and what the user does to it
    cmd,            \* viewport commands of this frame
    press,          \* the button that is down on the tray icon, or its menu
    click           \* history: a press that found the panel shown, until its
                    \* Toggle is taken; "late" 300 ms after it

events == <<hotkey, trayEvents, trayClick>>
chrome == <<nativeResize, since, hidePending>>
looks  == <<visible, panelOpen, everFocused, lastFocusLoss, resetOnShow>>
winVars == <<pc, events, looks, chrome, page, invoke, os, cmd, press, click>>

Result == {"Dismiss", "Hide", "GoHome", "KeepOpen"}
Quiet == [visible |-> "-", loop |-> FALSE]

TypeOK ==
    /\ pc \in {"out", "tray", "focus", "heal", "invoke", "keys", "chrome", "end"}
    /\ hotkey \in BOOLEAN /\ trayClick \in BOOLEAN
    /\ trayEvents \in Seq({"Toggle", "OpenSettings"}) /\ Len(trayEvents) <= TrayCap
    /\ {visible, panelOpen, everFocused, lastFocusLoss, resetOnShow} \subseteq BOOLEAN
    /\ {nativeResize, hidePending} \subseteq BOOLEAN
    /\ since \in {"none", "running", "expired"}
    /\ page \in {"home", "away"}
    /\ invoke \in {"none", "running"} \cup Result
    /\ os \in [visible : BOOLEAN, focused : BOOLEAN, loop : BOOLEAN, button : BOOLEAN]
    /\ cmd \in [visible : {"-", "yes", "no"}, loop : BOOLEAN]
    /\ press \in {"no", "held", "flagged"} /\ click \in {"none", "quick", "late"}

Init ==
    /\ pc = "out" /\ hotkey = FALSE /\ trayEvents = <<>> /\ trayClick = FALSE
    /\ visible = FALSE /\ panelOpen = FALSE /\ everFocused = FALSE
    /\ lastFocusLoss = FALSE /\ resetOnShow = TRUE
    /\ nativeResize = FALSE /\ since = "none" /\ hidePending = FALSE
    /\ page = "home" /\ invoke = "none" /\ cmd = Quiet
    /\ press = "no" /\ click = "none"
    /\ os = [visible |-> FALSE, focused |-> FALSE, loop |-> FALSE, button |-> FALSE]

-----------------------------------------------------------------------------
ReopensAt == IF resetOnShow THEN "home" ELSE page

\* show, with page p then on top; the stack goes home unless it is kept.
ShowAt(p) ==
    /\ visible' = TRUE /\ everFocused' = FALSE /\ page' = p
    /\ cmd' = [cmd EXCEPT !.visible = "yes"]
    /\ UNCHANGED <<panelOpen, resetOnShow, chrome, lastFocusLoss>>

HideNow(reset) ==
    /\ visible' = FALSE /\ panelOpen' = FALSE /\ resetOnShow' = reset
    /\ cmd' = [cmd EXCEPT !.visible = "no"]
    /\ UNCHANGED everFocused

\* hide and hide_keep_state: within the system's loop only asked for.
HideOr(keep) ==
    /\ IF nativeResize
       THEN /\ hidePending' = TRUE /\ resetOnShow' = (resetOnShow /\ ~keep)
            /\ UNCHANGED <<visible, panelOpen, everFocused, cmd>>
       ELSE HideNow(~keep) /\ UNCHANGED hidePending
    /\ UNCHANGED <<nativeResize, since>>

Hide == HideOr(FALSE)
HideKeepState == HideOr(TRUE)

Toggle == IF visible THEN Hide /\ UNCHANGED <<page, lastFocusLoss>> ELSE ShowAt(ReopensAt)
Still == UNCHANGED <<looks, chrome, cmd>>

-----------------------------------------------------------------------------
\* logic: poll_hotkey, poll_tray, handle_focus_loss, and the repair of a
\* window that is still there though the panel was hidden.
PollHotkey ==
    /\ pc = "out" /\ pc' = "tray" /\ hotkey' = FALSE
    /\ IF hotkey THEN Toggle /\ click' = "none" ELSE Still /\ UNCHANGED <<page, click>>
    /\ UNCHANGED <<trayEvents, trayClick, invoke, os, press>>

NeverKeepsHidden == FALSE   \* mutant: a Toggle on a hidden panel always shows it

\* hidden_by_recent_focus_loss: the click that took the focus has hidden it.
KeepsHidden == ~visible /\ lastFocusLoss

PollTray ==
    /\ pc = "tray"
    /\ \/ /\ trayEvents = <<>> /\ pc' = "focus"
          /\ Still /\ UNCHANGED <<events, page, click>>
       \/ /\ trayEvents # <<>> /\ Head(trayEvents) = "Toggle"
          /\ trayEvents' = Tail(trayEvents) /\ trayClick' = FALSE
          /\ IF KeepsHidden THEN Still /\ UNCHANGED page ELSE Toggle
          /\ click' = "none" /\ UNCHANGED <<pc, hotkey>>
       \/ /\ trayEvents # <<>> /\ Head(trayEvents) = "OpenSettings"
          /\ trayEvents' = Tail(trayEvents)
          /\ IF visible THEN Still /\ page' = "away" ELSE ShowAt("away")
          /\ UNCHANGED <<pc, hotkey, trayClick, click>>
    /\ UNCHANGED <<invoke, os, press>>

HandleFocusLoss ==
    /\ pc = "focus" /\ pc' = "heal"
    /\ IF visible /\ everFocused /\ ~os.focused /\ ~trayClick
       THEN Hide /\ lastFocusLoss' = TRUE
       ELSE /\ everFocused' = (everFocused \/ (visible /\ os.focused))
            /\ UNCHANGED <<visible, panelOpen, lastFocusLoss, resetOnShow, chrome, cmd>>
    /\ UNCHANGED <<events, page, invoke, os, press, click>>

\* Hidden for 500 ms and still on the screen: shown again.
HealDesync ==
    /\ pc = "heal"
    /\ \/ /\ ~visible /\ os.visible /\ cmd.visible = "-"
          /\ visible' = TRUE /\ panelOpen' = TRUE /\ click' = "none"
       \/ UNCHANGED <<visible, panelOpen, click>>
    /\ pc' = IF visible' THEN "invoke" ELSE "end"
    /\ UNCHANGED <<events, everFocused, lastFocusLoss, resetOnShow, chrome, page, invoke, os, cmd, press>>

-----------------------------------------------------------------------------
\* ui: poll_invoke and apply_action, whatever is on the screen by then.
PollInvoke ==
    /\ pc = "invoke" /\ pc' = "keys"
    /\ invoke' = IF invoke = "running" THEN invoke ELSE "none"
    /\ CASE invoke = "Dismiss" -> page' = "home" /\ Hide /\ UNCHANGED lastFocusLoss
         [] invoke = "Hide" -> HideKeepState /\ UNCHANGED <<page, lastFocusLoss>>
         [] invoke = "GoHome" -> page' = "home" /\ Still
         [] OTHER -> Still /\ UNCHANGED page
    /\ click' = IF visible' THEN click ELSE "none"
    /\ UNCHANGED <<events, os, press>>

\* handle_keys and the search box: at most one key a frame; Esc goes back or
\* hides, as esc_behavior has it.
HandleKeys ==
    /\ pc = "keys" /\ pc' = "chrome"
    /\ \/ Still /\ UNCHANGED <<page, invoke>>
       \/ /\ os.focused
          /\ \/ Hide /\ UNCHANGED <<page, invoke, lastFocusLoss>>
             \/ page' \in {"home", "away"} \ {page} /\ Still /\ UNCHANGED invoke
             \/ invoke = "none" /\ invoke' = "running" /\ Still /\ UNCHANGED page
    /\ click' = IF visible' THEN click ELSE "none"
    /\ UNCHANGED <<events, os, press>>

\* chrome_begin and chrome_end: the system's loop is over when the button is
\* seen up or after 3 s; a drag of the background or of an edge starts it.
Chrome ==
    /\ pc = "chrome" /\ pc' = "end"
    /\ \/ /\ nativeResize /\ (~os.button \/ since = "expired")
          /\ nativeResize' = FALSE /\ since' = "none" /\ hidePending' = FALSE
          /\ IF hidePending THEN HideNow(TRUE) /\ UNCHANGED lastFocusLoss
                            ELSE UNCHANGED <<looks, cmd>>
       \/ /\ nativeResize /\ os.button /\ since # "expired" /\ Still
       \/ /\ ~nativeResize /\ os.focused
          /\ nativeResize' = TRUE /\ cmd' = [cmd EXCEPT !.loop = TRUE]
          /\ since' \in {since, "running"} /\ UNCHANGED <<looks, hidePending>>
       \/ ~nativeResize /\ Still
    /\ click' = IF visible' THEN click ELSE "none"
    /\ UNCHANGED <<events, page, invoke, os, press>>

\* What eframe and the system make of the commands: a window cannot be hidden
\* within the loop.
EndFrame ==
    /\ pc = "end" /\ pc' = "out" /\ cmd' = Quiet
    /\ os' = LET hides == cmd.visible = "no" /\ ~os.loop IN
             [os EXCEPT !.visible = (@ \/ cmd.visible = "yes") /\ ~hides,
                        !.focused = @ /\ ~hides,
                        !.loop = @ \/ cmd.loop, !.button = @ \/ cmd.loop]
    /\ UNCHANGED <<events, looks, chrome, page, invoke, press, click>>

-----------------------------------------------------------------------------
\* Between frames: the focus, and the end of the loop with the button up, of
\* which winit may not tell.
UserActs ==
    /\ pc = "out"
    /\ os' \in {[os EXCEPT !.focused = ~os.focused /\ os.visible],
                [os EXCEPT !.button = FALSE, !.loop = FALSE], [os EXCEPT !.loop = FALSE]}
    /\ UNCHANGED <<pc, events, looks, chrome, page, invoke, cmd, press, click>>

\* The system's loop has taken 3 s; 300 ms have passed since the button went down
\* on the icon, or since the panel was hidden as the focus was lost (which was
\* after the button went down, if it was hidden by that); a result is there.
TimePasses ==
    /\ pc = "out"
    /\ \/ since = "running" /\ since' = "expired" /\ UNCHANGED <<lastFocusLoss, invoke, click>>
       \/ click = "quick" /\ click' = "late" /\ UNCHANGED <<since, lastFocusLoss, invoke>>
       \/ /\ lastFocusLoss /\ click # "quick" /\ lastFocusLoss' = FALSE
          /\ UNCHANGED <<since, invoke, click>>
       \/ invoke = "running" /\ invoke' \in Result /\ UNCHANGED <<since, lastFocusLoss, click>>
    /\ UNCHANGED <<pc, events, visible, panelOpen, everFocused, resetOnShow, nativeResize, hidePending,
                   page, os, cmd, press>>

\* The button goes down on the icon, or its menu opens: the panel loses the focus.
Press ==
    /\ pc = "out" /\ press = "no" /\ press' = "held"
    /\ os' = [os EXCEPT !.focused = FALSE]
    /\ click' = IF visible /\ ~nativeResize /\ trayEvents = <<>> THEN "quick" ELSE click
    /\ UNCHANGED events

\* The button comes up, or an entry of the menu is chosen or none: Toggle is sent
\* after tray_click_flag is set.
Release ==
    /\ \/ press = "held" /\ press' = "flagged" /\ trayClick' = TRUE /\ UNCHANGED <<trayEvents, click>>
       \/ /\ press = "flagged" /\ Len(trayEvents) < TrayCap /\ press' = "no"
          /\ trayEvents' = Append(trayEvents, "Toggle") /\ UNCHANGED <<trayClick, click>>
       \/ /\ press = "held" /\ press' = "no" /\ click' = "none" /\ UNCHANGED trayClick
          /\ \/ Len(trayEvents) < TrayCap /\ trayEvents' = Append(trayEvents, "OpenSettings")
             \/ UNCHANGED trayEvents
    /\ UNCHANGED <<hotkey, os>>

\* The threads of the hotkey and of the tray; what they send later in a frame is
\* only seen in the next.
ThreadsSend ==
    /\ pc \in {"out", "tray", "focus"}
    /\ \/ ~hotkey /\ hotkey' = TRUE /\ UNCHANGED <<trayEvents, trayClick, os, press, click>>
       \/ Press \/ Release
    /\ UNCHANGED <<pc, looks, chrome, page, invoke, cmd>>

Frame == PollHotkey \/ PollTray \/ HandleFocusLoss \/ HealDesync \/ PollInvoke \/ HandleKeys
         \/ Chrome \/ EndFrame
Next == Frame \/ UserActs \/ TimePasses \/ ThreadsSend

Spec == Init /\ [][Next]_winVars

-----------------------------------------------------------------------------
\* A click on the tray icon of a shown panel hides it and does not show it
\* again, though the panel may lose the focus first, when its Toggle is taken
\* within 300 ms (poll_tray); unless a key, a result or the hotkey hides it in
\* between.
TakesToggleOf(age) == Len(trayEvents') < Len(trayEvents) /\ click = age /\ click' = "none"
HidesOnTrayClick == TakesToggleOf("quick") => ~visible' \/ hidePending'
TrayClickHides == [][HidesOnTrayClick]_winVars

\* poll_tray says a panel hidden by the press stays hidden, lest it flash: however
\* long the button is held, or the menu is open.
HeldClickHides == [][TakesToggleOf("late") => ~visible' \/ hidePending']_winVars

\* main.rs on panel_open: the watchdog repaints every second while the panel is
\* open.
WatchdogFollowsPanel == pc = "out" /\ visible => panelOpen
=============================================================================
