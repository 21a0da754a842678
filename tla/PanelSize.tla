----------------------------- MODULE PanelSize -----------------------------
(***************************************************************************)
(* The size of the panel (crates/dd-gui/src/app/mod.rs ui, lifecycle.rs):  *)
(* what the program sets, what the user drags it to, and what it is opened *)
(* with next time.  The settings page is larger, and has a least size of   *)
(* its own.  A command to the window takes effect after the frame.         *)
(***************************************************************************)

CONSTANTS
    Clicks              \* the mouse is used to open and leave the settings page

VARIABLES
    pc,                 \* where the frame is; "out" between frames
    visible, page,      \* the panel; "root" or another page but "settings"
    keep,               \* ~reset_on_show
    shownSize,          \* shown_size: what the program set when it was shown
    panelSize,          \* settings.panel_size, on disk; "none" means the base
    settingsSized, resizePending,
    os,                 \* size and least size of the window
    cmd,                \* InnerSize and MinInnerSize of this frame
    busy                \* a command is running whose result may be Dismiss

sizeVars == <<pc, visible, page, keep, shownSize, panelSize, settingsSized, resizePending, os, cmd, busy>>

Sizes == {"base", "dragged", "large"}
Quiet == [size |-> "-", min |-> "-"]

TypeOK ==
    /\ pc \in {"out", "poll", "keys", "size", "draw"}
    /\ {visible, keep, settingsSized, resizePending, busy} \subseteq BOOLEAN
    /\ page \in {"root", "settings"}
    /\ shownSize \in Sizes \cup {"none"} /\ panelSize \in {"none", "dragged", "large"}
    /\ os \in [size : Sizes, min : {"base", "large"}]
    /\ cmd \in [size : Sizes \cup {"-"}, min : {"-", "base", "large"}]

Init ==
    /\ pc = "out" /\ visible = FALSE /\ page = "root" /\ keep = FALSE /\ busy = FALSE
    /\ shownSize = "none" /\ panelSize \in {"none", "dragged"}
    /\ settingsSized = FALSE /\ resizePending = FALSE
    /\ os = [size |-> "base", min |-> "base"] /\ cmd = Quiet

\* root_panel_size, settings_panel_size.
TargetSize(p) ==
    IF p = "settings" THEN "large" ELSE IF panelSize = "none" THEN "base" ELSE panelSize

\* persist_panel_size: a size the program did not set is the user's.
Persisted(p) ==
    IF p = "settings" \/ shownSize \in {"none", os.size} THEN panelSize
    ELSE IF os.size = "base" THEN "none" ELSE os.size

\* show: settings_sized is set here, MinInnerSize is not.
Show ==
    /\ ~visible /\ visible' = TRUE
    /\ page' = IF keep THEN page ELSE "root"
    /\ settingsSized' = (page' = "settings") /\ shownSize' = TargetSize(page')
    /\ cmd' = [Quiet EXCEPT !.size = TargetSize(page')]
    /\ UNCHANGED <<keep, panelSize, resizePending, os, busy>>

\* hide by the user, hide_keep_state and dismiss, the last with the stack
\* already at its root.
HideAs(p, kept) ==
    /\ visible' = FALSE /\ page' = p /\ keep' = kept
    /\ panelSize' = Persisted(p)
    /\ UNCHANGED <<shownSize, settingsSized, resizePending, os, cmd>>

\* open_settings, and going back from it.
OpenOrBack ==
    /\ page' \in {"root", "settings"} \ {page}
    /\ UNCHANGED <<visible, keep, shownSize, panelSize, settingsSized, resizePending, os, cmd, busy>>

Idle == UNCHANGED <<visible, page, keep, shownSize, panelSize, settingsSized, resizePending, os, cmd, busy>>

\* logic: the hotkey, the tray and lost focus.
Logic ==
    /\ pc = "out"
    /\ \/ Show
       \/ visible /\ HideAs(page, FALSE) /\ UNCHANGED busy
       \/ visible /\ Idle
    /\ pc' = IF visible' THEN "poll" ELSE "draw"

\* ui: the result of a command, whatever page is on top by then.
PollInvoke ==
    /\ pc = "poll" /\ pc' = "keys"
    /\ \/ busy /\ busy' = FALSE /\ (HideAs("root", FALSE) \/ HideAs(page, TRUE))
       \/ Idle

HandleKeys ==
    /\ pc = "keys" /\ pc' = "size"
    /\ \/ Idle
       \/ OpenOrBack
       \/ HideAs(page, FALSE) /\ UNCHANGED busy
       \/ /\ page = "root" /\ ~busy /\ busy' = TRUE
          /\ UNCHANGED <<visible, page, keep, shownSize, panelSize, settingsSized, resizePending, os, cmd>>

\* The window follows the page; on any other page than the settings a size the
\* user gave it is kept after 500 ms.
FollowPage ==
    LET want == page = "settings"
        drifted == ~want /\ shownSize \notin {"none", os.size} IN
    /\ pc = "size" /\ pc' = "draw" /\ settingsSized' = want
    /\ cmd' = IF want = settingsSized THEN cmd
              ELSE [size |-> TargetSize(page), min |-> IF want THEN "large" ELSE "base"]
    /\ \/ /\ drifted /\ resizePending /\ resizePending' = FALSE
          /\ panelSize' = Persisted(page) /\ shownSize' = os.size
       \/ /\ resizePending' = IF want THEN resizePending ELSE drifted
          /\ UNCHANGED <<panelSize, shownSize>>
    /\ UNCHANGED <<visible, page, keep, os, busy>>

\* draw_panel, where the buttons are.
Click == Clicks /\ pc = "draw" /\ visible /\ OpenOrBack /\ UNCHANGED pc

\* What winit makes of the commands: no window is under its least size.
EndFrame ==
    LET min == IF cmd.min = "-" THEN os.min ELSE cmd.min
        size == IF cmd.size = "-" THEN os.size ELSE cmd.size IN
    /\ pc = "draw" /\ pc' = "out" /\ cmd' = Quiet
    /\ os' = [min |-> min, size |-> IF min = "large" THEN "large" ELSE size]
    /\ UNCHANGED <<visible, page, keep, shownSize, panelSize, settingsSized, resizePending, busy>>

UserDrags ==
    /\ pc = "out" /\ visible /\ os.min = "base" /\ os' = [os EXCEPT !.size = "dragged"]
    /\ UNCHANGED <<pc, visible, page, keep, shownSize, panelSize, settingsSized, resizePending, cmd, busy>>

Next == Logic \/ PollInvoke \/ HandleKeys \/ FollowPage \/ Click \/ EndFrame \/ UserDrags

Spec == Init /\ [][Next]_sizeVars

-----------------------------------------------------------------------------
\* lifecycle.rs on persist_panel_size: the size of the settings page is its own
\* and is not what the panel is opened with next time.
SettingsSizeIsNotRemembered == panelSize # "large"
=============================================================================
