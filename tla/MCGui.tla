------------ MODULE MCGui ------------
(* The graphical program outside the pool and the pages, part by part, for *)
(* TLC: the list, the window, the hotkey and its recorder, results, the     *)
(* settings, the backdrop and the log. Each behaviour is one part's.        *)
EXTENDS HotkeyFlow, FiniteSets, TLC

CONSTANTS
  Ext, Command, Template, App, Query, Score, a, b, c, x, q, r, MaxUse, TrayCap,
  Clicks, Sessions, Unread, Cmd, Custom, Backlog, MaxSessions, MaxChanges, Countdown, Changes, Keep, Size,
  MaxLines

\* A command and an application of two extensions, and the templates of both,
\* each pair with one id; text q matches neither, text r the command best.
MCCommand == {<<a, c>>, <<b, c>>}
MCTemplate == [e \in {a, b} |-> x]
MCApp == {<<b, c>>}
MCQuery == {q, r}
MCScore ==
  [text \in MCQuery |->
    [k \in MCCommand |-> IF text = q THEN 0
                         ELSE IF k = <<a, c>> THEN 2 ELSE 1]]

\* The material is cleared some frames after a change and not at once
\* (refresh_backdrop); an extension has so many commands, and a score is a
\* number (FuzzyMatcher::score);
\* the log has a predecessor to rotate to (ROTATE_KEEP) and takes a line; the
\* bounds are numbers.
ASSUME GuiAssumption ==
  /\ Countdown \in Nat \ {0}
  /\ IsFiniteSet(Command)
  /\ \A text \in Query, k \in Command : Score[text][k] \in Nat
  /\ Keep \in Nat /\ Keep >= 2 /\ Size \in Nat \ {0} /\ MaxLines \in Nat
  /\ {MaxUse, TrayCap, Sessions, Unread, Backlog, MaxSessions, MaxChanges, Changes} \subseteq Nat

VARIABLES
  part,  \* the part this behaviour is about, the same throughout
  list, usage, ready, arrived, came, aggregating, menu, frame, did,
  windowPc, hotkey, trayEvents, trayClick, windowVisible, panelOpen,
  everFocused, lastFocusLoss, resetOnShow, nativeResize, since, hidePending,
  windowPage, invoke, windowOs, windowCmd, press, click,
  extentPc, extentVisible, extentPage, keep, shownSize, panelSize,
  settingsSized, resizePending, extentOs, extentCmd, busy,
  session, hookDialog, threadId, captureTx, hit, echo, hookPc, quit, hooks,
  chan,
  resultVisible, client, pageBusy, flight, answer, last, resultDialog,
  asked, requests, clip, update, resultToast,
  config, tmp, backup, registry, running, settingsSettings, script,
  save_warned, dirty, on_settings, aggregated, settingsToast, sessions,
  settingsChanges, shown, origin,
  backdrop, image, theme, system, supported, dwm, border, active, countdown,
  materialPanel, presented, materialChanges,
  slot, lines, handle, foreign, logged, refused, calm

List == INSTANCE PanelList
Window == INSTANCE WindowFlow WITH
  pc <- windowPc, visible <- windowVisible, page <- windowPage,
  os <- windowOs, cmd <- windowCmd
Extent == INSTANCE PanelSize WITH
  pc <- extentPc, visible <- extentVisible, page <- extentPage,
  os <- extentOs, cmd <- extentCmd
Hook == INSTANCE CaptureHook WITH
  dialog <- hookDialog, pc <- hookPc
Result == INSTANCE ResultFlow WITH
  visible <- resultVisible, dialog <- resultDialog, toast <- resultToast
Settings == INSTANCE SettingsFlow WITH
  settings <- settingsSettings, toast <- settingsToast,
  changes <- settingsChanges
Material == INSTANCE Material WITH
  panel <- materialPanel, changes <- materialChanges
Log == INSTANCE LogFiles

hotkeyVars == <<
  alive, current, registered, taken, commands, answers, settings, seq,
  confirm, dialog>>
listVars == <<
  list, usage, ready, arrived, came, aggregating, menu, frame, did>>
windowVars == <<
  windowPc, hotkey, trayEvents, trayClick, windowVisible, panelOpen,
  everFocused, lastFocusLoss, resetOnShow, nativeResize, since, hidePending,
  windowPage, invoke, windowOs, windowCmd, press, click>>
extentVars == <<
  extentPc, extentVisible, extentPage, keep, shownSize, panelSize,
  settingsSized, resizePending, extentOs, extentCmd, busy>>
hookVars == <<
  session, hookDialog, threadId, captureTx, hit, echo, hookPc, quit, hooks,
  chan>>
resultVars == <<
  resultVisible, client, pageBusy, flight, answer, last, resultDialog,
  asked, requests, clip, update, resultToast>>
settingsVars == <<
  config, tmp, backup, registry, running, settingsSettings, script,
  save_warned, dirty, on_settings, aggregated, settingsToast, sessions,
  settingsChanges, shown, origin>>
materialVars == <<
  backdrop, image, theme, system, supported, dwm, border, active, countdown,
  materialPanel, presented, materialChanges>>
logVars == <<
  slot, lines, handle, foreign, logged, refused, calm>>

guiVars == <<
  part, hotkeyVars, listVars, windowVars, extentVars, hookVars, resultVars,
  settingsVars, materialVars, logVars>>

Idle == "idle"

ListStart ==
  IF part = "list" THEN List!Init
  ELSE /\ list = Idle /\ usage = Idle /\ ready = Idle /\ arrived = Idle
       /\ came = Idle /\ aggregating = Idle /\ menu = Idle /\ frame = Idle
       /\ did = Idle
WindowStart ==
  IF part = "window" THEN Window!Init
  ELSE /\ windowPc = Idle /\ hotkey = Idle /\ trayEvents = Idle
       /\ trayClick = Idle /\ windowVisible = Idle /\ panelOpen = Idle
       /\ everFocused = Idle /\ lastFocusLoss = Idle /\ resetOnShow = Idle
       /\ nativeResize = Idle /\ since = Idle /\ hidePending = Idle
       /\ windowPage = Idle /\ invoke = Idle /\ windowOs = Idle
       /\ windowCmd = Idle /\ press = Idle /\ click = Idle
ExtentStart ==
  IF part = "extent" THEN Extent!Init
  ELSE /\ extentPc = Idle /\ extentVisible = Idle /\ extentPage = Idle
       /\ keep = Idle /\ shownSize = Idle /\ panelSize = Idle
       /\ settingsSized = Idle /\ resizePending = Idle /\ extentOs = Idle
       /\ extentCmd = Idle /\ busy = Idle
HookStart ==
  IF part = "hook" THEN Hook!Init
  ELSE /\ session = Idle /\ hookDialog = Idle /\ threadId = Idle
       /\ captureTx = Idle /\ hit = Idle /\ echo = Idle /\ hookPc = Idle
       /\ quit = Idle /\ hooks = Idle /\ chan = Idle
ResultStart ==
  IF part = "result" THEN Result!Init
  ELSE /\ resultVisible = Idle /\ client = Idle /\ pageBusy = Idle
       /\ flight = Idle /\ answer = Idle /\ last = Idle
       /\ resultDialog = Idle /\ asked = Idle /\ requests = Idle
       /\ clip = Idle /\ update = Idle /\ resultToast = Idle
SettingsStart ==
  IF part = "settings" THEN Settings!Init
  ELSE /\ config = Idle /\ tmp = Idle /\ backup = Idle /\ registry = Idle
       /\ running = Idle /\ settingsSettings = Idle /\ script = Idle
       /\ save_warned = Idle /\ dirty = Idle /\ on_settings = Idle
       /\ aggregated = Idle /\ settingsToast = Idle /\ sessions = Idle
       /\ settingsChanges = Idle /\ shown = Idle /\ origin = Idle
MaterialStart ==
  IF part = "material" THEN Material!Init
  ELSE /\ backdrop = Idle /\ image = Idle /\ theme = Idle /\ system = Idle
       /\ supported = Idle /\ dwm = Idle /\ border = Idle /\ active = Idle
       /\ countdown = Idle /\ materialPanel = Idle /\ presented = Idle
       /\ materialChanges = Idle
LogStart ==
  IF part = "log" THEN Log!Init
  ELSE /\ slot = Idle /\ lines = Idle /\ handle = Idle /\ foreign = Idle
       /\ logged = Idle /\ refused = Idle /\ calm = Idle

GuiInit ==
  /\ part \in {"hotkey", "list", "window", "extent", "hook", "result", "settings", "material", "log"}
  /\ Init /\ ListStart /\ WindowStart /\ ExtentStart /\ HookStart
  /\ ResultStart /\ SettingsStart /\ MaterialStart /\ LogStart
  /\ part = "hotkey" \/ (settings = Default /\ taken = {} /\ ~alive /\ answers # <<>>)

GuiNext ==
  /\ UNCHANGED part
  /\ \/ /\ part = "hotkey" /\ Next
        /\ UNCHANGED <<listVars, windowVars, extentVars, hookVars, resultVars,
          settingsVars, materialVars, logVars>>
     \/ /\ part = "list" /\ List!Next
        /\ UNCHANGED <<hotkeyVars, windowVars, extentVars, hookVars, resultVars,
          settingsVars, materialVars, logVars>>
     \/ /\ part = "window" /\ Window!Next
        /\ UNCHANGED <<hotkeyVars, listVars, extentVars, hookVars, resultVars,
          settingsVars, materialVars, logVars>>
     \/ /\ part = "extent" /\ Extent!Next
        /\ UNCHANGED <<hotkeyVars, listVars, windowVars, hookVars, resultVars,
          settingsVars, materialVars, logVars>>
     \/ /\ part = "hook" /\ Hook!Next
        /\ UNCHANGED <<hotkeyVars, listVars, windowVars, extentVars, resultVars,
          settingsVars, materialVars, logVars>>
     \/ /\ part = "result" /\ Result!Next
        /\ UNCHANGED <<hotkeyVars, listVars, windowVars, extentVars, hookVars,
          settingsVars, materialVars, logVars>>
     \/ /\ part = "settings" /\ Settings!Next
        /\ UNCHANGED <<hotkeyVars, listVars, windowVars, extentVars, hookVars,
          resultVars, materialVars, logVars>>
     \/ /\ part = "material" /\ Material!Next
        /\ UNCHANGED <<hotkeyVars, listVars, windowVars, extentVars, hookVars,
          resultVars, settingsVars, logVars>>
     \/ /\ part = "log" /\ Log!Next
        /\ UNCHANGED <<hotkeyVars, listVars, windowVars, extentVars, hookVars,
          resultVars, settingsVars, materialVars>>

GuiSpec == GuiInit /\ [][GuiNext]_guiVars

\* The variables of the part at work have their types.
GuiTypesOK ==
  CASE part = "hotkey" -> TypeOK
    [] part = "list" -> List!TypeOK
    [] part = "window" -> Window!TypeOK
    [] part = "extent" -> Extent!TypeOK
    [] part = "hook" -> Hook!TypeOK
    [] part = "result" -> Result!TypeOK
    [] part = "settings" -> Settings!TypeOK
    [] part = "material" -> Material!TypeOK
    [] part = "log" -> Log!TypeOK

\* The context menu acts on the row it was opened for, or on one of another
\* extension with the same id (ctx_menu.rs).
MenuActsOnItsRow == part = "list" => List!MenuActsOnItsRow

\* A click on the tray icon of an open panel hides it, and does not open it
\* again within 300 ms (lifecycle.rs).
TrayClickHides == [][part = "window" => Window!HidesOnTrayClick]_<<part, windowVars>>

\* A confirmed dialog runs what asked the question (host_actions.rs).
ConfirmRepeatsWhatAsked == part = "result" => Result!ConfirmRepeatsWhatAsked

\* Saving keeps what this version does not know (settings.rs).
UnknownSurvives == [][part = "settings" => Settings!KeepsUnknown]_<<part, settingsVars>>

\* What the settings page changed takes effect once it is left (mod.rs), and a
\* material that was taken off goes from the window (settings_actions.rs).
SettingsTakeEffect ==
  /\ part = "settings" => Settings!AppliedOnLeaving
  /\ part = "material" => Material!MaterialGoesAway

\* Rotation forgets the oldest lines only, and the newest line can be read
\* after one refused rotation (file_log.rs).
LogIsKept ==
  /\ part = "log" => Log!OnlyTheOldestGoes
  /\ part = "log" => Log!LatestIsKept
=============================================================================
