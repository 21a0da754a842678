---------------------------- MODULE SettingsFlow ----------------------------
(***************************************************************************)
(* The settings from the file to the window and back (settings.rs,         *)
(* settings_actions.rs, the settings page): a file that may be damaged, or *)
(* written by another version; changes that are saved one by one inside a  *)
(* handler; the backup that is exported and imported; one toast.           *)
(***************************************************************************)
EXTENDS Naturals, Sequences

CONSTANTS
    MaxSessions,    \* bound: times the host is started
    MaxChanges      \* bound: handlers in one session

\* What a file may hold, by what the reader tells apart: a preference that this
\* version knows, one it does not, engines of which some are not valid, and
\* fields this version does not know.
Preference == {"default", "other"}
Written == Preference \cup {"odd", "missing"}
SCHEMA_VERSION == 1
Config == [schema : {1, 2}, theme : Written, engines : Written,
           autostart : BOOLEAN, unknown : SUBSET {"newer"}]
NoFile == [schema |-> 0]
Damaged == [schema |-> 3]    \* no JSON, or more than CONFIG_MAX_BYTES

Settings == [theme : Preference, engines : Preference, autostart : BOOLEAN,
             unknown : SUBSET {"newer"}, read_only : BOOLEAN]
Defaults == [theme |-> "default", engines |-> "default", autostart |-> FALSE,
             unknown |-> {}, read_only |-> FALSE]

\* A step of a handler: the settings as they are by then and saved, or a toast.
Saved(settings) == [do |-> "save", settings |-> settings, toast |-> "none"]
Shown(toast) == [do |-> "toast", settings |-> Defaults, toast |-> toast]
Toast == {"none", "save failed", "read only", "imported", "import failed", "reset",
          "exported", "export failed", "autostart failed"}

VARIABLES
    config, tmp,        \* config.json, and whether its .tmp holds the next one
    backup,             \* dd-settings-backup.json
    registry,           \* the Run key of the registry
    running,
    settings,           \* draft.settings
    script,             \* what is left of the handler that runs
    save_warned,        \* draft.settings_save_warned
    dirty,              \* engines_dirty, exts_dirty or lang_dirty
    on_settings,        \* the settings page is on top
    aggregated,         \* engines of the aggregation that was started last
    toast,              \* the one toast
    sessions, changes,
    shown,              \* ghost: toasts a frame of this session has drawn
    origin              \* ghost: what the session's settings go back to

settingsVars == <<config, tmp, backup, registry, running, settings, script, save_warned, dirty,
                  on_settings, aggregated, toast, sessions, changes, shown, origin>>
session == <<settings, script, save_warned, dirty, on_settings, aggregated, toast, shown,
             origin, changes>>

TypeOK ==
    /\ config \in Config \cup {NoFile, Damaged}
    /\ backup \in Config \cup {NoFile, Damaged}
    /\ tmp \in BOOLEAN /\ registry \in BOOLEAN /\ running \in BOOLEAN
    /\ settings \in Settings
    /\ \A i \in DOMAIN script : script[i].settings \in Settings /\ script[i].toast \in Toast
    /\ save_warned \in BOOLEAN /\ dirty \in BOOLEAN /\ on_settings \in BOOLEAN
    /\ aggregated \in Preference
    /\ toast \in Toast /\ shown \subseteq Toast /\ origin \in {"file", "default", "backup"}
    /\ sessions \in 0 .. MaxSessions /\ changes \in 0 .. MaxChanges
    /\ tmp => running /\ script # <<>>

Init ==
    /\ config \in {NoFile, Damaged} \cup Config
    /\ backup = NoFile /\ tmp = FALSE /\ registry = FALSE
    /\ running = FALSE /\ settings = Defaults /\ script = <<>> /\ save_warned = FALSE
    /\ dirty = FALSE /\ on_settings = FALSE /\ aggregated = "default" /\ toast = "none"
    /\ sessions = 0 /\ changes = 0 /\ shown = {} /\ origin = "default"

-----------------------------------------------------------------------------
(* The file's format.                                                      *)

\* The parse of each preference: a value this version does not know is as good
\* as none.
ReadPreference(value) == IF value \in Preference THEN value ELSE "default"

\* The engines: each is validated, and the ones that are not valid skipped.
ReadEngines(value) ==
    CASE value = "missing" -> "default"
      [] value = "odd" -> "other"
      [] OTHER -> value

ParseJson(file) ==
    IF file = Damaged THEN Defaults
    ELSE [theme |-> ReadPreference(file.theme),
          engines |-> ReadEngines(file.engines),
          autostart |-> file.autostart,
          unknown |-> file.unknown,
          read_only |-> file.schema > SCHEMA_VERSION]

\* mutant: only the fields this version knows are written
ToJsonKnown(s) ==
    [schema |-> SCHEMA_VERSION, theme |-> s.theme, engines |-> s.engines,
     autostart |-> s.autostart, unknown |-> {}]

ToJson(s) ==
    [schema |-> SCHEMA_VERSION, theme |-> s.theme, engines |-> s.engines,
     autostart |-> s.autostart, unknown |-> s.unknown]

\* load_from: what cannot be read is as good as missing.
Load(readable) == IF config = NoFile \/ ~readable THEN Defaults ELSE ParseJson(config)

\* export_backup leaves out what belongs to the machine.
ExportBackup(s) == [ToJson(s) EXCEPT !.autostart = FALSE]

\* import_backup keeps it: the rest is the backup's.
ImportBackup(file, current) == [ParseJson(file) EXCEPT !.autostart = current.autostart]

-----------------------------------------------------------------------------
(* The session.                                                            *)

Start(readable) ==
    /\ ~running /\ sessions < MaxSessions
    /\ sessions' = sessions + 1
    /\ running' = TRUE
    /\ settings' = Load(readable)
    /\ aggregated' = settings'.engines
    /\ origin' = IF readable /\ config \notin {NoFile, Damaged} THEN "file" ELSE "default"
    /\ script' = <<>> /\ save_warned' = FALSE /\ dirty' = FALSE /\ on_settings' = FALSE
    /\ toast' = "none" /\ shown' = {} /\ changes' = 0
    /\ UNCHANGED <<config, tmp, backup, registry>>

\* The process ends between any two steps, one of them the write of the .tmp.
Crash ==
    /\ running
    /\ running' = FALSE /\ tmp' = FALSE /\ script' = <<>>
    /\ UNCHANGED <<config, backup, registry, settings, save_warned, dirty, on_settings,
                   aggregated, toast, sessions, changes, shown, origin>>

\* While it is down, another version of the host writes the file, or the user does.
OthersWrite(file) ==
    /\ ~running
    /\ config' = file
    /\ UNCHANGED <<tmp, backup, registry, running, sessions>> /\ UNCHANGED session

Step == script[1]
StepDone == script' = Tail(script)

\* save_settings_with_feedback, when the file is of a newer schema
SaveRefused ==
    /\ script # <<>> /\ Step.do = "save" /\ Step.settings.read_only
    /\ settings' = Step.settings
    /\ toast' = "read only"
    /\ StepDone
    /\ UNCHANGED <<config, tmp, backup, registry, running, save_warned, dirty, on_settings,
                   aggregated, sessions, changes, shown, origin>>

\* atomic_write, first half: all of it into the .tmp
SaveWritesTmp ==
    /\ script # <<>> /\ Step.do = "save" /\ ~Step.settings.read_only /\ ~tmp
    /\ settings' = Step.settings
    /\ tmp' = TRUE
    /\ UNCHANGED <<config, backup, registry, running, script, save_warned, dirty, on_settings,
                   aggregated, toast, sessions, changes, shown, origin>>

SaveRenames ==
    /\ tmp
    /\ tmp' = FALSE
    /\ config' = ToJson(Step.settings)
    /\ StepDone
    /\ UNCHANGED <<backup, registry, running, settings, save_warned, dirty, on_settings,
                   aggregated, toast, sessions, changes, shown, origin>>

\* Either half fails; report_settings_save_failure tells the user once a session.
SaveFails ==
    /\ script # <<>> /\ Step.do = "save" /\ ~Step.settings.read_only
    /\ settings' = Step.settings
    /\ tmp' = FALSE
    /\ save_warned' = TRUE
    /\ toast' = IF save_warned THEN toast ELSE "save failed"
    /\ StepDone
    /\ UNCHANGED <<config, backup, registry, running, dirty, on_settings, aggregated,
                   sessions, changes, shown, origin>>

\* show_toast: the one slot is overwritten
ShowToast ==
    /\ script # <<>> /\ Step.do = "toast"
    /\ toast' = Step.toast
    /\ StepDone
    /\ UNCHANGED <<config, tmp, backup, registry, running, settings, save_warned, dirty,
                   on_settings, aggregated, sessions, changes, shown, origin>>

-----------------------------------------------------------------------------
(* The handlers, one at a time on the thread of the window.                *)

Handle(steps) ==
    /\ running /\ script = <<>> /\ changes < MaxChanges
    /\ changes' = changes + 1
    /\ script' = steps
    /\ UNCHANGED <<config, tmp, running, save_warned, on_settings, aggregated, toast,
                   sessions, shown>>

\* A preference that is in force at once: nothing happens where it is the same.
ApplyPreference(value) ==
    /\ on_settings /\ settings.theme # value
    /\ Handle(<<Saved([settings EXCEPT !.theme = value])>>)
    /\ UNCHANGED <<backup, registry, settings, dirty, origin>>

\* One that the extensions see: engines, language, the ones that are disabled,
\* own commands, the settings of an extension.
ApplyAggregated(value) ==
    /\ on_settings /\ settings.engines # value
    /\ Handle(<<Saved([settings EXCEPT !.engines = value])>>)
    /\ dirty' = TRUE
    /\ UNCHANGED <<backup, registry, settings, origin>>

\* The registry first, and the setting only if that went well.
ApplyAutostart(ok) ==
    /\ on_settings
    /\ LET on == ~settings.autostart IN
         /\ Handle(IF ok THEN <<Saved([settings EXCEPT !.autostart = on])>>
                         ELSE <<Shown("autostart failed")>>)
         /\ registry' = IF ok THEN on ELSE registry
    /\ UNCHANGED <<backup, settings, dirty, origin>>

\* Each preference that is not the default is saved, then all, then the toast.
ApplyResetAppearance ==
    /\ on_settings
    /\ LET d == [settings EXCEPT !.theme = "default"] IN
         Handle((IF settings.theme # "default" THEN <<Saved(d)>> ELSE <<>>)
                \o <<Saved(d), Shown("reset")>>)
    /\ UNCHANGED <<backup, registry, settings, dirty, origin>>

ExportSettingsBackup(ok) ==
    /\ on_settings
    /\ Handle(<<Shown(IF ok THEN "exported" ELSE "export failed")>>)
    /\ backup' = IF ok THEN ExportBackup(settings) ELSE backup
    /\ UNCHANGED <<registry, settings, dirty, origin>>

\* The user copies a backup of another machine, or of another version, over it.
CopyBackup(file) ==
    /\ backup' = file
    /\ UNCHANGED <<config, tmp, registry, running, sessions>> /\ UNCHANGED session

\* mutant: what the extensions see is taken over and not marked
ImportUnmarked ==
    /\ on_settings
    /\ IF backup \in {NoFile, Damaged}
       THEN Handle(<<Shown("import failed")>>) /\ UNCHANGED <<dirty, origin>>
       ELSE LET imported == ImportBackup(backup, settings)
                themed == [settings EXCEPT !.theme = imported.theme]
            IN /\ Handle((IF settings.theme # imported.theme THEN <<Saved(themed)>> ELSE <<>>)
                         \o <<Saved(imported), Shown("imported")>>)
               /\ origin' = "backup" /\ UNCHANGED dirty
    /\ UNCHANGED <<backup, registry, settings>>

\* The preferences that act at once go through their own handlers, which save
\* the rest as it was; then the settings are the backup's, all of them.
ImportSettingsBackup ==
    /\ on_settings
    /\ IF backup \in {NoFile, Damaged}
       THEN Handle(<<Shown("import failed")>>) /\ UNCHANGED <<dirty, origin>>
       ELSE LET imported == ImportBackup(backup, settings)
                themed == [settings EXCEPT !.theme = imported.theme]
            IN /\ Handle((IF settings.theme # imported.theme THEN <<Saved(themed)>> ELSE <<>>)
                         \o <<Saved(imported), Shown("imported")>>)
               /\ dirty' = TRUE /\ origin' = "backup"
    /\ UNCHANGED <<backup, registry, settings>>

TurnPage ==
    /\ running /\ script = <<>> /\ changes < MaxChanges
    /\ on_settings' = ~on_settings
    /\ changes' = changes + 1
    /\ UNCHANGED <<config, tmp, backup, registry, running, settings, script, save_warned, dirty,
                   aggregated, toast, sessions, shown, origin>>

\* A frame: off the settings page the marks are consumed, and all is aggregated
\* anew; the toast is drawn.
Frame ==
    /\ running /\ script = <<>>
    /\ IF dirty /\ ~on_settings
       THEN dirty' = FALSE /\ aggregated' = settings.engines
       ELSE UNCHANGED <<dirty, aggregated>>
    /\ shown' = shown \cup ({toast} \ {"none"})
    /\ toast' = "none"
    /\ UNCHANGED <<config, tmp, backup, registry, running, settings, script, save_warned,
                   on_settings, sessions, changes, origin>>

Next ==
    \/ \E readable \in BOOLEAN : Start(readable)
    \/ Crash
    \/ \E file \in {Damaged, [schema |-> 2, theme |-> "odd", engines |-> "odd",
                              autostart |-> FALSE, unknown |-> {"newer"}]} : OthersWrite(file)
    \/ SaveRefused \/ SaveWritesTmp \/ SaveRenames \/ SaveFails \/ ShowToast
    \/ \E value \in Preference : ApplyPreference(value)
    \/ \E value \in Preference : ApplyAggregated(value)
    \/ \E ok \in BOOLEAN : ApplyAutostart(ok)
    \/ ApplyResetAppearance
    \/ \E ok \in BOOLEAN : ExportSettingsBackup(ok)
    \/ \E schema \in {1, 2} : CopyBackup([schema |-> schema, theme |-> "other", engines |-> "other",
                                          autostart |-> FALSE, unknown |-> {}])
    \/ ImportSettingsBackup
    \/ TurnPage
    \/ Frame

Spec == Init /\ [][Next]_settingsVars

-----------------------------------------------------------------------------
\* The fields of the file this version does not know outlive any number of its
\* saves, its crashes and its failures to write, as long as the session has
\* read the file and imports nothing over it.
KeepsUnknown ==
    running /\ origin = "file" /\ config \in Config
      => config' \in Config /\ config.unknown \subseteq config'.unknown
UnknownSurvives == [][KeepsUnknown]_settingsVars

\* Off the settings page, and with no mark left, the extensions were aggregated
\* with the settings as they are: however the settings were changed meanwhile,
\* saved or not, and however often the page was left and entered.
AppliedOnLeaving ==
    running /\ script = <<>> /\ ~dirty => aggregated = settings.engines

\* "A config of a newer schema makes the session read-only, and every save is
\* refused, so that an older version does not wipe its new fields"
\* (save_settings_with_feedback in app/mod.rs): a file of a newer schema is not
\* written over.
NewerConfigIsKept ==
    [][running /\ origin # "default" /\ config \in Config /\ config.schema > SCHEMA_VERSION
       => UNCHANGED config]_settingsVars

\* "A save that fails shows an error toast at most once a session, exactly
\* once" (R-17 at save_settings_with_feedback): what the session has warned of
\* is on its way to a frame, or has been drawn by one.
SaveFailureIsSeen ==
    running /\ script = <<>> /\ save_warned => "save failed" \in shown \cup {toast}
=============================================================================
