----------------------------- MODULE AppCatalog -----------------------------
(***************************************************************************)
(* The apps extension on Windows (crates/dd-ext/src/builtins/apps.rs): one *)
(* enumeration per process, of the applications the shell knows and of the *)
(* shortcuts of the start menu, kept for good; the user's block list is    *)
(* applied to what is listed, not to what is kept.                         *)
(***************************************************************************)
EXTENDS Naturals, Sequences, SequencesExt

CONSTANTS
    Installed,      \* the items of AppsFolder: [title, flaws]
    Shortcuts,      \* the shortcuts of the start menu: [title, kind, target, flaws]
    MaxApps         \* MAX_APPS

\* Titles are numbers, so that sort_by_key can order them.
Title == {a.title : a \in Installed \cup Shortcuts}
App == [title : Title, target : {a.target : a \in Shortcuts} \cup {"aumid"}]

VARIABLES
    at,             \* where get_or_init is: no list yet, enumerating, kept
    left,           \* the items still to be looked at
    apps,           \* what was collected, then the kept list
    seen, seenExe,  \* the names and targets used up
    blocked,        \* CONFIGURED_BLOCKLIST, as the titles it hits
    listed,         \* what the host shows: positions and titles
    ran             \* the last invoke: the title shown and what was launched

appVars == <<at, left, apps, seen, seenExe, blocked, listed, ran>>

TypeOK ==
    /\ at \in {"unset", "folder", "menu", "kept"}
    /\ left \subseteq Installed \cup Shortcuts
    /\ apps \in Seq(App) /\ Len(apps) <= MaxApps
    /\ seen \subseteq Title
    /\ seenExe \subseteq {a.target : a \in Shortcuts}
    /\ blocked \subseteq Title
    /\ \A e \in listed : e.at \in 1..MaxApps /\ e.title \in Title
    /\ ran.shown \in Title \cup {0}

\* What may be wrong with an item, by the code that looks.
FolderFlaw == {"path", "generated", "uninstaller"}
LinkFlaw == {"no_target", "not_exe", "tool_exe", "tool_title"}
UrlFlaw == {"unreadable", "protocol", "not_installed"}

Init ==
    /\ at = "unset"
    /\ left = {} /\ apps = <<>> /\ seen = {} /\ seenExe = {}
    /\ blocked = {} /\ listed = {}
    /\ ran = [shown |-> 0, launched |-> 0]

-----------------------------------------------------------------------------
\* appsfolder_title_allowed and the tests around it.
FolderAllows(a) == a.flaws \cap FolderFlaw = {}

\* lnk_target, is_exe, is_junk_exe, is_junk_title.
LinkAllows(a) == a.flaws \cap LinkFlaw = {}

\* url_target, url_protocol_allowed, is_steam_app_installed.
UrlAllows(a) == a.flaws \cap UrlFlaw = {}

\* app_list: the first call enumerates, and those that come meanwhile wait.
\* AppsFolder may fail as a whole, and then only the start menu is read.
Enumerate ==
    /\ at = "unset"
    /\ \/ at' = "folder" /\ left' = Installed
       \/ at' = "menu" /\ left' = Shortcuts
    /\ UNCHANGED <<apps, seen, seenExe, blocked, listed, ran>>

\* collect_apps_folder: documents, generated entries and the names of
\* uninstallers are passed over, and so is a name seen before.
FolderItem(a) ==
    /\ at = "folder" /\ a \in left
    /\ left' = left \ {a}
    /\ IF FolderAllows(a) /\ a.title \notin seen /\ Len(apps) < MaxApps
       THEN /\ apps' = Append(apps, [title |-> a.title, target |-> "aumid"])
            /\ seen' = seen \cup {a.title}
       ELSE UNCHANGED <<apps, seen>>
    /\ UNCHANGED <<at, seenExe, blocked, listed, ran>>

FolderDone ==
    /\ at = "folder" /\ left = {}
    /\ at' = "menu" /\ left' = Shortcuts
    /\ UNCHANGED <<apps, seen, seenExe, blocked, listed, ran>>

\* collect_lnk_fallback_from_root, a .lnk: its name is used up before its
\* target is compared.
LinkItem(a) ==
    /\ at = "menu" /\ a \in left /\ a.kind = "lnk" /\ Len(apps) < MaxApps
    /\ left' = left \ {a}
    /\ IF LinkAllows(a) /\ a.title \notin seen
       THEN /\ seen' = seen \cup {a.title}
            /\ IF a.target \notin seenExe
               THEN /\ seenExe' = seenExe \cup {a.target}
                    /\ apps' = Append(apps, [title |-> a.title, target |-> a.target])
               ELSE UNCHANGED <<apps, seenExe>>
       ELSE UNCHANGED <<apps, seen, seenExe>>
    /\ UNCHANGED <<at, blocked, listed, ran>>

\* A .url: allowed protocols only, and games that are installed; its target
\* is not compared with others.
UrlItem(a) ==
    /\ at = "menu" /\ a \in left /\ a.kind = "url" /\ Len(apps) < MaxApps
    /\ left' = left \ {a}
    /\ IF UrlAllows(a) /\ a.title \notin seen
       THEN /\ seen' = seen \cup {a.title}
            /\ apps' = Append(apps, [title |-> a.title, target |-> a.target])
       ELSE UNCHANGED <<apps, seen>>
    /\ UNCHANGED <<at, seenExe, blocked, listed, ran>>

\* The end of enumerate_apps: the list sorted by title is kept.
Keep ==
    /\ at = "menu" /\ (left = {} \/ Len(apps) >= MaxApps)
    /\ at' = "kept"
    /\ \E order \in [DOMAIN apps -> DOMAIN apps] :
           /\ IsInjective(order)
           /\ \A i, j \in DOMAIN apps :
                  i < j => apps[order[i]].title <= apps[order[j]].title
           /\ apps' = [i \in DOMAIN apps |-> apps[order[i]]]
    /\ left' = {}
    /\ UNCHANGED <<seen, seenExe, blocked, listed, ran>>

\* negative_cached: a panic of the enumeration keeps an empty list.
Panic ==
    /\ at \in {"folder", "menu"}
    /\ at' = "kept" /\ apps' = <<>> /\ left' = {}
    /\ UNCHANGED <<seen, seenExe, blocked, listed, ran>>

\* set_configured_blocklist, on the way into a round of aggregation.
Inject ==
    /\ \E b \in SUBSET Title : b # blocked /\ blocked' = b
    /\ UNCHANGED <<at, left, apps, seen, seenExe, listed, ran>>

\* A mutant: the entries that are left are numbered anew.
NumberedAnew ==
    LET shown == SelectSeq(apps, LAMBDA a : a.title \notin blocked)
    IN {[at |-> i, title |-> shown[i].title] : i \in DOMAIN shown}

\* top_level_from: blocked titles are passed over, positions stay.
Numbered == {[at |-> i, title |-> apps[i].title] :
                i \in {j \in DOMAIN apps : apps[j].title \notin blocked}}

TopLevel ==
    /\ at = "kept"
    /\ listed' = Numbered
    /\ UNCHANGED <<at, left, apps, seen, seenExe, blocked, ran>>

\* handle_invoke: by position in the kept list; 0 stands for the message
\* that there is no such application.
Invoke(e) ==
    /\ e \in listed
    /\ ran' = [shown |-> e.title,
               launched |-> IF e.at \in DOMAIN apps THEN apps[e.at].title ELSE 0]
    /\ UNCHANGED <<at, left, apps, seen, seenExe, blocked, listed>>

Next ==
    \/ Enumerate
    \/ \E a \in Installed : FolderItem(a)
    \/ FolderDone
    \/ \E a \in Shortcuts : LinkItem(a) \/ UrlItem(a)
    \/ Keep
    \/ Panic
    \/ Inject
    \/ TopLevel
    \/ \E e \in listed : Invoke(e)

Spec == Init /\ [][Next]_appVars

-----------------------------------------------------------------------------
(* An entry launches the application it shows, however often the block     *)
(* list changed between the listing and the choice.                        *)
LaunchesWhatItShows == ran.launched = ran.shown

(* The start menu adds what the shell's applications lack ("按显示名去重，仅   *)
(* 补 AppsFolder 缺席项"): a shortcut that was passed over has its name or *)
(* its target in the list.                                                 *)
ShortcutsAreFound ==
    at = "kept" /\ apps # <<>> /\ Len(apps) < MaxApps =>
        \A s \in Shortcuts : s.flaws = {} =>
            \E i \in DOMAIN apps : apps[i].title = s.title \/ apps[i].target = s.target
=============================================================================
