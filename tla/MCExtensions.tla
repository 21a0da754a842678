------------ MODULE MCExtensions ------------
(* The extensions the program ships, and the tool that checks one, part by *)
(* part, for TLC. The parts share no variable in the code; each behaviour  *)
(* is one part's.                                                          *)
EXTENDS ShellRun

CONSTANTS
  Profile, Url, Caller, MaxEntries, MarkedLongest, Writes, g, x, y, z,
  google, engine, Name, Word, Slug, BuiltIn, Env, Unsound, NameLongest,
  Installed, Shortcuts, MaxApps, Token, MaxDepth, SumLongest, RebuildAfter,
  File, OwnIcon, Unc, Escaped, Twin, exe, txt, Limit, Cap, Threads, MaxId,
  Ext, BuiltinIds, Id, Capability, Known, RecordCap, MaxBurst, MaxItems

\* Two names of one slug, and one whose slug is the numbered second.
MCName == {g, x, y, z}
MCWord == {google, engine}
MCSlug == [n \in MCName |-> IF n = g THEN <<google>>
                            ELSE IF n = z THEN <<engine, 2>> ELSE <<engine>>]
MCBuiltIn == <<g>>
MCEnv == {[kind |-> "nothing", list |-> <<>>], [kind |-> "broken", list |-> <<>>],
          [kind |-> "array", list |-> <<x>>]}
\* Titles with a number twice, programs with a target twice, and junk.
Link(title, kind, target, flaws) ==
  [title |-> title, kind |-> kind, target |-> target, flaws |-> flaws]
MCInstalled == {[title |-> 2, flaws |-> {}], [title |-> 4, flaws |-> {"uninstaller"}]}
MCShortcuts ==
  {Link(1, "lnk", "one", {}), Link(2, "lnk", "one", {}), Link(3, "lnk", "one", {}),
   Link(3, "lnk", "two", {}), Link(1, "lnk", "tool", {"tool_exe"}),
   Link(4, "url", "game", {})}
MCTwin == {<<txt, exe>>}

VARIABLES
  part,  \* the part this behaviour is about, the same throughout
  disk, clock, bookmarksIndex, caller, bookmarksListed, opened,
  configured, env, webShown, went,
  at, left, apps, seen, seenExe, blocked, appsListed, appsRan,
  input, calcAnswer,
  everything, avail, client, fails, answered, lame,
  next, sidecarIndex, cache, waiting, busy, inflight, window, notified,
  sidecarAnswer, sidecarShown,
  tool, invoking, step, backend, promised, templates, commands, reheats,
  listings, checkRan, used, record, missed, failures

Bookmarks == INSTANCE Bookmarks WITH
  index <- bookmarksIndex, listed <- bookmarksListed, File <- Profile,
  Longest <- MarkedLongest
Web == INSTANCE WebSearch WITH
  shown <- webShown, Longest <- NameLongest
Apps == INSTANCE AppCatalog WITH
  listed <- appsListed, ran <- appsRan
Calc == INSTANCE Calc WITH
  answer <- calcAnswer, Longest <- SumLongest
Ipc == INSTANCE SearchLink
Sidecar == INSTANCE SearchSidecar WITH
  index <- sidecarIndex, answer <- sidecarAnswer, shown <- sidecarShown
Check == INSTANCE Conformance WITH
  ran <- checkRan, Cap <- Capability

commandVars == <<
  phase, query, confirmed, child, heir, pipe, written, reader, got, polls,
  answer>>
bookmarksVars == <<
  disk, clock, bookmarksIndex, caller, bookmarksListed, opened>>
webVars == <<
  configured, env, webShown, went>>
appsVars == <<
  at, left, apps, seen, seenExe, blocked, appsListed, appsRan>>
calcVars == <<
  input, calcAnswer>>
ipcVars == <<
  everything, avail, client, fails, answered, lame>>
sidecarVars == <<
  next, sidecarIndex, cache, waiting, busy, inflight, window, notified,
  sidecarAnswer, sidecarShown>>
checkVars == <<
  tool, invoking, step, backend, promised, templates, commands, reheats,
  listings, checkRan, used, record, missed, failures>>

\* What the code fixes of its limits; slugify makes a list of words and
\* numbers of a name, to which dedupe_suffixes adds a number.
ASSUME ExtensionsAssumption ==
  /\ Slug \in [Name -> Seq(Word \cup Nat)]
  /\ BuiltIn \in Seq(Name) /\ \A e \in Env : e.list \in Seq(Name)
  /\ RebuildAfter \in Nat \ {0}
  /\ Limit \in Nat /\ Cap \in Nat \ {0} /\ Limit <= Cap /\ MaxId \in Nat
  /\ Deadline \in Nat /\ PipeSize \in Nat /\ MaxOutput \in Nat
  /\ IsFiniteSet(Profile) /\ Writes \in Nat /\ MaxEntries \in Nat
  /\ MaxApps \in Nat /\ Threads \in Nat /\ MaxItems \in Nat /\ SumLongest \in Nat
  /\ RecordCap \in Nat /\ MaxBurst \in Nat

Idle == "idle"

BookmarksStart ==
  IF part = "bookmarks" THEN Bookmarks!Init
  ELSE /\ disk = Idle /\ clock = Idle /\ bookmarksIndex = Idle
       /\ caller = Idle /\ bookmarksListed = Idle /\ opened = Idle
WebStart ==
  IF part = "web" THEN Web!Init
  ELSE /\ configured = Idle /\ env = Idle /\ webShown = Idle /\ went = Idle
AppsStart ==
  IF part = "apps" THEN Apps!Init
  ELSE /\ at = Idle /\ left = Idle /\ apps = Idle /\ seen = Idle
       /\ seenExe = Idle /\ blocked = Idle /\ appsListed = Idle
       /\ appsRan = Idle
CalcStart ==
  IF part = "calc" THEN Calc!Init
  ELSE /\ input = Idle /\ calcAnswer = Idle
IpcStart ==
  IF part = "ipc" THEN Ipc!Init
  ELSE /\ everything = Idle /\ avail = Idle /\ client = Idle /\ fails = Idle
       /\ answered = Idle /\ lame = Idle
SidecarStart ==
  IF part = "sidecar" THEN Sidecar!Init
  ELSE /\ next = Idle /\ sidecarIndex = Idle /\ cache = Idle
       /\ waiting = Idle /\ busy = Idle /\ inflight = Idle /\ window = Idle
       /\ notified = Idle /\ sidecarAnswer = Idle /\ sidecarShown = Idle
CheckStart ==
  IF part = "check" THEN Check!Init
  ELSE /\ tool = Idle /\ invoking = Idle /\ step = Idle /\ backend = Idle
       /\ promised = Idle /\ templates = Idle /\ commands = Idle
       /\ reheats = Idle /\ listings = Idle /\ checkRan = Idle
       /\ used = Idle /\ record = Idle /\ missed = Idle /\ failures = Idle

ExtensionsInit ==
  /\ part \in {"command", "bookmarks", "web", "apps", "calc", "ipc", "sidecar", "check"}
  /\ Init /\ BookmarksStart /\ WebStart /\ AppsStart /\ CalcStart
  /\ IpcStart /\ SidecarStart /\ CheckStart

ExtensionsNext ==
  /\ UNCHANGED part
  /\ \/ /\ part = "command" /\ Next
        /\ UNCHANGED <<bookmarksVars, webVars, appsVars, calcVars, ipcVars, sidecarVars,
          checkVars>>
     \/ /\ part = "bookmarks" /\ Bookmarks!Next
        /\ UNCHANGED <<commandVars, webVars, appsVars, calcVars, ipcVars, sidecarVars,
          checkVars>>
     \/ /\ part = "web" /\ Web!Next
        /\ UNCHANGED <<commandVars, bookmarksVars, appsVars, calcVars, ipcVars,
          sidecarVars, checkVars>>
     \/ /\ part = "apps" /\ Apps!Next
        /\ UNCHANGED <<commandVars, bookmarksVars, webVars, calcVars, ipcVars,
          sidecarVars, checkVars>>
     \/ /\ part = "calc" /\ Calc!Next
        /\ UNCHANGED <<commandVars, bookmarksVars, webVars, appsVars, ipcVars,
          sidecarVars, checkVars>>
     \/ /\ part = "ipc" /\ Ipc!Next
        /\ UNCHANGED <<commandVars, bookmarksVars, webVars, appsVars, calcVars,
          sidecarVars, checkVars>>
     \/ /\ part = "sidecar" /\ Sidecar!Next
        /\ UNCHANGED <<commandVars, bookmarksVars, webVars, appsVars, calcVars, ipcVars,
          checkVars>>
     \/ /\ part = "check" /\ Check!Next
        /\ UNCHANGED <<commandVars, bookmarksVars, webVars, appsVars, calcVars, ipcVars,
          sidecarVars>>

extensionsVars == <<part, commandVars, bookmarksVars, webVars, appsVars, calcVars, ipcVars,
                    sidecarVars, checkVars>>

ExtensionsSpec == ExtensionsInit /\ [][ExtensionsNext]_extensionsVars

\* The variables of the part at work have their types.
ExtensionTypesOK ==
  CASE part = "command" -> TypeOK
    [] part = "bookmarks" -> Bookmarks!TypeOK
    [] part = "web" -> Web!TypeOK
    [] part = "apps" -> Apps!TypeOK
    [] part = "calc" -> Calc!TypeOK
    [] part = "ipc" -> Ipc!TypeOK
    [] part = "sidecar" -> Sidecar!TypeOK
    [] part = "check" -> Check!TypeOK

\* What a caller lists is no older than the files it looked at
\* (bookmarks.rs, snapshot).
FreshIsCurrent == part = "bookmarks" => Bookmarks!FreshIsCurrent

\* Two engines never share an id, so that an id finds the engine it was
\* given to (websearch.rs, dedupe_suffixes).
IdsFindTheirEngine == part = "web" => Web!IdsFindTheirEngine

\* A program is launched under the title the list showed (apps.rs).
LaunchesWhatItShows == part = "apps" => Apps!LaunchesWhatItShows

\* The value of an expression is that of the grammar (calc.rs).
MeansWhatItSays == part = "calc" => Calc!MeansWhatItSays

\* An item on the screen opens the file it was made for (search.rs).
ItemsKeepTheirFile == part = "sidecar" => Sidecar!ItemsKeepTheirFile

\* The file search recovers: the client of an indexer that was restarted is
\* given up, and no icon is marked in flight that no worker will bring
\* (search.rs).
SearchRecovers ==
  /\ part = "ipc" => Ipc!ClientIsRebuilt
  /\ part = "sidecar" => Sidecar!NoIconStuck

\* A green check was earned by every answer of the extension, as far as the
\* check looks at it (main.rs).
GreenIsEarned == part = "check" => Check!GreenIsEarned
=============================================================================
