----------------------------- MODULE SearchLink -----------------------------
(***************************************************************************)
(* How the file search extension reaches the indexer (crates/dd-ext/src/   *)
(* bin/search.rs: everything_available, ipc, search, run_es): a client     *)
(* that is kept from search to search, and a command line tool for when    *)
(* it fails.                                                               *)
(***************************************************************************)
EXTENDS Naturals

CONSTANTS
    RebuildAfter    \* REBUILD_AFTER_FAILS

VARIABLES
    everything,     \* the indexer, outside: it runs
    avail,          \* AVAIL within its 3 s: what the last probe said
    client,         \* CLIENT: none, of the running indexer, of one that is gone
    fails,          \* FAILS
    answered,       \* what the last request was answered with
    lame            \* history: searches in a row a running indexer never saw

linkVars == <<everything, avail, client, fails, answered, lame>>

TypeOK ==
    /\ everything \in BOOLEAN
    /\ avail \in {"unknown", "yes", "no"}
    /\ client \in {"none", "live", "gone"} /\ fails \in 0 .. RebuildAfter - 1
    /\ answered \in {"nothing yet", "hint", "guide", "results", "error"}
    /\ lame \in Nat

Init ==
    /\ everything \in BOOLEAN
    /\ avail = "unknown" /\ client = "none" /\ fails = 0
    /\ answered = "nothing yet" /\ lame = 0

\* reset_client after RebuildAfter failures in a row.
IpcFails(kept) ==
    IF fails + 1 = RebuildAfter THEN client' = "none" /\ fails' = 0
                                ELSE client' = kept /\ fails' = fails + 1

\* ipc::search: the client is made when there is none, and kept.  A running
\* indexer may be too slow for the 1.2 s.
ByIpc(ok) ==
    CASE client = "gone" -> ~ok /\ IpcFails("gone")
      [] ~everything /\ client = "none" -> ~ok /\ UNCHANGED <<client, fails>>
      [] OTHER -> \/ ok /\ client' = "live" /\ fails' = 0
                  \/ ~ok /\ IpcFails("live")

\* search_via_es and run_es: the command line tool may be missing, fail or be
\* too slow, and is of no use without the indexer.
ByTool(ok) == ok => everything

\* search: the tool only when the client failed.
Search(ok) ==
    \E ipc \in BOOLEAN :
        /\ ByIpc(ipc)
        /\ IF ipc THEN ok ELSE ByTool(ok)
        /\ lame' = IF ipc \/ ~everything THEN 0
                   ELSE IF client = "gone" THEN lame + 1 ELSE lame

\* everything_available: what a probe said lasts 3 s.
Available ==
    avail' = IF avail # "unknown" THEN avail ELSE IF everything THEN "yes" ELSE "no"

\* get_file_items: no text, no indexer, and a failed search have their advice.
GetItems ==
    /\ Available
    /\ \/ /\ answered' = "hint"
          /\ UNCHANGED <<client, fails, lame>>
       \/ /\ avail' = "no" /\ answered' = "guide"
          /\ UNCHANGED <<client, fails, lame>>
       \/ /\ avail' = "yes"
          /\ \E ok \in BOOLEAN : Search(ok) /\ answered' = IF ok THEN "results" ELSE "error"
    /\ UNCHANGED everything

AvailExpires ==
    /\ avail # "unknown" /\ avail' = "unknown"
    /\ UNCHANGED <<everything, client, fails, answered, lame>>

EverythingStarts ==
    /\ ~everything /\ everything' = TRUE /\ lame' = 0
    /\ UNCHANGED <<avail, client, fails, answered>>

EverythingStops ==
    /\ everything /\ everything' = FALSE /\ lame' = 0
    /\ client' = IF client = "live" THEN "gone" ELSE client
    /\ UNCHANGED <<avail, fails, answered>>

Next == GetItems \/ AvailExpires \/ EverythingStarts \/ EverythingStops

Spec == Init /\ [][Next]_linkVars

-----------------------------------------------------------------------------
\* When the indexer was restarted, the client of the old one is given up after
\* RebuildAfter searches, however failures and successes were mixed before.
ClientIsRebuilt == lame <= RebuildAfter
=============================================================================
