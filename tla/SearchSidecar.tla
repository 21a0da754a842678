--------------------------- MODULE SearchSidecar ---------------------------
(***************************************************************************)
(* The file search extension (crates/dd-ext/src/bin/search.rs, with        *)
(* shell_icon.rs, and platform/paths.rs of the host, which opens what was  *)
(* chosen).  A single loop answers requests; up to four threads fetch      *)
(* icons behind it.  Items carry a number under which the process          *)
(* remembers their path.                                                   *)
(***************************************************************************)
EXTENDS Naturals, Sequences, FiniteSets, SequencesExt

CONSTANTS
    File,           \* files the indexer may find
    OwnIcon,        \* programs and links, whose icon is their own
    Unc,            \* files on a network share
    Escaped,        \* files whose name percent_encode_path changes
    Twin,           \* pairs <<f, g>>: the name of g is the encoded name of f
    Limit,          \* RESULT_LIMIT
    Cap,            \* PATH_INDEX_CAP
    Threads,        \* ICON_WORKER_THREADS
    MaxId           \* bound: items numbered in the life of one process

\* icon_cache_key_for: an own icon has a key of its own, others go by type.
KeyOf(f) == IF f \in OwnIcon THEN f ELSE "type"
Key == {KeyOf(f) : f \in File}

\* An item in an answer or on the page; alive until its process ends.
Item == [id : 1 .. MaxId, file : File, icon : {"icon", "glyph"}, alive : BOOLEAN]
Nothing == [verb |-> "none"]
NoAnswer == <<Nothing>>

VARIABLES
    next, index,    \* PATH_NEXT, PATH_INDEX
    cache,          \* ICON_CACHE
    waiting, busy,  \* ICON_JOBS, and what the threads are at
    inflight,       \* ICON_INFLIGHT
    window,         \* ICON_LAST_NOTIFY: never, within the 200 ms, or before
    notified,       \* items_changed was sent and the host has not asked since
    answer,         \* the response on its way to the host
    shown           \* the list on the page

indexVars == <<next, index>>
iconVars == <<cache, waiting, busy, inflight, window, notified>>
pageVars == <<answer, shown>>
searchVars == <<indexVars, iconVars, pageVars>>

TypeOK ==
    /\ next \in 1 .. MaxId + 1
    /\ DOMAIN index \subseteq 1 .. next - 1 /\ Cardinality(DOMAIN index) <= Cap
    /\ \A i \in DOMAIN index : index[i] \in File
    /\ cache \in [Key -> {"unknown", "png", "none"}]
    /\ waiting \subseteq Key /\ inflight \subseteq Key
    /\ busy \subseteq Key /\ Cardinality(busy) <= Threads
    /\ window \in {"never", "open", "over"} /\ notified \in BOOLEAN
    /\ answer \in Seq(Item) \cup {NoAnswer} /\ shown \in Seq(Item)

Init ==
    /\ next = 1 /\ index = <<>>
    /\ cache = [k \in Key |-> "unknown"]
    /\ waiting = {} /\ busy = {} /\ inflight = {}
    /\ window = "never" /\ notified = FALSE
    /\ answer = NoAnswer /\ shown = <<>>

-----------------------------------------------------------------------------
(* Answers.                                                                *)

RegisterPathTight(r, f) ==  \* mutant: the window ends above the new number
    [next |-> r.next + 1, index |-> [i \in {r.next} |-> f]]

\* register_path: of a full index, the numbers below a window are forgotten.
RegisterPath(r, f) ==
    LET room == IF Cardinality(DOMAIN r.index) < Cap THEN DOMAIN r.index
                ELSE {i \in DOMAIN r.index : i + Cap - 1 >= r.next}
    IN  [next |-> r.next + 1,
         index |-> [i \in room \cup {r.next} |-> IF i = r.next THEN f ELSE r.index[i]]]

EnqueueAgain(keys) ==       \* mutant: a key on its way is not remembered
    /\ waiting' = waiting \cup (keys \ inflight)
    /\ UNCHANGED inflight

\* enqueue_icon_job: each key once; the first ever opens the window in which
\* nothing is notified.
Enqueue(keys) ==
    /\ waiting' = waiting \cup (keys \ inflight)
    /\ inflight' = inflight \cup keys

\* lookup_icon_png: a key that is not known is fetched at once while the 15 ms
\* last, unless it is an item's own; the others are queued.
LookUpIcons(keys) ==
    LET new == {k \in keys : cache[k] = "unknown"}
    IN  \E now \in SUBSET (new \ OwnIcon) :
            /\ \E got \in [now -> {"png", "none"}] :
                   cache' = [k \in Key |-> IF k \in now THEN got[k] ELSE cache[k]]
            /\ Enqueue(new \ now)
            /\ window' = IF window = "never" /\ new # now THEN "open" ELSE window
    /\ UNCHANGED busy

\* A number for each of the files in turn.
Registered(files) ==
    LET r[n \in 0 .. Len(files)] ==
          IF n = 0 THEN [next |-> next, index |-> index] ELSE RegisterPath(r[n - 1], files[n])
    IN r[Len(files)]

\* to_command_item for the files found, in the order of their scores.
Results(files) ==
    LET r == Registered(files)
    IN  /\ r.next <= MaxId + 1
        /\ LookUpIcons({KeyOf(files[i]) : i \in 1 .. Len(files)})
        /\ next' = r.next /\ index' = r.index
        /\ answer' = [i \in 1 .. Len(files) |->
               [id |-> next + i - 1, file |-> files[i], alive |-> TRUE,
                icon |-> IF cache'[KeyOf(files[i])] = "png" THEN "icon" ELSE "glyph"]]

\* What parse_response and map_item make of the indexer's list, in any order.
Found == {s \in UNION {[1 .. n -> File] : n \in 0 .. Limit} :
              \A i, j \in DOMAIN s : s[i] = s[j] => i = j}

\* get_file_items: without a text, an indexer or a result (SearchLink) there is
\* advice instead of files.
GetItems ==
    /\ answer = NoAnswer
    /\ notified' = FALSE
    /\ \/ /\ answer' = <<>>
          /\ UNCHANGED <<indexVars, cache, waiting, busy, inflight, window>>
       \/ \E files \in Found : Results(files)
    /\ UNCHANGED shown

\* The host shows what it asked for, or throws it away as out of date.
Land ==
    /\ answer # NoAnswer
    /\ shown' \in {answer, shown} /\ answer' = NoAnswer
    /\ UNCHANGED <<indexVars, iconVars>>

-----------------------------------------------------------------------------
(* The threads that fetch icons.                                           *)

TakeJob(k) ==
    /\ k \in waiting /\ Cardinality(busy) < Threads
    /\ waiting' = waiting \ {k} /\ busy' = busy \cup {k}
    /\ UNCHANGED <<indexVars, cache, inflight, window, notified, pageVars>>

\* icon_worker_loop and notify_icons_ready: within the window of the last
\* notification there is none, now or later.
JobDone(k) ==
    /\ k \in busy
    /\ busy' = busy \ {k} /\ inflight' = inflight \ {k}
    /\ \E png \in {"png", "none"} :
           /\ cache' = [cache EXCEPT ![k] = png]
           /\ notified' = (notified \/ (png = "png" /\ window # "open"))
           /\ window' = IF png = "png" THEN "open" ELSE window
    /\ UNCHANGED <<indexVars, waiting, pageVars>>

WindowEnds ==
    /\ window = "open" /\ window' = "over"
    /\ UNCHANGED <<indexVars, cache, waiting, busy, inflight, notified, pageVars>>

-----------------------------------------------------------------------------
(* Actions on an item.                                                     *)

\* path_to_file_url and percent_encode_path: the files that bear, letter for
\* letter, the name the URL holds.
Bearing(f) == IF f \notin Escaped THEN {f} ELSE {g \in File : <<f, g>> \in Twin}

\* resolve_file_url_to_path of the host: a file of the literal name comes first;
\* the decoded name is tried only on local disks.
Opens(f) ==
    CASE Bearing(f) # {} -> CHOOSE g \in Bearing(f) : TRUE
      [] Bearing(f) = {} /\ f \in Unc -> "nothing"
      [] OTHER -> f

\* resolve_path_action: a number that is not known, or a name the shell might
\* misread (with a percent sign, say), is refused.
PathAction(item, verb) ==
    IF item.id \notin DOMAIN index THEN "stale"
    ELSE LET f == index[item.id]
         IN  IF verb = "reveal" /\ (\E g \in File : <<g, f>> \in Twin) THEN "stale" ELSE f

\* handle_invoke: "open" goes through the host, the others take the path.
Reaches(item, verb) ==
    CASE verb \in {"copy", "reveal"} -> PathAction(item, verb)
      [] verb = "open" /\ item.id \in DOMAIN index -> Opens(index[item.id])
      [] OTHER -> "stale"

-----------------------------------------------------------------------------
(* The world outside.                                                      *)

\* The host ends the process, or it crashes, and starts it again; the page
\* stays as it is.
Restart ==
    /\ next' = 1 /\ index' = <<>>
    /\ cache' = [k \in Key |-> "unknown"]
    /\ waiting' = {} /\ busy' = {} /\ inflight' = {}
    /\ window' = "never" /\ notified' = FALSE
    /\ answer' = NoAnswer
    /\ shown' = [i \in 1 .. Len(shown) |-> [shown[i] EXCEPT !.alive = FALSE]]

Next ==
    \/ GetItems \/ Land
    \/ \E k \in Key : TakeJob(k) \/ JobDone(k)
    \/ WindowEnds \/ Restart

Spec == Init /\ [][Next]_searchVars

-----------------------------------------------------------------------------
(* Properties.                                                             *)

\* Whatever was searched for in between, an item of the last answer is known,
\* and no item the running process gave reaches another file than it names,
\* names that the URL changes and that lie on a share or have a twin aside.
ItemsKeepTheirFile ==
    /\ answer # NoAnswer => \A i \in 1 .. Len(answer) : Reaches(answer[i], "copy") = answer[i].file
    /\ \A i \in 1 .. Len(shown) :
           LET f == shown[i].file
           IN  shown[i].alive =>
                   /\ \A verb \in {"copy", "reveal"} : Reaches(shown[i], verb) \in {f, "stale"}
                   /\ \/ Reaches(shown[i], "open") \in {f, "stale"}
                      \/ f \in Escaped /\ (f \in Unc \/ \E g \in File : <<f, g>> \in Twin)

\* A key is remembered as on its way exactly while a thread will come to it:
\* none is fetched twice at a time, and none is stuck and never fetched again.
NoIconStuck == inflight = waiting \cup busy /\ waiting \cap busy = {}

\* search-file.md says the icons come by themselves once the threads have
\* fetched them: when all is quiet, no item shows a glyph for a fetched icon.
IconsArrive ==
    answer = NoAnswer /\ inflight = {} /\ ~notified =>
        \A i \in 1 .. Len(shown) :
            shown[i].alive /\ shown[i].icon = "glyph" => cache[KeyOf(shown[i].file)] # "png"

\* search.rs says its numbers never collide, and that the host restores every
\* encoded path: what an item opens is the file it shows, or nothing.
OpensWhatItShows ==
    \A i \in 1 .. Len(shown) : Reaches(shown[i], "open") \in {shown[i].file, "stale"}
=============================================================================
