------------------------------ MODULE Bookmarks ------------------------------
(***************************************************************************)
(* The bookmarks extension (crates/dd-ext/src/builtins/bookmarks.rs): the  *)
(* bookmark files of the browsers are parsed into one index, and a file is *)
(* parsed again only when its modification time changed.  Two calls can be *)
(* inside snapshot() at once: a call given up after five seconds keeps its *)
(* thread, and the next one runs on a fresh one.                           *)
(***************************************************************************)
EXTENDS Naturals, Sequences, SequencesExt

CONSTANTS
    File,           \* the Bookmarks files of the profiles found
    Url,            \* what a bookmark opens
    Caller,         \* threads that may be inside the extension
    MaxEntries,     \* MAX_ENTRIES
    Longest,        \* bound: bookmarks in one file
    Writes          \* bound: how often the browsers write

\* A file as the browser left it, with text that parses or does not.
Text == [sound : {TRUE}, urls : SeqOf(Url, Longest)] \cup [sound : {FALSE}, urls : {<<>>}]
Gone == [mtime |-> 0, text |-> [sound |-> FALSE, urls |-> <<>>]]

\* What the cache keeps of a file; read says whether its text could be read.
Cached == [mtime : 0..Writes, entries : SeqOf(Url, MaxEntries), read : BOOLEAN]
NoIndex == [built |-> FALSE, files |-> <<>>, entries |-> <<>>, truncated |-> FALSE]

\* A call: of top_level_commands, or of handle_invoke for a listed position.
List == [pos |-> 0, shown |-> "none"]

Quiet == [at |-> "out"]

VARIABLES
    disk,           \* the files, each with its modification time
    clock,
    index,          \* INDEX
    caller,         \* each thread's way through snapshot()
    listed,         \* the last list handed to the host
    opened          \* the last invoke: what was shown and what it opened

bookVars == <<disk, clock, index, caller, listed, opened>>

TypeOK ==
    /\ disk \in [File -> [mtime : 0..Writes, text : Text]]
    /\ clock \in 0..Writes
    /\ DOMAIN index.files \subseteq File
    /\ \A f \in DOMAIN index.files : index.files[f] \in Cached
    /\ Len(index.entries) <= MaxEntries
    /\ \A c \in Caller : caller[c].at \in {"out", "stat", "text"}

Init ==
    /\ disk = [f \in File |-> Gone]
    /\ clock = 0
    /\ index = NoIndex
    /\ caller = [c \in Caller |-> Quiet]
    /\ listed = NoIndex
    /\ opened = [shown |-> "none", url |-> "none"]

-----------------------------------------------------------------------------
\* bookmark_files: the profiles that have the file, browser by browser.
Sources == {f \in File : disk[f] # Gone}
Order == SetToSeq(File)

\* A mutant: the list is looked at after the entry was added, one too late.
FlattenOneOver(urls) == SubSeq(urls, 1, IF Len(urls) <= MaxEntries THEN Len(urls) ELSE MaxEntries + 1)

\* flatten_node stops at MAX_ENTRIES, and tells nobody.
Flatten(urls) == SubSeq(urls, 1, IF Len(urls) < MaxEntries THEN Len(urls) ELSE MaxEntries)

\* parse_bookmarks_json; a file that cannot be read or parsed has no entries.
Parse(text) == IF text.sound THEN Flatten(text.urls) ELSE <<>>

\* All entries of the files in turn, up to MAX_ENTRIES; truncated when one
\* of them finds the list full.
Merge(files) ==
    LET all == FlattenSeq([i \in DOMAIN Order |->
                 IF Order[i] \in DOMAIN files THEN files[Order[i]].entries ELSE <<>>])
    IN [built |-> TRUE, files |-> files, entries |-> Flatten(all), truncated |-> Len(all) > MaxEntries]

\* The fast path of snapshot(): same files, same times.
Fresh == /\ index.built
         /\ DOMAIN index.files = Sources
         /\ \A f \in Sources : index.files[f].mtime = disk[f].mtime

\* What the host asks for: the commands, or one it has listed.
Calls == {List} \cup {[pos |-> i, shown |-> listed.entries[i]] : i \in DOMAIN listed.entries}

\* What the call does with the snapshot: top_level_commands lists it,
\* handle_invoke reads the position its id names.
Use(call, idx) ==
    IF call = List THEN listed' = idx /\ UNCHANGED opened
    ELSE /\ opened' = [shown |-> call.shown,
                       url |-> IF call.pos <= Len(idx.entries) THEN idx.entries[call.pos]
                                                               ELSE "toast"]
         /\ UNCHANGED listed

\* snapshot() when nothing changed.
Hit(c) ==
    /\ caller[c] = Quiet /\ Fresh
    /\ \E call \in Calls : Use(call, index)
    /\ UNCHANGED <<disk, clock, index, caller>>

\* snapshot() when something did: the old parses are copied out of the index.
Rebuild(c) ==
    /\ caller[c] = Quiet /\ ~Fresh
    /\ \E call \in Calls :
         caller' = [caller EXCEPT ![c] = [at |-> "stat", call |-> call, old |-> index.files,
                                          todo |-> Sources, files |-> <<>>, mtime |-> 0]]
    /\ UNCHANGED <<disk, clock, index, listed, opened>>

Next1(todo) == Order[CHOOSE i \in DOMAIN Order :
    /\ Order[i] \in todo
    /\ \A j \in 1..(i - 1) : Order[j] \notin todo]

Keep(w, f, entry) ==
    [w EXCEPT !.at = "stat", !.todo = @ \ {f},
              !.files = [g \in DOMAIN w.files \cup {f} |-> IF g = f THEN entry ELSE w.files[g]]]

\* A mutant: a file known before keeps its parse, whatever its time is now.
StatKeepsKnown(c) ==
    LET w == caller[c] IN
    /\ w.at = "stat" /\ w.todo # {}
    /\ LET f == Next1(w.todo) IN
       caller' = [caller EXCEPT ![c] =
           IF f \in DOMAIN w.old THEN Keep(w, f, [w.old[f] EXCEPT !.mtime = disk[f].mtime])
           ELSE [w EXCEPT !.at = "text", !.mtime = disk[f].mtime]]
    /\ UNCHANGED <<disk, clock, index, listed, opened>>

\* The time of the next file; the old parse is kept when it is the same.
Stat(c) ==
    LET w == caller[c] IN
    /\ w.at = "stat" /\ w.todo # {}
    /\ LET f == Next1(w.todo) IN
       caller' = [caller EXCEPT ![c] =
           IF f \in DOMAIN w.old /\ w.old[f].mtime = disk[f].mtime
           THEN Keep(w, f, w.old[f])
           ELSE [w EXCEPT !.at = "text", !.mtime = disk[f].mtime]]
    /\ UNCHANGED <<disk, clock, index, listed, opened>>

\* Its text, read after the time; reading may fail.
Read(c) ==
    LET w == caller[c] IN
    /\ w.at = "text"
    /\ LET f == Next1(w.todo) IN
       \E ok \in {FALSE, disk[f] # Gone} :
         caller' = [caller EXCEPT ![c] =
           Keep(w, f, [mtime |-> w.mtime, read |-> ok,
                       entries |-> IF ok THEN Parse(disk[f].text) ELSE <<>>])]
    /\ UNCHANGED <<disk, clock, index, listed, opened>>

\* The new index replaces the shared one, whatever was put there meanwhile.
Publish(c) ==
    LET w == caller[c] IN
    /\ w.at = "stat" /\ w.todo = {}
    /\ index' = Merge(w.files)
    /\ Use(w.call, index')
    /\ caller' = [caller EXCEPT ![c] = Quiet]
    /\ UNCHANGED <<disk, clock>>

\* A browser replaces its file (written aside, then renamed), or removes the profile.
BrowserWrites(f) ==
    /\ clock < Writes
    /\ clock' = clock + 1
    /\ \E new \in {Gone} \cup [mtime : {clock'}, text : Text] : disk' = [disk EXCEPT ![f] = new]
    /\ UNCHANGED <<index, caller, listed, opened>>

Next ==
    \/ \E c \in Caller : \/ Hit(c)
                         \/ Rebuild(c)
                         \/ Stat(c)
                         \/ Read(c)
                         \/ Publish(c)
    \/ \E f \in File : BrowserWrites(f)

Spec == Init /\ [][Next]_bookVars

-----------------------------------------------------------------------------
(* Two callers rebuilding over a browser that writes meanwhile never leave *)
(* an index that looks fresh and holds other bookmarks than the files: an  *)
(* entry whose time is that of the file in its place was parsed from the   *)
(* file's text, unless reading failed.                                     *)
FreshIsCurrent ==
    \A f \in Sources \cap DOMAIN index.files :
        index.files[f].mtime = disk[f].mtime /\ index.files[f].read
            => index.files[f].entries = Parse(disk[f].text)

(* When bookmarks are left out, the list says so ("超限截断 + 尾部提示条     *)
(* 目": truncated, with a last entry that tells).                          *)
TruncationIsTold ==
    index.built /\ (\E f \in DOMAIN index.files :
        /\ index.files[f].mtime = disk[f].mtime /\ index.files[f].read
        /\ Len(disk[f].text.urls) > Len(index.entries))
    => index.truncated

(* An entry opens the bookmark it shows, or says that the list changed.    *)
OpensWhatItShows == opened.url \in {opened.shown, "toast"}
=============================================================================
