---------------------------- MODULE Conformance ----------------------------
(* The self-check of the command line tool: dd-run --roundtrip opens one   *)
(* extension, asks it for its commands and closes it; --conformance walks  *)
(* the whole surface of the protocol and its exit code is what an author's *)
(* CI goes by.                                                             *)
(* What the extension is like is fixed by what it answers: each answer is  *)
(* kept, so that the verdict can be compared with all of them.             *)
EXTENDS Naturals, Sequences

CONSTANTS
  Ext,        \* ids a user may ask for
  BuiltinIds, \* those compiled into the tool
  Id,         \* ids an extension gives its commands
  Cap,        \* host capabilities an extension may name
  Known,      \* HOST_CAPABILITIES
  RecordCap,  \* HOST_REQUESTS_CAP
  MaxBurst,   \* bound: host/* requests sent while one response is waited for
  MaxItems    \* bound: commands of one extension

Blank == "" 

\* A top level item, as far as it is looked at: a "flawed" one lacks its title or
\* its command, has a kind that does not exist, or is a page without page_id; a
\* "flawed_page" has a page_id all the same, of blanks or under a blank title.
Item == [id : Id \cup {Blank}, command : {"invoke", "page", "flawed", "flawed_page"}]

VARIABLES
  tool,      \* "roundtrip" or "conformance"
  invoking,  \* --invoke was given
  step,      \* the next step of the check
  backend,   \* the client: "none", "subprocess", "in_process", "closed", "dropped"
  promised,  \* what initialize said: capabilities and has_fallback
  templates, \* the fallback templates the extension has, asked for or not
  commands,  \* its top level items
  reheats,   \* answers to get_command, item by item
  listings,  \* answers to get_items, page by page
  ran,       \* the answer to invoke
  used,      \* host/* methods it has called
  record,    \* host_requests of the client: those of them it has on record
  missed,    \* history: a call was never on record, or no longer at step 8
  failures   \* steps with a cross

calls == <<used, record, missed>>
vars == <<tool, invoking, step, backend, promised, templates, commands,
          reheats, listings, ran, calls, failures>>

Steps == {"pick", "spawn", "initialize", "top_level", "fallback", "get_command",
          "get_items", "invoke", "host", "close", "done"}

\* An answer is what the protocol says, or has what its step looks at and is
\* flawed elsewhere, or lacks that.
Answers == {"whole", "accepted", "bad", "error", "skipped"}
Passes(answer) == answer \in {"whole", "accepted"}

TypeOK ==
  /\ tool \in {"roundtrip", "conformance"} /\ invoking \in BOOLEAN
  /\ step \in Steps
  /\ backend \in {"none", "subprocess", "in_process", "closed", "dropped"}
  /\ promised \in [caps : SUBSET Cap, fallback : BOOLEAN]
  /\ templates \in {"none", "accepted", "whole"}
  /\ commands \in Seq(Item) /\ Len(commands) <= MaxItems
  /\ reheats \in Seq(Answers) /\ Len(reheats) <= Len(commands)
  /\ listings \in Seq(Answers) /\ Len(listings) <= Len(commands)
  /\ ran \in Answers
  /\ used \subseteq Cap /\ record \in Seq(Cap) /\ missed \in BOOLEAN
  /\ failures \subseteq Steps

Init ==
  /\ tool \in {"roundtrip", "conformance"} /\ invoking \in BOOLEAN
  /\ step = "pick" /\ backend = "none"
  /\ promised = [caps |-> {}, fallback |-> FALSE] /\ templates = "none"
  /\ commands = <<>> /\ reheats = <<>> /\ listings = <<>>
  /\ ran = "skipped" /\ used = {} /\ record = <<>> /\ missed = FALSE
  /\ failures = {}

Open == backend \in {"subprocess", "in_process"}
Fails(bad) == failures' = IF bad THEN failures \cup {step} ELSE failures

\* An early return drops the client, and with it a child still running.
Abandon == /\ step' = "done"
           /\ backend' = IF Open THEN "dropped" ELSE backend

\* While it waits for a response the client takes the host/* requests that
\* come before it, and keeps the newest on record (answer_host_request; of an
\* in-process extension all). The full queue drops some, and a panic takes
\* those of its call with it.
Calls(answered) ==
  \E sent \in UNION {[1 .. n -> Cap] : n \in 0 .. MaxBurst}, taken \in BOOLEAN :
    LET all  == record \o sent
        over == backend = "subprocess" /\ Len(all) > RecordCap
    IN  /\ backend = "in_process" /\ answered => taken
        /\ used' = used \cup {sent[i] : i \in DOMAIN sent}
        /\ record' = IF ~taken THEN record
                     ELSE IF over THEN SubSeq(all, Len(all) - RecordCap + 1, Len(all)) ELSE all
        /\ missed' = (missed \/ (~taken /\ sent # <<>>) \/ (taken /\ over))

facts == <<tool, invoking>>
answers == <<promised, templates, commands, reheats, listings, ran>>

\* pick_extension, after the built-in ids of --conformance: the one asked
\* for, or else the first on disk, or else, when no directory was named, the
\* sample next to the tool.
Picked(loaded, wanted, explicit) ==
  CASE wanted = Blank /\ loaded # {}              -> "subprocess"
    [] wanted = Blank /\ loaded = {} /\ explicit  -> "none"
    [] wanted = Blank /\ loaded = {} /\ ~explicit -> "sample"
    [] wanted \in BuiltinIds                      -> "in_process"
    [] wanted \in loaded                          -> "subprocess"
    [] OTHER                                      -> "none"

Pick ==
  /\ step = "pick"
  /\ \E loaded \in SUBSET (Ext \ BuiltinIds), explicit, sample \in BOOLEAN,
        wanted \in IF tool = "conformance" THEN Ext \cup {Blank} ELSE {Blank} :
       LET picked == Picked(loaded, wanted, explicit) IN
       IF picked = "none" \/ (picked = "sample" /\ ~sample)
       THEN step' = "done" /\ Fails(TRUE) /\ UNCHANGED backend
       ELSE IF picked = "in_process"
       THEN step' = "initialize" /\ backend' = "in_process" /\ UNCHANGED failures
       ELSE step' = "spawn" /\ UNCHANGED <<backend, failures>>
  /\ UNCHANGED <<facts, answers, calls>>

Spawn ==
  /\ step = "spawn"
  /\ \/ step' = "initialize" /\ backend' = "subprocess" /\ UNCHANGED failures
     \/ Abandon /\ Fails(TRUE)
  /\ UNCHANGED <<facts, answers, calls>>

Initialize ==
  /\ step = "initialize"
  /\ \/ Abandon /\ Fails(TRUE) /\ Calls(FALSE) /\ UNCHANGED <<promised, templates>>
     \/ /\ step' = "top_level" /\ Calls(TRUE) /\ UNCHANGED backend
        /\ promised' \in [caps : SUBSET Cap, fallback : BOOLEAN]
        /\ templates' \in {"none", "accepted", "whole"}
        /\ Fails(tool = "conformance" /\ ~(promised'.caps \subseteq Known))
  /\ UNCHANGED <<facts, commands, reheats, listings, ran>>

\* What step 3a looks at.
WellFormed(item) ==
  item.id # Blank /\ item.command \in {"invoke", "page"}

\* A missing array ends the check like an error does. --roundtrip only
\* prints the items.
TopLevel ==
  /\ step = "top_level"
  /\ \/ Abandon /\ Fails(TRUE) /\ Calls(FALSE) /\ UNCHANGED commands
     \/ /\ Calls(TRUE)
        /\ \E n \in 0 .. MaxItems : commands' \in [1 .. n -> Item]
        /\ step' = IF tool = "roundtrip" THEN "close" ELSE "fallback"
        /\ Fails(/\ tool = "conformance"
                 /\ \E i \in DOMAIN commands' : ~WellFormed(commands'[i]))
        /\ UNCHANGED backend
  /\ UNCHANGED <<facts, promised, templates, reheats, listings, ran>>

\* Not asked at all when has_fallback is false; that there are some is all that
\* counts.
Fallback ==
  /\ step = "fallback"
  /\ IF ~promised.fallback
     THEN step' = "get_command" /\ UNCHANGED <<backend, calls, failures>>
     ELSE \/ Abandon /\ Fails(TRUE) /\ Calls(FALSE)
          \/ /\ step' = "get_command" /\ Fails(templates = "none") /\ Calls(TRUE)
             /\ UNCHANGED backend
  /\ UNCHANGED <<facts, answers>>

\* A faulty GetCommand for the checks below: an id not found is no failure.
GetCommandLenient ==
  /\ step = "get_command"
  /\ IF Len(reheats) = Len(commands)
     THEN step' = "get_items" /\ UNCHANGED <<reheats, calls, failures>>
     ELSE /\ UNCHANGED step
          /\ IF commands[Len(reheats) + 1].id = Blank
             THEN reheats' = Append(reheats, "skipped") /\ UNCHANGED <<calls, failures>>
             ELSE \E got \in Answers \ {"skipped"} :
                    /\ reheats' = Append(reheats, got) /\ Fails(got = "error")
                    /\ Calls(got # "error")
  /\ UNCHANGED <<facts, backend, promised, templates, commands, listings, ran>>

\* For every item with an id something must be found again, whatever it is; an
\* error is counted at once, the ids not found together after the last.
GetCommand ==
  /\ step = "get_command"
  /\ IF Len(reheats) = Len(commands)
     THEN step' = "get_items" /\ UNCHANGED <<reheats, calls, failures>>
     ELSE /\ UNCHANGED step
          /\ IF commands[Len(reheats) + 1].id = Blank
             THEN reheats' = Append(reheats, "skipped") /\ UNCHANGED <<calls, failures>>
             ELSE \E got \in Answers \ {"skipped"} :
                    /\ reheats' = Append(reheats, got) /\ Fails(~Passes(got))
                    /\ Calls(got # "error")
  /\ UNCHANGED <<facts, backend, promised, templates, commands, listings, ran>>

\* Every page a command names is walked, a blank page_id too: its items have
\* ids, and has_more_items and is_loading are there.
GetItems ==
  /\ step = "get_items"
  /\ IF Len(listings) = Len(commands)
     THEN step' = "invoke" /\ UNCHANGED <<listings, calls, failures>>
     ELSE /\ UNCHANGED step
          /\ IF commands[Len(listings) + 1].command \in {"page", "flawed_page"}
             THEN \E got \in Answers \ {"skipped"} :
                    /\ listings' = Append(listings, got) /\ Fails(~Passes(got))
                    /\ Calls(got # "error")
             ELSE listings' = Append(listings, "skipped") /\ UNCHANGED <<calls, failures>>
  /\ UNCHANGED <<facts, backend, promised, templates, commands, reheats, ran>>

\* The first command is run when --invoke allows its side effects, and has an
\* id; the result is the CommandResult itself, one level deep, of a kind there is.
Invoke ==
  /\ step = "invoke" /\ step' = "host"
  /\ \/ /\ invoking /\ commands # <<>> /\ ran' \in Answers \ {"skipped"}
        /\ Fails(~Passes(ran')) /\ Calls(ran' # "error")
     \/ /\ invoking /\ commands # <<>> => commands[1].id = Blank
        /\ UNCHANGED <<ran, calls, failures>>
  /\ UNCHANGED <<facts, backend, promised, templates, commands, reheats, listings>>

\* Step 8 takes what is on record by now.
HostRequests ==
  /\ step = "host" /\ step' = "close"
  /\ Fails(~(\A i \in DOMAIN record : record[i] \in promised.caps))
  /\ record' = <<>>
  /\ UNCHANGED <<facts, backend, answers, used, missed>>

\* An in-process extension has no process to end: its close cannot fail. What
\* is called meanwhile is not judged any more.
Close ==
  /\ step = "close" /\ step' = "done"
  /\ \/ backend' = "closed" /\ UNCHANGED failures
     \/ backend = "subprocess" /\ backend' = "dropped" /\ Fails(TRUE)
  /\ \E late \in SUBSET Cap :
        used' = used \cup late /\ missed' = (missed \/ late # {})
  /\ UNCHANGED <<facts, answers, record>>

Next ==
  \/ Pick \/ Spawn \/ Initialize \/ TopLevel \/ Fallback \/ GetCommand
  \/ GetItems \/ Invoke \/ HostRequests \/ Close

Spec == Init /\ [][Next]_vars

Green == step = "done" /\ tool = "conformance" /\ failures = {}

\* When --conformance exits with success, every answer the extension gave on the
\* way has what its step looks at: its items are whole, an answer was found for
\* every id a stub may be clicked by, every page lists, what it ran returned a
\* result; and unless a call was missed by the record, it used no capability it
\* had not declared.
GreenIsEarned ==
  Green =>
    /\ backend = "closed"
    /\ promised.caps \subseteq Known
    /\ missed \/ used \subseteq promised.caps
    /\ promised.fallback => templates # "none"
    /\ Len(reheats) = Len(commands) /\ Len(listings) = Len(commands)
    /\ \A i \in DOMAIN commands :
         /\ WellFormed(commands[i])
         /\ Passes(reheats[i])
         /\ IF commands[i].command = "page" THEN Passes(listings[i]) ELSE listings[i] = "skipped"
    /\ IF invoking /\ commands # <<>> THEN Passes(ran) ELSE ran = "skipped"

\* conformance says that green means compliant: every answer is what the protocol
\* says, and no capability was used that was not declared.
GreenIsCompliant ==
  Green =>
    /\ used \subseteq promised.caps
    /\ promised.fallback => templates = "whole"
    /\ \A i \in DOMAIN commands : "accepted" \notin {reheats[i], listings[i]}
    /\ ran # "accepted"

\* fallback_is_consistent says that both directions are stopped: templates
\* declared and not given, and templates given and not declared, which the
\* host will never ask for.
FallbackIsDeclared == Green => (templates # "none" <=> promised.fallback)
=============================================================================
