----------------------------- MODULE ResultFlow -----------------------------
(***************************************************************************)
(* What becomes of the answer to a command (crates/dd-gui/src/result.rs,   *)
(* app/invoke.rs, app/host_actions.rs, app/clipboard_worker.rs,            *)
(* app/update_check.rs, ui/confirm.rs).  A command runs on a thread with   *)
(* the client of its extension; its answer, what the extension asked the   *)
(* host to do meanwhile, the clipboard thread and the check for updates    *)
(* are all picked up by frames of a panel that is shown.                   *)
(***************************************************************************)
EXTENDS Naturals, Sequences, SequencesExt

CONSTANTS
    Ext, Cmd,       \* extensions, and the commands each of them has
    Custom,         \* HOST_CUSTOM_EXT_ID: commands the host runs itself
    Backlog         \* bound: requests an extension has sent and nobody drained

VARIABLES
    visible,
    client,         \* per extension: "warm", "out" with a thread, or "stub"
    pageBusy,       \* extensions whose client serves a page, not a command
    flight,         \* invoke_rx: the command under way, or None
    answer,         \* what waits in that channel, or "none"
    last,           \* last_command_id and last_invoke
    dialog,         \* overlay.confirm: whose command it repeats, or None
    asked,          \* ghost: the command whose answer opened the dialog
    requests,       \* per client, host/* requests not drained
    clip,           \* the clipboard thread: "idle", "queued", "done", or "down"
    update,         \* update_rx: "none", "running", "done"
    toast           \* the kind of toast on the screen, or "none"

invokeVars == <<client, pageBusy, flight, answer, last>>
shown == <<dialog, asked, toast>>
resultVars == <<visible, invokeVars, shown, requests, clip, update>>

None == [ext |-> Custom, cmd |-> "none", confirmed |-> FALSE]
Call == [ext : Ext, cmd : Cmd, confirmed : BOOLEAN]
Kind == {"Dismiss", "Hide", "GoHome", "KeepOpen", "GoToPage", "ShowToast", "Confirm"}
Request == {"show_status", "set_clipboard", "open_url"}

TypeOK ==
    /\ visible \in BOOLEAN
    /\ client \in [Ext -> {"warm", "out", "stub"}]
    /\ pageBusy \subseteq {e \in Ext : client[e] = "out"}
    /\ {flight, last, dialog, asked} \subseteq Call \cup {None}
    /\ flight # None => client[flight.ext] = "out" /\ flight.ext \notin pageBusy
    /\ answer \in {"none", "Error", "Crashed"} \cup Kind
    /\ \A e \in Ext : requests[e] \in Seq(Request) /\ Len(requests[e]) <= Backlog
    /\ clip \in {"idle", "queued", "done", "down"}
    /\ update \in {"none", "running", "done"}
    /\ toast \in {"none", "info", "error"}

Init ==
    /\ visible = TRUE /\ client \in [Ext -> {"warm", "stub"}] /\ pageBusy = {}
    /\ flight = None /\ answer = "none" /\ last = None
    /\ dialog = None /\ asked = None /\ toast = "none"
    /\ requests = [e \in Ext |-> <<>>]
    /\ clip \in {"idle", "down"} /\ update = "none"

-----------------------------------------------------------------------------
\* mutant: only the command under way is looked at, not who holds the client
BusyWithInvoke(e) == flight # None

\* dispatch_invoke: one command at a time, and none of an extension that is
\* busy; the parameters are kept for a question the answer may ask.
Busy(e) == flight # None \/ client[e] = "out"

Start(c) ==
    /\ ~Busy(c.ext)
    /\ flight' = c /\ answer' = "none"
    /\ client' = [client EXCEPT ![c.ext] = "out"]
    /\ UNCHANGED <<pageBusy, toast>>

\* mutant: the parameters are noted before the command may be refused
DispatchNotesFirst(c) ==
    \/ Busy(c.ext) /\ last' = c /\ toast' = "error"
       /\ UNCHANGED <<client, pageBusy, flight, answer>>
    \/ last' = c /\ Start(c)

Dispatch(c) ==
    \/ Busy(c.ext) /\ toast' = "error" /\ UNCHANGED invokeVars
    \/ last' = c /\ Start(c)

\* Enter on a row or on an entry of the menu; the dialog takes all keys.
Confirm ==
    /\ visible /\ dialog = None
    /\ \/ \E e \in Ext, c \in Cmd : Dispatch([ext |-> e, cmd |-> c, confirmed |-> FALSE])
       \/ toast' \in {toast, "info", "error"} /\ UNCHANGED invokeVars  \* run_custom_command
    /\ UNCHANGED <<visible, dialog, asked, requests, clip, update>>

\* draw_confirm and the keys of the dialog; confirmed_params.
AnswerDialog ==
    /\ visible /\ dialog # None /\ dialog' = None /\ asked' = None
    /\ \/ Dispatch([dialog EXCEPT !.confirmed = TRUE])
       \/ UNCHANGED <<toast, invokeVars>>
    /\ UNCHANGED <<visible, requests, clip, update>>

\* Another use of a client: a page is fetched, a template, a list.
PageTakes(e) ==
    /\ client[e] # "out" /\ client' = [client EXCEPT ![e] = "out"]
    /\ pageBusy' = pageBusy \cup {e}
    /\ UNCHANGED <<visible, flight, answer, last, shown, requests, clip, update>>

PageReturns(e) ==
    /\ e \in pageBusy /\ pageBusy' = pageBusy \ {e}
    /\ client' = [client EXCEPT ![e] = "warm"]
    /\ UNCHANGED <<visible, flight, answer, last, shown, requests, clip, update>>

-----------------------------------------------------------------------------
\* The extension, on the thread of the command or whenever it likes.
Answers ==
    /\ flight # None /\ answer = "none"
    /\ answer' \in Kind \cup {"Error", "Crashed"}
    /\ UNCHANGED <<visible, client, pageBusy, flight, last, shown, requests, clip, update>>

Asks(e) ==
    /\ client[e] # "stub" /\ Len(requests[e]) < Backlog
    /\ \E r \in Request : requests' = [requests EXCEPT ![e] = Append(@, r)]
    /\ UNCHANGED <<visible, invokeVars, shown, clip, update>>

-----------------------------------------------------------------------------
\* poll_invoke and apply_action: a client that died, or was just started and
\* failed, is not kept; the question takes last_invoke.
Kept == IF answer = "Crashed" THEN {"stub"} ELSE IF answer = "Error" THEN {"stub", "warm"} ELSE {"warm"}

PollInvoke ==
    /\ visible /\ answer # "none" /\ answer' = "none" /\ flight' = None
    /\ \E k \in Kept :
          /\ client' = [client EXCEPT ![flight.ext] = k]
          /\ requests' = [requests EXCEPT ![flight.ext] = IF k = "stub" THEN <<>> ELSE @]
    /\ visible' = (answer \notin {"Dismiss", "Hide"})
    /\ toast' = CASE answer \in {"Error", "Crashed"} -> "error"
                  [] answer = "ShowToast" -> "info"
                  [] OTHER -> toast
    /\ IF answer = "Confirm" THEN dialog' = last /\ asked' = flight
                             ELSE UNCHANGED <<dialog, asked>>
    /\ UNCHANGED <<pageBusy, last, clip, update>>

\* poll_host_requests over the clients that are in the pool: a message, the
\* clipboard thread, a target that may be refused or fail to open.
Asked == UNION {ToSet(requests[e]) : e \in {x \in Ext : client[x] = "warm"}}

PollHostRequests ==
    /\ visible /\ Asked # {}
    /\ requests' = [e \in Ext |-> IF client[e] = "warm" THEN <<>> ELSE requests[e]]
    /\ clip' = IF "set_clipboard" \in Asked /\ clip = "idle" THEN "queued" ELSE clip
    /\ toast' \in IF "show_status" \in Asked THEN {"info", "error"} ELSE {"info", "error", toast}
    /\ UNCHANGED <<visible, invokeVars, dialog, asked, update>>

\* run_worker_loop and poll_clipboard_results.
Clipboard ==
    \/ clip = "queued" /\ clip' = "done" /\ UNCHANGED toast
    \/ visible /\ clip = "done" /\ clip' = "idle" /\ toast' \in {"info", "error"}

\* start_update_check, its thread, and poll_update_check, shown or not.
UpdateCheck ==
    \/ update = "none" /\ update' = "running" /\ toast' = "info"
    \/ update = "running" /\ update' \in {"done", "none"} /\ UNCHANGED toast
    \/ update = "done" /\ update' = "none" /\ toast' \in {"info", "error"}

Background ==
    /\ \/ Clipboard /\ UNCHANGED update
       \/ UpdateCheck /\ UNCHANGED clip
    /\ UNCHANGED <<visible, invokeVars, dialog, asked, requests>>

\* The panel is hidden or shown, a toast has had its time (2 s, 3 s an error).
Window ==
    /\ \/ visible' = ~visible /\ UNCHANGED toast
       \/ visible /\ toast # "none" /\ toast' = "none" /\ UNCHANGED visible
    /\ UNCHANGED <<invokeVars, dialog, asked, requests, clip, update>>

\* refresh_health and warm_idle_reclaim, also while hidden: a client that died
\* or was not used goes, with what it had asked for.
Evict(e) ==
    /\ client[e] = "warm" /\ client' = [client EXCEPT ![e] = "stub"]
    /\ requests' = [requests EXCEPT ![e] = <<>>]
    /\ UNCHANGED <<visible, pageBusy, flight, answer, last, shown, clip, update>>

Next == Confirm \/ AnswerDialog \/ Answers \/ PollInvoke \/ PollHostRequests
        \/ Background \/ Window
        \/ \E e \in Ext : PageTakes(e) \/ PageReturns(e) \/ Asks(e) \/ Evict(e)

Spec == Init /\ [][Next]_resultVars

-----------------------------------------------------------------------------
\* The dialog repeats the command that asked, with the parameters it had, though
\* it takes them from the fields of the pool and not from the answer, and other
\* commands, pages and results come and go until the user answers.
ConfirmRepeatsWhatAsked == dialog = asked

\* host_actions.rs, R-16: what an extension asked the host to do is done or
\* fails visibly; it does not vanish with the client.
NothingAskedVanishes ==
    [][\A e \in Ext : requests'[e] = <<>> /\ requests[e] # <<>>
          => (client[e] = "warm" /\ visible) \/ toast' = "error"]_resultVars
=============================================================================
