----------------------------- MODULE PanelList -----------------------------
(***************************************************************************)
(* The list of the root page (state.rs, fuzzy.rs of dd-gui) and all that   *)
(* changes it under the user's hands: the box, the arrivals of a round,    *)
(* the counts of what was used, the offers of fallback_flow.rs when        *)
(* nothing matches, and the context menu that was opened on one item of    *)
(* it.  A selection is a position in what is shown, never an item.         *)
(*                                                                         *)
(* A frame takes the results first, then the keys, then it draws: the text *)
(* typed reaches the list while it is drawn.                               *)
(***************************************************************************)
EXTENDS Naturals, Sequences, FiniteSets

CONSTANTS
    Ext,        \* extensions
    Command,    \* their commands, as pairs <<extension, id>>
    Template,   \* Template[e]: the id of the template of extension e
    App,        \* the commands that are applications
    Query,      \* texts of the box
    Score,      \* what a text makes of a command: 0 is no match
    MaxUse      \* bound: a command is counted so often

Blank == "blank"    \* the empty box
NoMenu == [at |-> 0]

\* A row: a command, or the offer of an extension (its template) for a text. An
\* extension gives its items ids; no one compares those of two extensions.
Offered(e) == <<e, Template[e]>>
Named == Command \cup {Offered(e) : e \in Ext}
Row == [of : Command, offer : {Blank}] \cup [of : {Offered(e) : e \in Ext}, offer : Query]

VARIABLES
    list,           \* PanelState of the root page
    usage,          \* usage.json
    ready,          \* FallbackStore: extensions with a template, in order
    arrived,        \* the commands of the round so far, in their order
    came,           \* the extensions that have arrived
    aggregating,
    menu,           \* CtxMenuState, and the row it was opened on
    frame,          \* how far the frame has got
    did             \* history: what the last action was about

panelVars == <<list, usage, ready, arrived, came, aggregating, menu, frame, did>>

NoRepeats(s) == \A i, j \in DOMAIN s : s[i] = s[j] => i = j

-----------------------------------------------------------------------------
(* PanelState.                                                             *)

\* FuzzyMatcher::score, and the two settings that hide applications: from an
\* empty box only, or always.
Matches(l, c) ==
    /\ ~(c \in App /\ (l.apps = "never" \/ (l.apps = "asked for" /\ l.query = Blank)))
    /\ l.query # Blank => Score[l.query][c] > 0

\* recompute_visible: the better match, then the more used, then the earlier.
Visible(l) ==
    LET hits == {i \in DOMAIN l.items : Matches(l, l.items[i])}
        score(i) == IF l.query = Blank THEN 0 ELSE Score[l.query][l.items[i]]
        count(i) == l.usage[l.items[i]]
        before(i, j) == \/ score(i) > score(j)
                        \/ score(i) = score(j) /\ count(i) > count(j)
                        \/ score(i) = score(j) /\ count(i) = count(j) /\ i < j
        place(i) == Cardinality({j \in hits : before(j, i)}) + 1
    IN  [p \in 1 .. Cardinality(hits) |->
            [of |-> l.items[CHOOSE i \in hits : place(i) = p], offer |-> Blank]]

\* is_fallback_mode and filtered.
Shown(l) == IF l.query # Blank /\ Visible(l) = <<>> THEN l.fallback ELSE Visible(l)

\* clamp_selection: the position stays while there is such a position.
Clamped(l) ==
    LET n == Len(Shown(l))
    IN  [l EXCEPT !.selected = IF n = 0 THEN 0 ELSE IF l.selected \in 1 .. n THEN l.selected ELSE 1]

NoUses == [c \in Command |-> 0]

NewList(items) ==
    Clamped([items |-> items, query |-> Blank, apps |-> "always", fallback |-> <<>>,
             usage |-> NoUses, selected |-> 0])

SetQuery(l, q) == IF q = l.query THEN l ELSE Clamped([l EXCEPT !.query = q])
SetApps(l, apps) == Clamped([l EXCEPT !.apps = apps])
SetUsage(l, counts) == IF counts = l.usage THEN l ELSE Clamped([l EXCEPT !.usage = counts])
SetFallback(l, rows) ==
    IF l.query = Blank \/ rows = l.fallback THEN l ELSE Clamped([l EXCEPT !.fallback = rows])
ClearFallback(l) == Clamped([l EXCEPT !.fallback = <<>>])
Reset(l) == Clamped([l EXCEPT !.query = Blank, !.fallback = <<>>, !.selected = 1])

\* select_by_identity: a row that is not there leaves the selection alone.
SelectByIdentity(l, c) ==
    LET at == {i \in DOMAIN Shown(l) : Shown(l)[i].of = c}
    IN  IF at = {} THEN l ELSE [l EXCEPT !.selected = CHOOSE i \in at : \A j \in at : i <= j]

-----------------------------------------------------------------------------
\* FallbackStore::render.
Render(q) == [i \in DOMAIN ready |-> [of |-> Offered(ready[i]), offer |-> q]]

\* sync_fallback, in each frame that draws: not while a round runs.
Synced(l) ==
    CASE aggregating -> l
      [] ~aggregating /\ (l.query = Blank \/ Visible(l) # <<>>) -> ClearFallback(l)
      [] OTHER -> SetFallback(l, Render(l.query))

\* rebuild_root_from_arrived: the text and the selected row are kept; the counts
\* come last (sync_usage_index), when the selection is a position again.
Rebuilt(items) ==
    LET l == SetApps(SetQuery(NewList(items), list.query), list.apps)
        kept == IF list.selected = 0 THEN l
                ELSE SelectByIdentity(l, Shown(list)[list.selected].of)
    IN  SetUsage(kept, usage)

\* Rows a list of commands may have: one arrival brings some of its extension's.
Offers(e) == LET own == {c \in Command : c[1] = e}
             IN  {s \in UNION {[1 .. n -> own] : n \in 0 .. Cardinality(own)} : NoRepeats(s)}

TypeOK ==
    /\ list.items \in Seq(Command) /\ NoRepeats(list.items)
    /\ list.query \in Query \cup {Blank} /\ list.apps \in {"always", "asked for", "never"}
    /\ list.fallback \in Seq(Row) /\ list.usage \in [Command -> 0 .. MaxUse]
    /\ list.selected \in 0 .. Len(Shown(list)) /\ (list.selected = 0 <=> Shown(list) = <<>>)
    /\ usage \in [Command -> 0 .. MaxUse] /\ list.usage = usage
    /\ ready \in Seq(Ext) /\ NoRepeats(ready)
    /\ arrived \in Seq(Command) /\ came \subseteq Ext /\ aggregating \in BOOLEAN
    /\ menu = NoMenu \/ (menu.at > 0 /\ menu.row \in Row)
    /\ frame \in {"drawn", "polled", "keyed"}
    /\ did \in {"nothing", "what was meant", "a namesake", "another row", "another text"}

Init ==
    /\ list = NewList(<<>>) /\ usage = [c \in Command |-> 0]
    /\ ready = <<>> /\ arrived = <<>> /\ came = {} /\ aggregating = TRUE
    /\ menu = NoMenu /\ frame = "drawn" /\ did = "nothing"

-----------------------------------------------------------------------------
(* Results.                                                                *)

Polling == frame \in {"drawn", "polled"} /\ frame' = "polled"

\* apply_aggregate_ext.
Arrive(e, brought) ==
    /\ Polling /\ aggregating /\ e \notin came
    /\ came' = came \cup {e} /\ arrived' = arrived \o brought
    /\ list' = Rebuilt(arrived')
    /\ UNCHANGED <<usage, ready, aggregating, menu, did>>

\* finish_aggregation.
Done ==
    /\ Polling /\ aggregating /\ came = Ext
    /\ aggregating' = FALSE /\ came' = {} /\ arrived' = <<>>
    /\ UNCHANGED <<list, usage, ready, menu, did>>

\* poll_fallback with its rerender_fallback.
TemplatesArrive(e) ==
    /\ Polling /\ ~aggregating /\ \A i \in DOMAIN ready : ready[i] # e
    /\ ready' = Append(ready, e)
    /\ list' = IF list.query = Blank \/ Visible(list) # <<>> THEN list
               ELSE SetFallback(list, [i \in DOMAIN ready' |->
                        [of |-> Offered(ready'[i]), offer |-> list.query]])
    /\ UNCHANGED <<usage, arrived, came, aggregating, menu, did>>

-----------------------------------------------------------------------------
(* Keys and pointer; an open menu has them all.                            *)

Keying == frame' = "keyed"

\* The arrows, Home, End, the page keys, and the pointer that moves.
Select(i) ==
    /\ Keying /\ menu = NoMenu /\ i \in DOMAIN Shown(list)
    /\ list' = [list EXCEPT !.selected = i]
    /\ UNCHANGED <<usage, ready, arrived, came, aggregating, menu, did>>

\* One more use of a command; only the commands of a list are sorted by it.
Counted(row) ==
    IF row.of \in Command /\ usage[row.of] < MaxUse
    THEN [usage EXCEPT ![row.of] = @ + 1] ELSE usage

\* record_usage, then sync_usage_index.
Recorded(row, l) ==
    usage' = Counted(row) /\ list' = SetUsage(l, usage')

\* confirm_selected: the row is counted, and runs with the text of the box.
Confirm ==
    /\ Keying /\ menu = NoMenu /\ list.selected # 0
    /\ LET row == Shown(list)[list.selected]
       IN  /\ Recorded(row, list)
           /\ did' = IF row.offer \in {Blank, list.query} THEN "what was meant" ELSE "another text"
    /\ UNCHANGED <<ready, arrived, came, aggregating, menu>>

\* open_ctx_menu, by key or pointer; the row is selected.
OpenMenu(i) ==
    /\ Keying /\ i \in DOMAIN Shown(list)
    /\ list' = [list EXCEPT !.selected = i]
    /\ menu' = [at |-> i, row |-> Shown(list)[i]]
    /\ UNCHANGED <<usage, ready, arrived, came, aggregating, did>>

\* What an entry of the menu acts on, for the row that is there now: an item of
\* another extension may have the id.
ActsOn(there) ==
    IF there.of = menu.row.of THEN "what was meant"
    ELSE IF there.of[2] = menu.row.of[2] THEN "a namesake" ELSE "another row"

ActivateAnyway(default) ==  \* mutant: the position alone is looked up
    /\ Keying /\ menu # NoMenu /\ menu' = NoMenu
    /\ LET there == Shown(list)[menu.at]
       IN  IF menu.at \in DOMAIN Shown(list)
           THEN /\ IF default THEN Recorded(there, [list EXCEPT !.selected = menu.at])
                   ELSE UNCHANGED <<list, usage>>
                /\ did' = ActsOn(there)
           ELSE UNCHANGED <<list, usage, did>>
    /\ UNCHANGED <<ready, arrived, came, aggregating>>

\* activate_ctx_menu: dropped unless the row at the position has the id still;
\* the command goes to the extension of the row that is there now.
Activate(default) ==
    /\ Keying /\ menu # NoMenu /\ menu' = NoMenu
    /\ LET there == Shown(list)[menu.at]
       IN  IF menu.at \in DOMAIN Shown(list) /\ there.of[2] = menu.row.of[2]
           THEN /\ IF default THEN Recorded(there, [list EXCEPT !.selected = menu.at])
                   ELSE UNCHANGED <<list, usage>>
                /\ did' = ActsOn(there)
           ELSE UNCHANGED <<list, usage, did>>
    /\ UNCHANGED <<ready, arrived, came, aggregating>>

\* hide, and show with reset_on_show.
HideAndShow ==
    /\ Keying /\ list' = Reset(list) /\ menu' = NoMenu
    /\ UNCHANGED <<usage, ready, arrived, came, aggregating, did>>

\* The settings: what is hidden, a new round (restart_aggregation, which drops
\* the templates), and reset_usage_data.
Settings ==
    /\ Keying /\ menu = NoMenu
    /\ \/ /\ \E apps \in {"always", "asked for", "never"} : list' = SetApps(list, apps)
          /\ UNCHANGED <<usage, ready, arrived, came, aggregating>>
       \/ /\ ready' = <<>> /\ arrived' = <<>> /\ came' = {} /\ aggregating' = TRUE
          /\ UNCHANGED <<list, usage>>
       \/ /\ usage' = NoUses /\ list' = SetUsage(list, usage')
          /\ UNCHANGED <<ready, arrived, came, aggregating>>
    /\ UNCHANGED <<menu, did>>

\* draw_panel: the text of the box, then sync_fallback.
Draw(q) ==
    /\ frame' = "drawn" /\ list' = Synced(SetQuery(list, q))
    /\ UNCHANGED <<usage, ready, arrived, came, aggregating, menu, did>>

Next ==
    \/ \E e \in Ext : TemplatesArrive(e) \/ \E brought \in Offers(e) : Arrive(e, brought)
    \/ Done
    \/ \E i \in 1 .. Cardinality(Command) : Select(i) \/ OpenMenu(i)
    \/ Confirm \/ HideAndShow \/ Settings
    \/ \E default \in BOOLEAN : Activate(default)
    \/ \E q \in Query \cup {Blank} : Draw(q)

Spec == Init /\ [][Next]_panelVars

-----------------------------------------------------------------------------
(* Properties.                                                             *)

\* Whatever round, text, count or offer changed the list since the menu was
\* opened, it acts on the row it was opened on or not at all; but where two
\* extensions give an item one id it may act on the item of the other one, which
\* has come to that place.
MenuActsOnItsRow ==
    /\ did # "another row"
    /\ did = "a namesake" => \E j, k \in Named : j # k /\ j[2] = k[2]

\* CtxMenuState says the id guards against a list that was refreshed under the
\* menu: it never acts on the item of another extension.
MenuNeverMeetsANamesake == did # "a namesake"

\* state.rs says the offers are rendered for the text of the box: an offer that
\* is taken runs with the text it shows.
OffersAreForTheText == did # "another text"

\* aggregate_job.rs says a growing list does not interrupt a selection: after an
\* arrival that has the selected row too, it is still the selected one.
ArrivalsKeepSelection ==
    [][\A e \in Ext : \A brought \in Offers(e) :
           Arrive(e, brought) /\ list.selected # 0 =>
               LET row == Shown(list)[list.selected]
               IN  (\E i \in DOMAIN Shown(list') : Shown(list')[i] = row) =>
                       Shown(list')[list'.selected] = row]_panelVars
=============================================================================
