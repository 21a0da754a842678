------------------------------ MODULE PageFlow ------------------------------
(***************************************************************************)
(* The pages of the panel (crates/dd-gui: navigation.rs, app/page.rs,      *)
(* app/refresh.rs): a stack with Root at the bottom, one request for the   *)
(* content of a page at a time, a debounce for what is typed into a page,  *)
(* and a window in which the changes an extension reports are merged.  All *)
(* pages belong to one extension, so every request competes for its client.*)
(***************************************************************************)
EXTENDS Naturals, Sequences

CONSTANTS
    Page,           \* pages an extension fills
    FilePage,       \* FILE_SEARCH_PAGE_ID, the page Ctrl+F opens
    Query,          \* what can be typed, the empty text aside
    MaxDepth        \* bound: pages on the stack

ASSUME PageAssumption ==
    /\ FilePage \in Page
    /\ {"root", "settings", "none", "top"} \cap Page = {}
    /\ {"", "none"} \cap Query = {}
    /\ MaxDepth \in Nat /\ MaxDepth >= 2

Text == Query \cup {""}

\* is_loading, told apart by who is at work: open_page, or the extension that
\* answered "still loading".
Loading == {"no", "fetch", "extension"}

PageState == [
    id : Page \cup {"root", "settings"},
    query : Text,                   \* the search box
    of : Text \cup {"none"},        \* the query the content answers
    filled : BOOLEAN,               \* the list has items
    loading : Loading,
    skeleton : BOOLEAN,             \* skeleton_after is set
    pending : BOOLEAN,              \* scroll_to_top_pending
    dirty : BOOLEAN,                \* history: changed since the last request
    missed : BOOLEAN]               \* history: a refetch it needs was dropped

Request == [page : Page, query : Text]

NoRequest == [page |-> "none", query |-> ""]

VARIABLES
    window,         \* "shown", or hidden; Show will "reset" or "keep" the pages
    stack,          \* PageStack, Root first
    request,        \* page_rx: the get_items under way
    debounce,       \* page_query_debounce is set
    refresh,        \* the pending RefreshState: a page, "top" or "none"
    aggregating

pageVars == <<window, stack, request,
              debounce, refresh, aggregating>>

TypeOK ==
    /\ window \in {"shown", "reset", "keep"}
    /\ stack \in Seq(PageState) /\ Len(stack) \in 1 .. MaxDepth
    /\ \A i \in 1 .. Len(stack) : (stack[i].id = "root") <=> (i = 1)
    /\ request \in Request \cup {NoRequest}
    /\ debounce \in BOOLEAN
    /\ refresh \in Page \cup {"top", "none"}
    /\ aggregating \in BOOLEAN

Current == stack[Len(stack)]

NewPage(id, query) ==
    [id |-> id, query |-> query, of |-> "none", filled |-> FALSE,
     loading |-> "no", skeleton |-> FALSE, pending |-> FALSE,
     dirty |-> FALSE, missed |-> FALSE]

\* The page shows what its box asks for, as of the last change.
Settled(page) ==
    page.of = page.query /\ ~page.dirty /\ page.loading # "fetch" /\ ~page.skeleton

RootPage(query) == [NewPage("root", query) EXCEPT !.filled = TRUE]

SetCurrent(page) == [stack EXCEPT ![Len(stack)] = page]

\* Where a page is on the stack: it may be there twice.
Copies(id) == {i \in 1 .. Len(stack) : stack[i].id = id}
Buried == 1 .. Len(stack) - 1

\* The history of a dropped refetch: the pages at the positions lost will not
\* be fetched by anything now pending.
MarkMissed(pages, lost) ==
    [i \in 1 .. Len(pages) |->
        IF i \in lost THEN [pages[i] EXCEPT !.missed = TRUE] ELSE pages[i]]

Init ==
    /\ window = "reset"
    /\ stack = <<RootPage("")>>
    /\ request = NoRequest
    /\ debounce = FALSE
    /\ refresh = "none"
    /\ aggregating = TRUE

-----------------------------------------------------------------------------
(* Requests.                                                               *)

\* dispatch_fetch_page for the page on top of pages.  It is refused while a
\* request or another call is under way, and when the extension is tripped or
\* gone; a refused page stops loading and nothing asks again.  A page whose own
\* request is under way is compared with its box when that one lands.
Dispatch(pages) ==
    LET top == Len(pages)
        page == pages[top]
        refused == [page EXCEPT
            !.skeleton = FALSE, !.loading = "no",
            !.missed = @ \/ page.dirty \/ request.page # page.id]
        sent == [page EXCEPT
            !.skeleton = ~page.filled, !.dirty = FALSE, !.missed = FALSE]
    IN  \/ /\ stack' = [pages EXCEPT ![top] = refused]
           /\ UNCHANGED request
        \/ /\ request = NoRequest
           /\ stack' = [pages EXCEPT ![top] = sent]
           /\ request' = [page |-> page.id, query |-> page.query]

\* The result of the request is for another page: it is thrown away.
Discard ==
    /\ stack' = MarkMissed(stack, Copies(request.page))
    /\ UNCHANGED debounce

IsStaleIfTyped(page, query) ==  \* mutant: only a box that was typed into
    page.pending /\ page.query # query /\ page.query # ""

\* landing_is_stale, and its sharper form for a page that owes a scroll.
IsStale(page, query) ==
    /\ page.query # query
    /\ page.query # "" \/ page.pending

\* A page that is on the stack twice: what lands goes to the upper copy.
Land(page) ==
    stack' = MarkMissed(SetCurrent(page), Copies(request.page) \cap Buried)

Content(still, some) ==
    [Current EXCEPT
        !.of = request.query, !.filled = some, !.skeleton = FALSE,
        !.loading = IF still THEN "extension" ELSE "no",
        !.pending = @ /\ still,
        !.missed = @ \/ (Current.query # request.query /\ ~debounce)]

LandOkSchedules ==      \* mutant: the debounce is asked for, not forced
    \/ /\ IsStale(Current, request.query)
       /\ debounce' = (debounce
                          \/ (Current.loading = "no" /\ ~aggregating))
       /\ Land([Current EXCEPT !.skeleton = ~Current.filled])
    \/ /\ ~IsStale(Current, request.query)
       /\ \E still, some \in BOOLEAN : Land(Content(still, some))
       /\ UNCHANGED debounce

\* A stale result is thrown away: begin_refetch, and the debounce is armed
\* again unless a round of aggregation runs.
LandOk ==
    \/ /\ IsStale(Current, request.query)
       /\ debounce' = (debounce \/ ~aggregating)
       /\ Land([Current EXCEPT !.skeleton = ~Current.filled,
                               !.missed = @ \/ ~debounce'])
    \/ /\ ~IsStale(Current, request.query)
       /\ \E still, some \in BOOLEAN : Land(Content(still, some))
       /\ UNCHANGED debounce

\* A failure empties the page; what was typed meanwhile is fetched later.
LandErr ==
    LET typed == Current.query # request.query
    IN  /\ debounce' = (debounce \/ (typed /\ ~aggregating))
        /\ Land([Current EXCEPT
                    !.of = request.query, !.filled = FALSE,
                    !.skeleton = FALSE, !.loading = "no",
                    !.pending = @ /\ typed,
                    !.missed = @ \/ (typed /\ ~debounce')])

\* poll_page, when the thread has sent its outcome.
Landing ==
    /\ window = "shown"
    /\ request # NoRequest
    /\ IF Current.id = request.page THEN LandOk \/ LandErr ELSE Discard
    /\ request' = NoRequest
    /\ UNCHANGED <<window, refresh, aggregating>>

\* poll_page, when the thread ended without an outcome: the receiver goes, and
\* the page that waits is left as it is.
Disconnected ==
    /\ window = "shown"
    /\ request # NoRequest
    /\ stack' = MarkMissed(stack, Copies(request.page))
    /\ request' = NoRequest
    /\ UNCHANGED <<window, debounce, refresh, aggregating>>

-----------------------------------------------------------------------------
(* What the user does.                                                     *)

\* A change of the search box.  Typing on a page arms the debounce, but not
\* while it loads ("compared when it lands") nor while a round runs.
TypeQuery(query) ==
    /\ window = "shown"
    /\ Current.id # "settings"
    /\ query # Current.query
    /\ IF Current.id = "root"
       THEN /\ stack' = SetCurrent([Current EXCEPT !.query = query])
            /\ UNCHANGED debounce
       ELSE /\ debounce' = (debounce
                              \/ (Current.loading = "no" /\ ~aggregating))
            /\ stack' = SetCurrent([Current EXCEPT
                            !.query = query, !.pending = TRUE,
                            !.missed = @ \/ (~debounce'
                                        /\ request.page # Current.id)])
    /\ UNCHANGED <<window, request,
                   refresh, aggregating>>

\* clear_current_query, one of the meanings of Esc.
ClearQuery ==
    /\ window = "shown"
    /\ Current.query # ""
    /\ IF Current.id = "root"
       THEN /\ stack' = SetCurrent([Current EXCEPT !.query = ""])
            /\ UNCHANGED debounce
       ELSE /\ debounce' = (debounce \/ ~aggregating)
            /\ stack' = SetCurrent([Current EXCEPT
                            !.query = "",
                            !.missed = @ \/ (~debounce'
                                        /\ request.page # Current.id)])
    /\ UNCHANGED <<window, request,
                   refresh, aggregating>>

\* open_page: the entry that was chosen brings the query along, an extension's
\* GoToPage does not.
OpenPage(id, query) ==
    /\ window = "shown"
    /\ Len(stack) < MaxDepth
    /\ query = "" \/ (query = Current.query /\ Current.filled)
    /\ Dispatch(Append(stack, [NewPage(id, query) EXCEPT !.loading = "fetch"]))
    /\ UNCHANGED <<window, debounce, refresh,
                   aggregating>>

\* open_file_search_from_panel: Ctrl+F leaves one page over Root.
OpenFileSearch ==
    /\ window = "shown"
    /\ Current.id # FilePage
    /\ LET query == IF Len(stack) = 1 THEN Current.query ELSE ""
       IN  Dispatch(<<stack[1], [NewPage(FilePage, query) EXCEPT
                                    !.loading = "fetch"]>>)
    /\ UNCHANGED <<window, debounce, refresh,
                   aggregating>>

OpenSettings ==
    /\ window = "shown"
    /\ Current.id # "settings"
    /\ Len(stack) < MaxDepth
    /\ stack' = Append(stack, NewPage("settings", ""))
    /\ UNCHANGED <<window, request,
                   debounce, refresh, aggregating>>

GoBackEmpties ==        \* mutant: Root is popped as well
    /\ window = "shown"
    /\ stack' = SubSeq(stack, 1, Len(stack) - 1)
    /\ UNCHANGED <<window, request, debounce, refresh, aggregating>>

GoBack ==
    /\ window = "shown"
    /\ Len(stack) > 1
    /\ stack' = SubSeq(stack, 1, Len(stack) - 1)
    /\ UNCHANGED <<window, request,
                   debounce, refresh, aggregating>>

GoHome ==
    /\ window = "shown"
    /\ stack' = <<stack[1]>>
    /\ UNCHANGED <<window, request,
                   debounce, refresh, aggregating>>

Emptied == <<[stack[1] EXCEPT !.query = ""]>>

\* hide, hide_keep_state (an extension's Hide) and dismiss.
Hide(next, dismissed) ==
    /\ window = "shown"
    /\ window' = next
    /\ stack' = IF dismissed THEN Emptied ELSE stack
    /\ UNCHANGED <<request, debounce, refresh,
                   aggregating>>

Show ==
    /\ window # "shown"
    /\ window' = "shown"
    /\ stack' = IF window = "reset" THEN Emptied ELSE stack
    /\ UNCHANGED <<request, debounce,
                   refresh, aggregating>>

-----------------------------------------------------------------------------
(* What extensions report, and the two timers.                             *)

\* poll_notifications: an items_changed for a page counts only for the page on
\* top, and only when no refresh is pending.
ItemsChanged(id) ==
    /\ window = "shown"
    /\ refresh' = IF refresh = "none" /\ Current.id = id THEN id ELSE refresh
    /\ LET changed == [i \in 1 .. Len(stack) |->
                         [stack[i] EXCEPT !.dirty = @ \/ i \in Copies(id)]]
       IN  stack' = MarkMissed(changed, IF refresh' = id THEN Copies(id) \cap Buried
                                                         ELSE Copies(id))
    /\ UNCHANGED <<window, request,
                   debounce, aggregating>>

\* One without a page makes whatever refresh is pending one of Root.
TopChanged ==
    /\ window = "shown"
    /\ refresh' = "top"
    /\ stack' = MarkMissed(stack, Copies(refresh))
    /\ UNCHANGED <<window, request, debounce, aggregating>>

\* tick_refresh, the window of a page: refetch_page_if_current.
PageRefreshDue ==
    /\ window = "shown"
    /\ refresh \in Page
    /\ refresh' = "none"
    /\ LET rest == MarkMissed(stack, Copies(refresh) \cap Buried)
       IN  IF Current.id = refresh
           THEN Dispatch(rest)
           ELSE /\ stack' = rest
                /\ UNCHANGED request
    /\ UNCHANGED <<window, debounce, aggregating>>

\* restart_aggregation forgets who is in flight, though not the request.
TopRefreshDue ==
    /\ window = "shown"
    /\ refresh = "top"
    /\ refresh' = "none"
    /\ aggregating' = TRUE
    /\ UNCHANGED <<window, stack, request, debounce>>

\* The settings page was left with changes that need a new round.
SettingsLeft ==
    /\ window = "shown"
    /\ Current.id # "settings"
    /\ aggregating' = TRUE
    /\ UNCHANGED <<window, stack, request, debounce,
                   refresh>>

DebounceDueIdle ==      \* mutant: a page that loads is left alone
    /\ window = "shown"
    /\ debounce
    /\ debounce' = FALSE
    /\ IF Current.id \in Page /\ Current.loading = "no"
       THEN Dispatch(stack)
       ELSE UNCHANGED <<stack, request>>
    /\ UNCHANGED <<window, refresh, aggregating>>

\* tick_refresh, the debounce: it belongs to whatever page is on top by then.
DebounceDue ==
    /\ window = "shown"
    /\ debounce
    /\ debounce' = FALSE
    /\ LET rest == MarkMissed(stack, {i \in Buried \ {1} : ~Settled(stack[i])})
       IN  IF Current.id \in Page
           THEN Dispatch(rest)
           ELSE /\ stack' = rest
                /\ UNCHANGED request
    /\ UNCHANGED <<window, refresh, aggregating>>

-----------------------------------------------------------------------------
(* Rounds of aggregation, as the pages see them.                           *)

\* rebuild_root_from_arrived: Root is replaced under whatever lies on it, and
\* takes the text of the page on top.
RootRebuilt ==
    /\ aggregating
    /\ stack' = [stack EXCEPT ![1] = RootPage(Current.query)]
    /\ UNCHANGED <<window, request,
                   debounce, refresh, aggregating>>

AggregationEnds ==
    /\ aggregating
    /\ aggregating' = FALSE
    /\ UNCHANGED <<window, stack, request,
                   debounce, refresh>>

Next ==
    \/ Landing
    \/ Disconnected
    \/ \E query \in Text : TypeQuery(query)
    \/ ClearQuery
    \/ \E id \in Page, query \in Text : OpenPage(id, query)
    \/ OpenFileSearch
    \/ OpenSettings
    \/ GoBack
    \/ GoHome
    \/ Hide("reset", TRUE) \/ Hide("reset", FALSE) \/ Hide("keep", FALSE)
    \/ Show
    \/ \E id \in Page : ItemsChanged(id)
    \/ TopChanged
    \/ PageRefreshDue
    \/ TopRefreshDue
    \/ SettingsLeft
    \/ DebounceDue
    \/ RootRebuilt
    \/ AggregationEnds

PageSafe == Init /\ [][Next]_pageVars

\* Threads end, with an outcome or without (every call has a timeout), and the frames of a visible panel
\* poll their channels and look at their timers.
Fairness ==
    /\ WF_pageVars(Landing \/ Disconnected)
    /\ WF_pageVars(PageRefreshDue \/ TopRefreshDue)
    /\ WF_pageVars(DebounceDue)
    /\ WF_pageVars(AggregationEnds)

PageSpec == PageSafe /\ Fairness

-----------------------------------------------------------------------------
AsksFor(page) == request.page = page.id \/ debounce \/ refresh = page.id

\* The page on top never waits in vain: what it shows answers its search box
\* and every reported change, or its content is being fetched or a timer will
\* fetch it, unless one of the steps that drop a refetch for good (a refused
\* dispatch, a result thrown away, a thread that ended without one, a timer used
\* up by another page, a change merged away, a debounce refused during a round)
\* happened since.
NothingForgotten ==
    Current.id \in Page =>
        \/ Settled(Current)
        \/ AsksFor(Current)
        \/ Current.missed

\* Content that lands answers the text in the box, or the box is empty: what
\* was found for an earlier text never comes up under a later one.
LandsForTheBox ==
    [][\A i \in 1 .. Len(stack) :
         (/\ i <= Len(stack')
          /\ stack'[i].id = stack[i].id
          /\ stack'[i].of # stack[i].of
          /\ stack'[i].of # "none"
          /\ stack'[i].filled)
           => stack'[i].query \in {"", stack'[i].of}]_pageVars

\* A page the user leaves alone ends up with the content of its search box,
\* unless a refetch was dropped on the way.
QuietPageSettles ==
    \A id \in Page, query \in Text :
        <>[](/\ window = "shown"
             /\ Current.id = id
             /\ Current.query = query
             /\ ~Current.missed)
          => <>[](Current.of = query)

\* navigation.rs says of is_loading that the page is being fetched: a page in
\* that state has a request under way, or a timer that will make one.
LoadingIsFetching == Current.loading = "fetch" => AsksFor(Current)
=============================================================================
