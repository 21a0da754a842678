--------------------------- MODULE PageFlowProofs ---------------------------
(***************************************************************************)
(* Proofs about PageFlow, for every set of pages and queries and every     *)
(* depth of the stack: the state is well formed, no page waits in vain,    *)
(* and what lands answers the search box.                                  *)
(***************************************************************************)
EXTENDS PageFlow, TLAPS

\* What TypeOK says of the stack, of any stack.
StackType(pages) ==
    /\ pages \in Seq(PageState) /\ Len(pages) \in 1 .. MaxDepth
    /\ \A i \in 1 .. Len(pages) : (pages[i].id = "root") <=> (i = 1)

-----------------------------------------------------------------------------
(* Operators on stacks.                                                    *)

\* MarkMissed changes one history field of some pages.
LEMMA MarkedShape ==
    ASSUME NEW pages \in Seq(PageState), NEW lost
    PROVE  /\ MarkMissed(pages, lost) \in Seq(PageState)
           /\ Len(MarkMissed(pages, lost)) = Len(pages)
           /\ \A i \in 1 .. Len(pages) :
                MarkMissed(pages, lost)[i] =
                    IF i \in lost THEN [pages[i] EXCEPT !.missed = TRUE] ELSE pages[i]
<1> DEFINE marked == MarkMissed(pages, lost)
<1>1. \A i \in 1 .. Len(pages) : pages[i] \in PageState
  OBVIOUS
<1>2. \A p \in PageState : [p EXCEPT !.missed = TRUE] \in PageState
  BY DEF PageState
<1>3. \A i \in 1 .. Len(pages) :
        (IF i \in lost THEN [pages[i] EXCEPT !.missed = TRUE] ELSE pages[i]) \in PageState
  BY <1>1, <1>2
<1>4. marked = [i \in 1 .. Len(pages) |->
                  IF i \in lost THEN [pages[i] EXCEPT !.missed = TRUE] ELSE pages[i]]
  BY DEF MarkMissed
<1>5. Len(pages) \in Nat
  OBVIOUS
<1> HIDE DEF marked
<1>6. marked \in Seq(PageState) /\ Len(marked) = Len(pages)
  BY <1>3, <1>4, <1>5
<1>7. \A i \in 1 .. Len(pages) :
        marked[i] = IF i \in lost THEN [pages[i] EXCEPT !.missed = TRUE] ELSE pages[i]
  BY <1>4
<1> QED
  BY <1>6, <1>7 DEF marked

\* The page on top is replaced by one in its place.
LEMMA TopShape ==
    ASSUME NEW pages, StackType(pages),
           NEW page \in PageState, page.id = pages[Len(pages)].id
    PROVE  /\ StackType([pages EXCEPT ![Len(pages)] = page])
           /\ Len([pages EXCEPT ![Len(pages)] = page]) = Len(pages)
           /\ \A i \in 1 .. Len(pages) : [pages EXCEPT ![Len(pages)] = page][i]
                                           = IF i = Len(pages) THEN page ELSE pages[i]
  BY DEF StackType

-----------------------------------------------------------------------------
(* The invariant: NothingForgotten for every page on the stack, with what a  *)
(* landing needs to know, that a change which no refresh will fetch is noted *)
(* as missed.                                                                *)

\* A page of an extension with request r, debounce d and refresh f pending.
Tended(page, r, d, f) ==
    page.id \in Page =>
        /\ Settled(page) \/ r = page.id \/ d \/ f = page.id \/ page.missed
        /\ page.dirty => f = page.id \/ page.missed

AllTended(pages, r, d, f) == \A i \in 1 .. Len(pages) : Tended(pages[i], r, d, f)

IInv == TypeOK /\ AllTended(stack, request.page, debounce, refresh)

\* TypeOK in the words of the lemmas.
LEMMA TypeSplit ==
    TypeOK <=> /\ window \in {"shown", "reset", "keep"}
               /\ StackType(stack)
               /\ request \in Request \cup {NoRequest}
               /\ debounce \in BOOLEAN
               /\ refresh \in Page \cup {"top", "none"}
               /\ aggregating \in BOOLEAN
  BY DEF TypeOK, StackType

\* What is not the id of an extension's page.
LEMMA Names == \A name \in {"root", "settings", "none", "top"} : name \notin Page
<1>1. {"root", "settings", "none", "top"} \cap Page = {}
  BY PageAssumption
<1> QED
  BY <1>1

\* Root and a page over it fit.
LEMMA Depth == MaxDepth \in Nat /\ MaxDepth >= 2
  BY PageAssumption

\* The page on top is a page, and a page of an extension lies above Root.
LEMMA CurrentShape ==
    ASSUME StackType(stack)
    PROVE  /\ Current \in PageState
           /\ Len(stack) \in Nat /\ Len(stack) >= 1
           /\ \A i \in 1 .. Len(stack) : stack[i] \in PageState
           /\ stack[1].id \notin Page
           /\ Current.id \in Page => Len(stack) > 1
<1>1. stack \in Seq(PageState) /\ Len(stack) \in Nat /\ Len(stack) >= 1
  <2>1. stack \in Seq(PageState) /\ Len(stack) \in 1 .. MaxDepth /\ MaxDepth \in Nat
    BY PageAssumption DEF StackType
  <2> QED BY <2>1
<1>2. stack[1].id = "root"
  BY <1>1 DEF StackType
<1>3. stack[1].id \notin Page
  BY <1>2, Names
<1> QED
  BY <1>1, <1>3 DEF Current

\* A request is for a page, or there is none.
LEMMA RequestShape ==
    ASSUME request \in Request \cup {NoRequest}
    PROVE  /\ request = NoRequest => request.page \notin Page
           /\ request # NoRequest => request.page \in Page /\ request.query \in Text
<1>1. NoRequest.page \notin Page
  BY Names DEF NoRequest
<1>2. request \in Request => request.page \in Page /\ request.query \in Text
  BY DEF Request
<1> QED
  BY <1>1, <1>2

\* Marking pages keeps those tended that were, and tends those it marks.
LEMMA MarkedTended ==
    ASSUME NEW pages, StackType(pages), NEW lost, NEW r, NEW d, NEW f,
           \A i \in 1 .. Len(pages) : i \in lost \/ Tended(pages[i], r, d, f)
    PROVE  /\ StackType(MarkMissed(pages, lost))
           /\ AllTended(MarkMissed(pages, lost), r, d, f)
<1> DEFINE marked == MarkMissed(pages, lost)
<1>1. /\ marked \in Seq(PageState) /\ Len(marked) = Len(pages)
      /\ \A i \in 1 .. Len(pages) : marked[i] =
            IF i \in lost THEN [pages[i] EXCEPT !.missed = TRUE] ELSE pages[i]
  BY MarkedShape DEF StackType
<1>2. \A i \in 1 .. Len(pages) : pages[i] \in PageState
  BY DEF StackType
<1> HIDE DEF marked
<1>3. ASSUME NEW i \in 1 .. Len(pages)
      PROVE  marked[i].id = pages[i].id /\ Tended(marked[i], r, d, f)
  <2>1. CASE i \in lost
    <3>1. marked[i] = [pages[i] EXCEPT !.missed = TRUE]
      BY <1>1, <2>1
    <3>2. marked[i].id = pages[i].id /\ marked[i].missed
      BY <1>2, <3>1 DEF PageState
    <3> QED BY <3>2 DEF Tended
  <2>2. CASE i \notin lost
    BY <1>1, <2>2
  <2> QED BY <2>1, <2>2
<1>4. StackType(marked)
  BY <1>1, <1>3 DEF StackType
<1>5. AllTended(marked, r, d, f)
  BY <1>1, <1>3 DEF AllTended
<1> QED
  BY <1>4, <1>5 DEF marked

\* dispatch_fetch_page: the page on top is asked for or has missed something;
\* the request it makes was not there before.
LEMMA DispatchTended ==
    ASSUME NEW pages, StackType(pages), NEW d, NEW f,
           request \in Request \cup {NoRequest},
           pages[Len(pages)].id \in Page,
           \A i \in 1 .. Len(pages) - 1 : Tended(pages[i], request.page, d, f),
           Dispatch(pages)
    PROVE  /\ StackType(stack')
           /\ request' \in Request \cup {NoRequest}
           /\ AllTended(stack', request'.page, d, f)
<1> DEFINE top == Len(pages)
           page == pages[top]
           refused == [page EXCEPT
               !.skeleton = FALSE, !.loading = "no",
               !.missed = @ \/ page.dirty \/ request.page # page.id]
           sent == [page EXCEPT
               !.skeleton = ~page.filled, !.dirty = FALSE, !.missed = FALSE]
<1>1. page \in PageState /\ top \in 1 .. MaxDepth /\ page.id \in Page
  BY DEF StackType
<1>2. CASE stack' = [pages EXCEPT ![top] = refused] /\ UNCHANGED request
  <2>1. refused \in PageState /\ refused.id = page.id
    BY <1>1 DEF PageState, Loading
  <2>2. Tended(refused, request.page, d, f)
    BY <1>1 DEF PageState, Tended
  <2> HIDE DEF refused, page
  <2>3. /\ StackType(stack') /\ Len(stack') = Len(pages)
        /\ \A i \in 1 .. Len(pages) : stack'[i] = IF i = top THEN refused ELSE pages[i]
    BY TopShape, <1>2, <2>1 DEF page
  <2> HIDE DEF top
  <2>4. AllTended(stack', request.page, d, f)
    BY <2>2, <2>3, <1>1 DEF AllTended, top
  <2> QED BY <1>2, <2>3, <2>4
<1>3. CASE /\ request = NoRequest
           /\ stack' = [pages EXCEPT ![top] = sent]
           /\ request' = [page |-> page.id, query |-> page.query]
  <2>1. sent \in PageState /\ sent.id = page.id /\ ~sent.dirty
    BY <1>1 DEF PageState
  <2>2. request' \in Request /\ request'.page = page.id
    BY <1>1, <1>3 DEF Request, PageState
  <2>3. Tended(sent, request'.page, d, f)
    BY <2>1, <2>2 DEF Tended
  <2> HIDE DEF sent, page
  <2>4. /\ StackType(stack') /\ Len(stack') = Len(pages)
        /\ \A i \in 1 .. Len(pages) : stack'[i] = IF i = top THEN sent ELSE pages[i]
    BY TopShape, <1>3, <2>1 DEF page
  <2>5. \A i \in 1 .. Len(pages) - 1 : Tended(pages[i], request'.page, d, f)
    BY <1>3, RequestShape DEF Tended
  <2> HIDE DEF top
  <2>6. AllTended(stack', request'.page, d, f)
    BY <2>3, <2>4, <2>5, <1>1 DEF AllTended, top
  <2> QED BY <2>2, <2>4, <2>6
<1> QED
  BY <1>2, <1>3 DEF Dispatch

\* What lands is tended when the page on top is: its copies are marked.
LEMMA LandTended ==
    ASSUME StackType(stack), request \in Request, Current.id = request.page,
           AllTended(stack, request.page, debounce, refresh),
           NEW page \in PageState, page.id = Current.id,
           NEW d, debounce => d, Tended(page, "none", d, refresh),
           Land(page)
    PROVE  /\ StackType(stack')
           /\ AllTended(stack', "none", d, refresh)
<1> DEFINE pages == SetCurrent(page)
           lost == Copies(request.page) \cap Buried
<1>1. /\ StackType(pages) /\ Len(pages) = Len(stack)
      /\ \A i \in 1 .. Len(stack) : pages[i] = IF i = Len(stack) THEN page ELSE stack[i]
  BY TopShape DEF SetCurrent, Current
<1>2. Len(stack) \in Nat
  BY CurrentShape
<1>3. \A i \in 1 .. Len(pages) : i \in lost \/ Tended(pages[i], "none", d, refresh)
  <2> SUFFICES ASSUME NEW i \in 1 .. Len(stack), i \notin lost
               PROVE  Tended(pages[i], "none", d, refresh)
    BY <1>1
  <2> HIDE DEF pages
  <2>1. CASE i = Len(stack)
    BY <1>1, <2>1
  <2>2. CASE i # Len(stack)
    <3>1. stack[i].id # request.page /\ pages[i] = stack[i]
      BY <1>1, <1>2, <2>2 DEF Copies, Buried
    <3>2. Tended(stack[i], request.page, debounce, refresh)
      BY DEF AllTended
    <3> QED BY <3>1, <3>2 DEF Tended
  <2> QED BY <2>1, <2>2
<1>4. stack' = MarkMissed(pages, lost)
  BY DEF Land
<1> HIDE DEF pages, lost
<1> QED
  BY <1>1, <1>3, <1>4, MarkedTended

\* The page on top is replaced by one that is tended.
LEMMA SetCurrentTended ==
    ASSUME StackType(stack),
           NEW page \in PageState, page.id = Current.id,
           NEW r, NEW d, NEW f,
           \A i \in 1 .. Len(stack) - 1 : Tended(stack[i], r, d, f),
           Tended(page, r, d, f)
    PROVE  /\ StackType(SetCurrent(page))
           /\ AllTended(SetCurrent(page), r, d, f)
<1> DEFINE pages == SetCurrent(page)
<1>1. /\ StackType(pages) /\ Len(pages) = Len(stack)
      /\ \A i \in 1 .. Len(stack) : pages[i] = IF i = Len(stack) THEN page ELSE stack[i]
  BY TopShape DEF SetCurrent, Current
<1>2. Len(stack) \in Nat
  BY CurrentShape
<1> HIDE DEF pages
<1>3. AllTended(pages, r, d, f)
  BY <1>1, <1>2 DEF AllTended
<1> QED
  BY <1>1, <1>3 DEF pages

\* Root alone.
LEMMA RootAlone ==
    ASSUME NEW page \in PageState, page.id = "root", NEW r, NEW d, NEW f
    PROVE  StackType(<<page>>) /\ AllTended(<<page>>, r, d, f)
<1>1. StackType(<<page>>)
  <2>1. <<page>> \in Seq(PageState) /\ Len(<<page>>) = 1 /\ <<page>>[1] = page
    OBVIOUS
  <2>2. 1 \in 1 .. MaxDepth
    BY Depth
  <2> QED BY <2>1, <2>2 DEF StackType
<1>2. AllTended(<<page>>, r, d, f)
  BY Names DEF AllTended, Tended
<1> QED
  BY <1>1, <1>2

\* A new page on top of others.
LEMMA PushShape ==
    ASSUME StackType(stack), Len(stack) < MaxDepth,
           NEW page \in PageState, page.id # "root"
    PROVE  /\ StackType(Append(stack, page))
           /\ Len(Append(stack, page)) = Len(stack) + 1
           /\ Append(stack, page)[Len(stack) + 1] = page
           /\ \A i \in 1 .. Len(stack) : Append(stack, page)[i] = stack[i]
<1>1. stack \in Seq(PageState) /\ Len(stack) \in Nat /\ Len(stack) >= 1 /\ MaxDepth \in Nat
  BY PageAssumption, CurrentShape DEF StackType
<1> DEFINE pages == Append(stack, page)
<1>2. /\ pages \in Seq(PageState) /\ Len(pages) = Len(stack) + 1
      /\ pages[Len(stack) + 1] = page
      /\ \A i \in 1 .. Len(stack) : pages[i] = stack[i]
  BY <1>1
<1> HIDE DEF pages
<1>3. StackType(pages)
  BY <1>1, <1>2 DEF StackType
<1> QED
  BY <1>2, <1>3 DEF pages

\* Pages above are taken away.
LEMMA PopShape ==
    ASSUME StackType(stack), Len(stack) > 1, NEW r, NEW d, NEW f, AllTended(stack, r, d, f)
    PROVE  /\ StackType(SubSeq(stack, 1, Len(stack) - 1))
           /\ AllTended(SubSeq(stack, 1, Len(stack) - 1), r, d, f)
<1>1. stack \in Seq(PageState) /\ Len(stack) \in Nat /\ Len(stack) <= MaxDepth /\ MaxDepth \in Nat
  <2>1. Len(stack) \in 1 .. MaxDepth /\ MaxDepth \in Nat /\ stack \in Seq(PageState)
    BY PageAssumption DEF StackType
  <2> QED BY <2>1
<1> DEFINE pages == SubSeq(stack, 1, Len(stack) - 1)
<1>2. /\ pages \in Seq(PageState) /\ Len(pages) = Len(stack) - 1
      /\ \A i \in 1 .. Len(stack) - 1 : pages[i] = stack[i]
  BY <1>1
<1> HIDE DEF pages
<1>3. StackType(pages)
  BY <1>1, <1>2 DEF StackType
<1>4. AllTended(pages, r, d, f)
  BY <1>1, <1>2 DEF AllTended
<1> QED
  BY <1>3, <1>4 DEF pages

\* NewPage makes a page.
LEMMA NewPageType ==
    ASSUME NEW id \in Page \cup {"root", "settings"}, NEW query \in Text
    PROVE  /\ NewPage(id, query) \in PageState /\ NewPage(id, query).id = id
           /\ [NewPage(id, query) EXCEPT !.loading = "fetch"] \in PageState
           /\ [NewPage(id, query) EXCEPT !.loading = "fetch"].id = id
           /\ RootPage(query) \in PageState /\ RootPage(query).id = "root"
  BY DEF NewPage, RootPage, PageState, Loading

-----------------------------------------------------------------------------
(* The handlers.                                                           *)

Tends == StackType(stack') /\ AllTended(stack', request'.page, debounce', refresh')

\* poll_page.
LEMMA LandingTends ==
    ASSUME IInv, Landing
    PROVE  Tends /\ request' = NoRequest /\ debounce' \in BOOLEAN
<1>1. /\ StackType(stack) /\ request \in Request /\ request.page \in Page
      /\ request.query \in Text /\ debounce \in BOOLEAN /\ aggregating \in BOOLEAN
      /\ request' = NoRequest /\ UNCHANGED refresh
      /\ AllTended(stack, request.page, debounce, refresh)
  BY TypeSplit, RequestShape DEF IInv, Landing
<1>2. NoRequest.page = "none"
  BY DEF NoRequest
<1>3. /\ Current \in PageState /\ Len(stack) >= 1 /\ Len(stack) \in Nat
      /\ Current = stack[Len(stack)]
  BY <1>1, CurrentShape DEF Current
<1>4. Tended(Current, request.page, debounce, refresh)
  BY <1>1, <1>3 DEF AllTended
<1>5. CASE Current.id # request.page /\ Discard
  <2>1. \A i \in 1 .. Len(stack) :
            i \in Copies(request.page) \/ Tended(stack[i], "none", debounce, refresh)
    BY <1>1 DEF AllTended, Tended, Copies
  <2>2. stack' = MarkMissed(stack, Copies(request.page)) /\ UNCHANGED debounce
    BY <1>5 DEF Discard
  <2>3. StackType(stack') /\ AllTended(stack', "none", debounce, refresh)
    BY <1>1, <2>1, <2>2, MarkedTended
  <2> QED BY <1>1, <1>2, <2>2, <2>3 DEF Tends
<1>6. ASSUME Current.id = request.page, NEW page \in PageState, page.id = Current.id,
             debounce' \in BOOLEAN, debounce => debounce',
             Tended(page, "none", debounce', refresh), Land(page)
      PROVE  Tends
  BY <1>1, <1>2, <1>6, LandTended DEF Tends
<1>7. CASE Current.id = request.page /\ IsStale(Current, request.query) /\ LandOk
  <2> DEFINE page == [Current EXCEPT !.skeleton = ~Current.filled,
                                     !.missed = @ \/ ~debounce']
  <2>1. debounce' = (debounce \/ ~aggregating) /\ Land(page)
    BY <1>7 DEF LandOk
  <2>2. page \in PageState /\ page.id = Current.id
    BY <1>3, <1>1, <2>1 DEF PageState
  <2>3. Tended(page, "none", debounce', refresh)
    BY <1>3, <1>4, <1>1, <2>1 DEF Tended, PageState
  <2> QED BY <1>1, <1>6, <1>7, <2>1, <2>2, <2>3
<1>8. CASE Current.id = request.page /\ ~IsStale(Current, request.query) /\ LandOk
  <2>1. PICK still \in BOOLEAN, some \in BOOLEAN : Land(Content(still, some))
    BY <1>8 DEF LandOk
  <2>2. UNCHANGED debounce
    BY <1>8 DEF LandOk
  <2> DEFINE page == Content(still, some)
  <2>3. page \in PageState /\ page.id = Current.id
    <3> DEFINE word == IF still THEN "extension" ELSE "no"
               missed == Current.missed \/ (Current.query # request.query /\ ~debounce)
               pending == Current.pending /\ still
    <3>1. word \in Loading /\ missed \in BOOLEAN /\ pending \in BOOLEAN
      BY <1>1, <1>3 DEF Loading, PageState
    <3>2. page = [Current EXCEPT
                    !.of = request.query, !.filled = some, !.skeleton = FALSE,
                    !.loading = word, !.pending = pending, !.missed = missed]
      BY Zenon DEF Content
    <3> HIDE DEF word, missed, pending, page
    <3> QED BY <1>1, <1>3, <3>1, <3>2 DEF PageState
  <2>4. Tended(page, "none", debounce, refresh)
    BY <1>3, <1>4, <1>1 DEF Tended, PageState, Content, Settled
  <2> QED BY <1>1, <1>6, <1>8, <2>1, <2>2, <2>3, <2>4
<1>9. CASE Current.id = request.page /\ LandErr
  <2> DEFINE typed == Current.query # request.query
             page == [Current EXCEPT
                        !.of = request.query, !.filled = FALSE,
                        !.skeleton = FALSE, !.loading = "no",
                        !.pending = @ /\ typed,
                        !.missed = @ \/ (typed /\ ~debounce')]
  <2>1. debounce' = (debounce \/ (typed /\ ~aggregating)) /\ Land(page)
    BY <1>9 DEF LandErr
  <2>2. page \in PageState /\ page.id = Current.id
    BY <1>3, <1>1, <2>1 DEF PageState, Loading
  <2>3. Tended(page, "none", debounce', refresh)
    BY <1>3, <1>4, <1>1, <2>1 DEF Tended, PageState, Settled
  <2> QED BY <1>1, <1>6, <1>9, <2>1, <2>2, <2>3
<1> QED
  BY <1>1, <1>5, <1>7, <1>8, <1>9 DEF Landing, Discard, LandOk, LandErr

\* What every handler may take for granted.
LEMMA Facts ==
    ASSUME IInv
    PROVE  /\ StackType(stack) /\ AllTended(stack, request.page, debounce, refresh)
           /\ request \in Request \cup {NoRequest}
           /\ debounce \in BOOLEAN /\ aggregating \in BOOLEAN
           /\ refresh \in Page \cup {"top", "none"}
           /\ Current \in PageState /\ Current = stack[Len(stack)]
           /\ Len(stack) \in Nat /\ Len(stack) >= 1
           /\ \A i \in 1 .. Len(stack) :
                stack[i] \in PageState /\ Tended(stack[i], request.page, debounce, refresh)
  BY TypeSplit, CurrentShape DEF IInv, AllTended, Current

\* The handlers of the search box.
LEMMA TypingTends ==
    ASSUME IInv, NEW query \in Text, TypeQuery(query) \/ ClearQuery
    PROVE  Tends /\ debounce' \in BOOLEAN /\ UNCHANGED <<window, request, refresh, aggregating>>
<1>1. ASSUME NEW page \in PageState, page.id = Current.id, stack' = SetCurrent(page),
             UNCHANGED <<request, refresh>>, debounce => debounce',
             Tended(page, request.page, debounce', refresh)
      PROVE  Tends
  <2>1. \A i \in 1 .. Len(stack) - 1 : Tended(stack[i], request.page, debounce', refresh)
    BY <1>1, Facts DEF Tended
  <2> QED BY <1>1, <2>1, Facts, SetCurrentTended DEF Tends
<1>2. Tended(Current, request.page, debounce, refresh)
  BY Facts
<1>3. CASE TypeQuery(query)
  <2>1. UNCHANGED <<window, request, refresh, aggregating>>
    BY <1>3 DEF TypeQuery
  <2>2. CASE Current.id = "root"
    <3> DEFINE page == [Current EXCEPT !.query = query]
    <3>1. stack' = SetCurrent(page) /\ UNCHANGED debounce
      BY <1>3, <2>2 DEF TypeQuery
    <3>2. page \in PageState /\ page.id = Current.id
      BY Facts DEF PageState
    <3>3. Tended(page, request.page, debounce', refresh)
      BY <2>2, <3>2, Names DEF Tended
    <3> QED BY <1>1, <2>1, <3>1, <3>2, <3>3, Facts
  <2>3. CASE Current.id # "root"
    <3> DEFINE page == [Current EXCEPT
                            !.query = query, !.pending = TRUE,
                            !.missed = @ \/ (~debounce'
                                        /\ request.page # Current.id)]
    <3>1. /\ stack' = SetCurrent(page)
          /\ debounce' = (debounce \/ (Current.loading = "no" /\ ~aggregating))
      BY <1>3, <2>3 DEF TypeQuery
    <3>2. page \in PageState /\ page.id = Current.id
      BY <3>1, Facts DEF PageState
    <3>3. Tended(page, request.page, debounce', refresh)
      BY <1>2, <3>1, Facts DEF Tended, PageState
    <3> QED BY <1>1, <2>1, <3>1, <3>2, <3>3, Facts
  <2> QED BY <2>2, <2>3
<1>4. CASE ClearQuery
  <2>1. UNCHANGED <<window, request, refresh, aggregating>>
    BY <1>4 DEF ClearQuery
  <2>2. CASE Current.id = "root"
    <3> DEFINE page == [Current EXCEPT !.query = ""]
    <3>1. stack' = SetCurrent(page) /\ UNCHANGED debounce
      BY <1>4, <2>2 DEF ClearQuery
    <3>2. page \in PageState /\ page.id = Current.id
      BY Facts DEF PageState, Text
    <3>3. Tended(page, request.page, debounce', refresh)
      BY <2>2, <3>2, Names DEF Tended
    <3> QED BY <1>1, <2>1, <3>1, <3>2, <3>3, Facts
  <2>3. CASE Current.id # "root"
    <3> DEFINE page == [Current EXCEPT
                            !.query = "",
                            !.missed = @ \/ (~debounce'
                                        /\ request.page # Current.id)]
    <3>1. stack' = SetCurrent(page) /\ debounce' = (debounce \/ ~aggregating)
      BY <1>4, <2>3 DEF ClearQuery
    <3>2. page \in PageState /\ page.id = Current.id
      BY <3>1, Facts DEF PageState, Text
    <3>3. Tended(page, request.page, debounce', refresh)
      BY <1>2, <3>1, Facts DEF Tended, PageState
    <3> QED BY <1>1, <2>1, <3>1, <3>2, <3>3, Facts
  <2> QED BY <2>2, <2>3
<1> QED
  BY <1>3, <1>4

\* open_page, and the page Ctrl+F opens.
LEMMA OpeningTends ==
    ASSUME IInv, NEW id \in Page, NEW query \in Text, OpenPage(id, query) \/ OpenFileSearch
    PROVE  /\ Tends /\ request' \in Request \cup {NoRequest}
           /\ UNCHANGED <<window, debounce, refresh, aggregating>>
<1>1. CASE OpenPage(id, query)
  <2> DEFINE page == [NewPage(id, query) EXCEPT !.loading = "fetch"]
             pages == Append(stack, page)
  <2>1. page \in PageState /\ page.id = id /\ id # "root"
    BY NewPageType, Names
  <2>2. Dispatch(pages) /\ Len(stack) < MaxDepth
    BY <1>1 DEF OpenPage
  <2> HIDE DEF page
  <2>3. /\ StackType(pages) /\ Len(pages) = Len(stack) + 1 /\ pages[Len(stack) + 1] = page
        /\ \A i \in 1 .. Len(stack) : pages[i] = stack[i]
    BY <2>1, <2>2, PushShape, Facts
  <2> HIDE DEF pages
  <2>4. pages[Len(pages)].id \in Page
    BY <2>1, <2>3, Facts
  <2>5. \A i \in 1 .. Len(pages) - 1 : Tended(pages[i], request.page, debounce, refresh)
    BY <2>3, Facts
  <2>6. UNCHANGED <<window, debounce, refresh, aggregating>>
    BY <1>1 DEF OpenPage
  <2> QED BY <2>2, <2>3, <2>4, <2>5, <2>6, DispatchTended, Facts DEF Tends
<1>2. CASE OpenFileSearch
  <2> DEFINE text == IF Len(stack) = 1 THEN Current.query ELSE ""
             page == [NewPage(FilePage, text) EXCEPT !.loading = "fetch"]
             pages == <<stack[1], page>>
  <2>1. FilePage \in Page /\ FilePage # "root" /\ text \in Text
    BY Facts, Names, PageAssumption DEF PageState, Text
  <2>2. Dispatch(pages) /\ UNCHANGED <<window, debounce, refresh, aggregating>>
    BY <1>2 DEF OpenFileSearch
  <2> HIDE DEF text
  <2>3. page \in PageState /\ page.id = FilePage
    BY <2>1, NewPageType
  <2> HIDE DEF page
  <2>4. stack[1] \in PageState /\ stack[1].id = "root"
    BY Facts DEF StackType
  <2>5. /\ pages \in Seq(PageState) /\ Len(pages) = 2
        /\ pages[1] = stack[1] /\ pages[2] = page
    BY <2>3, <2>4
  <2> HIDE DEF pages
  <2>6. StackType(pages)
    BY <2>1, <2>3, <2>4, <2>5, Depth DEF StackType
  <2>7. \A i \in 1 .. Len(pages) - 1 : Tended(pages[i], request.page, debounce, refresh)
    BY <2>5, Facts
  <2>8. pages[Len(pages)].id \in Page
    BY <2>1, <2>3, <2>5
  <2> QED BY <2>2, <2>6, <2>7, <2>8, DispatchTended, Facts DEF Tends
<1> QED
  BY <1>1, <1>2

\* Pages pushed and popped without a request, and the window.
LEMMA MovingTends ==
    ASSUME IInv,
           \/ OpenSettings \/ GoBack \/ GoHome \/ Show
           \/ Hide("reset", TRUE) \/ Hide("reset", FALSE) \/ Hide("keep", FALSE)
    PROVE  Tends /\ UNCHANGED <<request, debounce, refresh, aggregating>>
<1>1. UNCHANGED <<request, debounce, refresh, aggregating>>
  BY DEF OpenSettings, GoBack, GoHome, Show, Hide
<1>2. stack[1] \in PageState /\ stack[1].id = "root"
  BY Facts DEF StackType
<1>3. ASSUME stack' = Emptied PROVE Tends
  <2> DEFINE page == [stack[1] EXCEPT !.query = ""]
  <2>1. page \in PageState /\ page.id = "root"
    BY <1>2 DEF PageState, Text
  <2>2. stack' = <<page>>
    BY <1>3 DEF Emptied
  <2> HIDE DEF page
  <2> QED BY <1>1, <2>1, <2>2, RootAlone DEF Tends
<1>4. ASSUME UNCHANGED stack PROVE Tends
  BY <1>1, <1>4, Facts DEF Tends
<1>5. CASE OpenSettings
  <2> DEFINE page == NewPage("settings", "")
             pages == Append(stack, page)
  <2>1. page \in PageState /\ page.id = "settings"
    BY NewPageType DEF Text
  <2>2. stack' = pages /\ Len(stack) < MaxDepth
    BY <1>5 DEF OpenSettings
  <2> HIDE DEF page
  <2>3. /\ StackType(pages) /\ Len(pages) = Len(stack) + 1 /\ pages[Len(stack) + 1] = page
        /\ \A i \in 1 .. Len(stack) : pages[i] = stack[i]
    BY <2>1, <2>2, PushShape, Facts
  <2> HIDE DEF pages
  <2>4. Tended(page, request.page, debounce, refresh)
    BY <2>1, Names DEF Tended
  <2>5. AllTended(pages, request.page, debounce, refresh)
    BY <2>3, <2>4, Facts DEF AllTended
  <2> QED BY <1>1, <2>2, <2>3, <2>5 DEF Tends
<1>6. CASE GoBack
  BY <1>1, <1>6, PopShape, Facts DEF GoBack, Tends
<1>7. CASE GoHome
  BY <1>1, <1>2, <1>7, RootAlone DEF GoHome, Tends
<1>8. CASE Show
  BY <1>3, <1>4, <1>8 DEF Show
<1>9. ASSUME NEW next, NEW dismissed, Hide(next, dismissed) PROVE Tends
  BY <1>3, <1>4, <1>9 DEF Hide
<1> QED
  BY <1>1, <1>5, <1>6, <1>7, <1>8, <1>9

\* poll_notifications, for a page: it is noted for the copies on the stack.
LEMMA ItemsChangedTends ==
    ASSUME IInv, NEW id \in Page, ItemsChanged(id)
    PROVE  /\ Tends /\ refresh' \in {refresh, id}
           /\ UNCHANGED <<window, request, debounce, aggregating>>
<1> DEFINE changed == [i \in 1 .. Len(stack) |->
                         [stack[i] EXCEPT !.dirty = @ \/ i \in Copies(id)]]
           lost == IF refresh' = id THEN Copies(id) \cap Buried ELSE Copies(id)
<1>1. /\ refresh' = IF refresh = "none" /\ Current.id = id THEN id ELSE refresh
      /\ stack' = MarkMissed(changed, lost)
      /\ UNCHANGED <<window, request, debounce, aggregating>>
  BY DEF ItemsChanged
<1>2. ASSUME NEW i \in 1 .. Len(stack)
      PROVE  /\ [stack[i] EXCEPT !.dirty = @ \/ i \in Copies(id)] \in PageState
             /\ [stack[i] EXCEPT !.dirty = @ \/ i \in Copies(id)].id = stack[i].id
             /\ i \notin Copies(id)
                  => [stack[i] EXCEPT !.dirty = @ \/ i \in Copies(id)] = stack[i]
  BY <1>2, Facts DEF PageState
<1>3. /\ changed \in Seq(PageState) /\ Len(changed) = Len(stack)
      /\ \A i \in 1 .. Len(stack) : /\ changed[i].id = stack[i].id
                                    /\ i \notin Copies(id) => changed[i] = stack[i]
  <2>1. \A i \in 1 .. Len(stack) :
          [stack[i] EXCEPT !.dirty = @ \/ i \in Copies(id)] \in PageState
    BY <1>2
  <2>2. changed \in Seq(PageState) /\ Len(changed) = Len(stack)
    BY <2>1, Facts
  <2>3. \A i \in 1 .. Len(stack) :
          changed[i] = [stack[i] EXCEPT !.dirty = @ \/ i \in Copies(id)]
    OBVIOUS
  <2> HIDE DEF changed
  <2> QED BY <1>2, <2>2, <2>3
<1> HIDE DEF changed
<1>4. StackType(changed)
  BY <1>3, Facts DEF StackType
<1>5. ASSUME NEW i \in 1 .. Len(changed), i \notin lost
      PROVE  Tended(changed[i], request.page, debounce, refresh')
  <2>1. Tended(stack[i], request.page, debounce, refresh) /\ changed[i].id = stack[i].id
    BY <1>3, Facts
  <2>2. CASE i \notin Copies(id)
    <3>1. changed[i] = stack[i] /\ stack[i].id # id
      BY <1>3, <2>2 DEF Copies
    <3>2. stack[i].id \in Page => refresh' = refresh \/ refresh = "none"
      BY <1>1
    <3> QED BY <2>1, <3>1, <3>2, <1>1, Names DEF Tended
  <2>3. CASE i \in Copies(id)
    <3>1. refresh' = id
      BY <1>5, <2>3
    <3>2. changed[i].id = id
      BY <2>1, <2>3 DEF Copies
    <3> QED BY <3>1, <3>2 DEF Tended
  <2> QED BY <2>2, <2>3
<1> HIDE DEF lost
<1>6. StackType(stack') /\ AllTended(stack', request.page, debounce, refresh')
  BY <1>1, <1>4, <1>5, MarkedTended
<1> QED
  BY <1>1, <1>6 DEF Tends

\* poll_notifications without a page: a pending refresh is forgotten.
LEMMA TopChangedTends ==
    ASSUME IInv, TopChanged
    PROVE  Tends /\ refresh' = "top" /\ UNCHANGED <<window, request, debounce, aggregating>>
<1>1. /\ refresh' = "top" /\ stack' = MarkMissed(stack, Copies(refresh))
      /\ UNCHANGED <<window, request, debounce, aggregating>>
  BY DEF TopChanged
<1>2. \A i \in 1 .. Len(stack) :
          i \in Copies(refresh) \/ Tended(stack[i], request.page, debounce, "top")
  BY Facts DEF Tended, Copies
<1>3. StackType(stack') /\ AllTended(stack', request.page, debounce, "top")
  BY <1>1, <1>2, Facts, MarkedTended
<1> QED
  BY <1>1, <1>3 DEF Tends

\* tick_refresh: the pending refresh, and the debounce, reach the page on top;
\* what others needed of them is noted.
LEMMA TimersTend ==
    ASSUME IInv, PageRefreshDue \/ DebounceDue
    PROVE  /\ Tends /\ request' \in Request \cup {NoRequest}
           /\ debounce' \in BOOLEAN /\ refresh' \in {refresh, "none"}
           /\ UNCHANGED <<window, aggregating>>
<1>1. ASSUME NEW lost, NEW d, NEW f, lost \subseteq Buried,
             debounce' = d, refresh' = f,
             \A i \in Buried : i \in lost \/ Tended(stack[i], request.page, d, f),
             \/ Current.id \in Page /\ Dispatch(MarkMissed(stack, lost))
             \/ /\ stack' = MarkMissed(stack, lost) /\ UNCHANGED request
                /\ Tended(Current, request.page, d, f)
      PROVE  Tends /\ request' \in Request \cup {NoRequest}
  <2> DEFINE rest == MarkMissed(stack, lost)
  <2>1. \A i \in 1 .. Len(stack) : i \in Buried \/ i = Len(stack)
    BY Facts DEF Buried
  <2>2. /\ Len(rest) = Len(stack)
        /\ \A i \in 1 .. Len(stack) :
             rest[i] = IF i \in lost THEN [stack[i] EXCEPT !.missed = TRUE] ELSE stack[i]
    BY MarkedShape, Facts DEF StackType
  <2>3. rest[Len(stack)] = Current
    <3>1. Len(stack) \notin lost /\ Len(stack) \in 1 .. Len(stack)
      BY <1>1, Facts DEF Buried
    <3>2. rest[Len(stack)] = stack[Len(stack)]
      BY <2>2, <3>1
    <3> QED BY <3>2 DEF Current
  <2>4. CASE Current.id \in Page /\ Dispatch(rest)
    <3>1. StackType(rest)
      <4>1. StackType(MarkMissed(stack, lost))
        <5>1. \A i \in 1 .. Len(stack) : i \in lost \/ Tended(stack[i], request.page, debounce, refresh)
          BY Facts
        <5> QED BY <5>1, Facts, MarkedTended
      <4> QED BY <4>1
    <3>2. ASSUME NEW i \in 1 .. Len(rest) - 1 PROVE Tended(rest[i], request.page, d, f)
      <4>1. i \in Buried /\ i \in 1 .. Len(stack) /\ stack[i] \in PageState
        BY <2>2, Facts DEF Buried
      <4>2. CASE i \in lost
        <5>1. rest[i] = [stack[i] EXCEPT !.missed = TRUE]
          BY <2>2, <4>1, <4>2
        <5>2. rest[i].missed
          BY <4>1, <5>1 DEF PageState
        <5> QED BY <5>2 DEF Tended
      <4>3. CASE i \notin lost
        BY <1>1, <2>2, <4>1, <4>3
      <4> QED BY <4>2, <4>3
    <3> HIDE DEF rest
    <3> QED BY <1>1, <2>2, <2>3, <2>4, <3>1, <3>2, DispatchTended, Facts DEF Tends
  <2>5. CASE /\ stack' = rest /\ UNCHANGED request
             /\ Tended(Current, request.page, d, f)
    <3>1. \A i \in 1 .. Len(stack) : i \in lost \/ Tended(stack[i], request.page, d, f)
      BY <1>1, <2>1, <2>5, Facts
    <3>2. StackType(stack') /\ AllTended(stack', request.page, d, f)
      BY <2>5, <3>1, Facts, MarkedTended
    <3> QED BY <1>1, <2>5, <3>2, Facts DEF Tends
  <2> QED BY <1>1, <2>4, <2>5
<1>2. CASE PageRefreshDue
  <2> DEFINE lost == Copies(refresh) \cap Buried
  <2>1. /\ refresh \in Page /\ refresh' = "none" /\ debounce' = debounce
        /\ UNCHANGED <<window, debounce, aggregating>>
        /\ \/ Current.id = refresh /\ Dispatch(MarkMissed(stack, lost))
           \/ Current.id # refresh /\ stack' = MarkMissed(stack, lost) /\ UNCHANGED request
    BY <1>2 DEF PageRefreshDue
  <2>2. \A i \in Buried : i \in lost \/ Tended(stack[i], request.page, debounce, "none")
    <3>1. \A i \in Buried : i \in 1 .. Len(stack)
      BY Facts DEF Buried
    <3> QED BY <3>1, Facts DEF Tended, Copies
  <2>3. Current.id # refresh => Tended(Current, request.page, debounce, "none")
    BY Facts DEF Tended
  <2>4. lost \subseteq Buried
    OBVIOUS
  <2> HIDE DEF lost
  <2>5. Tends /\ request' \in Request \cup {NoRequest}
    BY <1>1, <2>1, <2>2, <2>3, <2>4
  <2> QED BY <2>1, <2>5, Facts
<1>3. CASE DebounceDue
  <2> DEFINE lost == {i \in Buried \ {1} : ~Settled(stack[i])}
  <2>1. /\ debounce' = FALSE /\ refresh' = refresh /\ UNCHANGED <<window, refresh, aggregating>>
        /\ \/ Current.id \in Page /\ Dispatch(MarkMissed(stack, lost))
           \/ Current.id \notin Page /\ stack' = MarkMissed(stack, lost) /\ UNCHANGED request
    BY <1>3 DEF DebounceDue
  <2>2. ASSUME NEW i \in Buried PROVE i \in lost \/ Tended(stack[i], request.page, FALSE, refresh)
    <3>1. i \in 1 .. Len(stack)
      BY Facts DEF Buried
    <3>2. CASE i = 1
      BY <3>1, <3>2, Names, Facts DEF Tended, StackType
    <3>3. CASE i # 1 /\ i \notin lost
      <4>1. Settled(stack[i])
        BY <3>3
      <4> QED BY <4>1 DEF Tended, Settled
    <3> QED BY <3>2, <3>3
  <2>3. Current.id \notin Page => Tended(Current, request.page, FALSE, refresh)
    BY DEF Tended
  <2>4. lost \subseteq Buried
    OBVIOUS
  <2> HIDE DEF lost
  <2>5. Tends /\ request' \in Request \cup {NoRequest}
    BY <1>1, <2>1, <2>2, <2>3, <2>4
  <2> QED BY <2>1, <2>5
<1> QED
  BY <1>2, <1>3

\* rebuild_root_from_arrived.
LEMMA RootRebuiltTends ==
    ASSUME IInv, RootRebuilt
    PROVE  Tends /\ UNCHANGED <<window, request, debounce, refresh, aggregating>>
<1>1. /\ stack' = [stack EXCEPT ![1] = RootPage(Current.query)]
      /\ UNCHANGED <<window, request, debounce, refresh, aggregating>>
  BY DEF RootRebuilt
<1>2. Current.query \in Text
  BY Facts DEF PageState
<1>3. RootPage(Current.query) \in PageState /\ RootPage(Current.query).id = "root"
  BY <1>2, NewPageType
<1>4. /\ stack' \in Seq(PageState) /\ Len(stack') = Len(stack)
      /\ \A i \in 1 .. Len(stack) :
            stack'[i] = IF i = 1 THEN RootPage(Current.query) ELSE stack[i]
  BY <1>1, <1>3, Facts DEF StackType
<1>5. StackType(stack')
  BY <1>3, <1>4, Facts DEF StackType
<1>6. AllTended(stack', request.page, debounce, refresh)
  <2>1. Tended(RootPage(Current.query), request.page, debounce, refresh)
    BY <1>3, Names DEF Tended
  <2> QED BY <1>4, <2>1, Facts DEF AllTended
<1> QED
  BY <1>1, <1>5, <1>6 DEF Tends

-----------------------------------------------------------------------------
(* The theorems of the state.                                              *)

\* A handler that tends the pages and keeps the other types keeps IInv.
LEMMA TendsIsIInv ==
    ASSUME Tends, window' \in {"shown", "reset", "keep"},
           request' \in Request \cup {NoRequest}, debounce' \in BOOLEAN,
           refresh' \in Page \cup {"top", "none"}, aggregating' \in BOOLEAN
    PROVE  IInv'
  BY DEF Tends, IInv, TypeOK, StackType, AllTended

\* A thread that ends without an outcome: the pages that waited are noted.
LEMMA DisconnectedTends ==
    ASSUME IInv, Disconnected
    PROVE  Tends
<1>1. /\ request' = NoRequest /\ UNCHANGED <<debounce, refresh>>
      /\ stack' = MarkMissed(stack, Copies(request.page))
  BY DEF Disconnected
<1>2. \A i \in 1 .. Len(stack) :
          i \in Copies(request.page) \/ Tended(stack[i], request'.page, debounce, refresh)
  BY Facts DEF Tended, Copies
<1>3. StackType(stack') /\ AllTended(stack', request'.page, debounce, refresh)
  BY <1>1, <1>2, Facts, MarkedTended
<1> QED
  BY <1>1, <1>3 DEF Tends

\* The rest of what TypeOK says, for the handlers that do not touch it.
LEMMA Rest ==
    ASSUME IInv
    PROVE  /\ window \in {"shown", "reset", "keep"} /\ aggregating \in BOOLEAN
           /\ refresh \in Page \cup {"top", "none"}
           /\ request \in Request \cup {NoRequest} /\ debounce \in BOOLEAN
  BY DEF IInv, TypeOK

\* Every step keeps the invariant.
LEMMA NextIInv ==
    ASSUME IInv, [Next]_pageVars
    PROVE  IInv'
<1>1. CASE Landing
  <2>1. UNCHANGED <<window, refresh, aggregating>> /\ NoRequest \in Request \cup {NoRequest}
    BY <1>1 DEF Landing
  <2> QED BY <1>1, <2>1, LandingTends, Rest, TendsIsIInv
<1>2. CASE \E query \in Text : TypeQuery(query) \/ ClearQuery
  BY <1>2, TypingTends, Rest, TendsIsIInv
<1>3. CASE \E id \in Page, query \in Text : OpenPage(id, query) \/ OpenFileSearch
  BY <1>3, OpeningTends, Rest, TendsIsIInv
<1>4. CASE \/ OpenSettings \/ GoBack \/ GoHome \/ Show
           \/ Hide("reset", TRUE) \/ Hide("reset", FALSE) \/ Hide("keep", FALSE)
  <2>1. window' \in {"shown", "reset", "keep"}
    BY <1>4, Rest DEF OpenSettings, GoBack, GoHome, Show, Hide
  <2> QED BY <1>4, <2>1, MovingTends, Rest, TendsIsIInv
<1>5. CASE \E id \in Page : ItemsChanged(id)
  BY <1>5, ItemsChangedTends, Rest, TendsIsIInv
<1>6. CASE TopChanged
  BY <1>6, TopChangedTends, Rest, TendsIsIInv
<1>7. CASE PageRefreshDue \/ DebounceDue
  BY <1>7, TimersTend, Rest, TendsIsIInv
<1>8. CASE RootRebuilt
  BY <1>8, RootRebuiltTends, Rest, TendsIsIInv
<1>9. CASE TopRefreshDue \/ SettingsLeft \/ AggregationEnds \/ UNCHANGED pageVars
  <2>1. /\ UNCHANGED <<window, stack, request, debounce>> /\ refresh' \in {refresh, "none"}
        /\ aggregating' \in {aggregating, TRUE, FALSE} /\ (refresh' = refresh \/ refresh = "top")
    BY <1>9 DEF TopRefreshDue, SettingsLeft, AggregationEnds, pageVars
  <2>2. AllTended(stack, request.page, debounce, refresh')
    BY <2>1, Names, Facts DEF AllTended, Tended
  <2>3. Tends
    BY <2>1, <2>2, Facts DEF Tends
  <2> QED BY <2>1, <2>3, Rest, TendsIsIInv
<1>10. "" \in Text /\ FilePage \in Page
  BY PageAssumption DEF Text
<1>11. CASE ClearQuery
  BY <1>2, <1>10, <1>11
<1>12. CASE OpenFileSearch
  BY <1>3, <1>10, <1>12
<1>13. CASE Disconnected
  <2>1. /\ UNCHANGED <<window, debounce, refresh, aggregating>>
        /\ request' \in Request \cup {NoRequest}
    BY <1>13 DEF Disconnected
  <2> QED BY <1>13, <2>1, DisconnectedTends, Rest, TendsIsIInv
<1> QED
  BY <1>1, <1>2, <1>3, <1>4, <1>5, <1>6, <1>7, <1>8, <1>9, <1>11, <1>12, <1>13 DEF Next

\* The panel starts with Root.
LEMMA InitIInv == Init => IInv
<1> SUFFICES ASSUME Init PROVE IInv
  OBVIOUS
<1>1. "" \in Text
  BY DEF Text
<1>2. RootPage("") \in PageState /\ RootPage("").id = "root"
  BY <1>1, NewPageType
<1>3. stack = <<RootPage("")>> /\ request = NoRequest /\ debounce = FALSE /\ refresh = "none"
      /\ window = "reset" /\ aggregating = TRUE
  BY DEF Init
<1>4. StackType(stack) /\ AllTended(stack, request.page, debounce, refresh)
  BY <1>2, <1>3, RootAlone
<1> QED
  BY <1>3, <1>4, TypeSplit DEF IInv

\* The page stack is never empty, Root lies at its bottom and nowhere else,
\* and at most one request is under way, whatever is typed, opened, reported
\* or lands.
THEOREM TypeCorrect == PageSpec => []TypeOK
<1>1. IInv => TypeOK
  BY DEF IInv
<1> QED
  BY <1>1, InitIInv, NextIInv, PTL DEF PageSpec, PageSafe

\* No page of an extension waits in vain: it shows what its box asks for, or
\* something that will fetch it is pending, or one of the steps that drop a
\* refetch for good has happened since.
THEOREM NothingIsForgotten == PageSpec => []NothingForgotten
<1>1. ASSUME IInv PROVE NothingForgotten
  <2>1. Tended(Current, request.page, debounce, refresh)
    BY <1>1, Facts
  <2> QED BY <2>1 DEF Tended, NothingForgotten, AsksFor
<1> QED
  BY <1>1, InitIInv, NextIInv, PTL DEF PageSpec, PageSafe

-----------------------------------------------------------------------------
(* What lands.                                                             *)

\* The content of a page that stays where it is, is kept or emptied.
Keeps(pages) ==
    \A i \in 1 .. Len(stack) :
        i <= Len(pages) /\ pages[i].id = stack[i].id => pages[i].of \in {stack[i].of, "none"}

\* Two steps that keep the content: a mark in the history, a page on top.
LEMMA MarkKeeps ==
    ASSUME StackType(stack), NEW pages \in Seq(PageState), Keeps(pages), NEW lost
    PROVE  Keeps(MarkMissed(pages, lost))
<1> DEFINE marked == MarkMissed(pages, lost)
<1>1. Len(marked) = Len(pages)
      /\ \A i \in 1 .. Len(pages) : marked[i] =
            IF i \in lost THEN [pages[i] EXCEPT !.missed = TRUE] ELSE pages[i]
  BY MarkedShape
<1> HIDE DEF marked
<1> SUFFICES ASSUME NEW i \in 1 .. Len(stack), i <= Len(marked), marked[i].id = stack[i].id
             PROVE  marked[i].of \in {stack[i].of, "none"}
  BY DEF Keeps, marked
<1>2. i \in 1 .. Len(pages) /\ Len(pages) \in Nat /\ pages[i] \in PageState
  BY <1>1
<1>3. marked[i].id = pages[i].id /\ marked[i].of = pages[i].of
  BY <1>1, <1>2 DEF PageState
<1> QED
  BY <1>1, <1>2, <1>3 DEF Keeps

LEMMA DispatchKeeps ==
    ASSUME StackType(stack), NEW pages, StackType(pages), Keeps(pages), Dispatch(pages)
    PROVE  Keeps(stack')
<1>1. /\ pages \in Seq(PageState) /\ Len(pages) \in Nat /\ Len(pages) >= 1
      /\ Len(pages) \in 1 .. Len(pages) /\ pages[Len(pages)] \in PageState
  <2>1. pages \in Seq(PageState) /\ Len(pages) \in 1 .. MaxDepth /\ MaxDepth \in Nat
    BY Depth DEF StackType
  <2> QED BY <2>1
<1> DEFINE page == pages[Len(pages)]
           refused == [page EXCEPT
               !.skeleton = FALSE, !.loading = "no",
               !.missed = @ \/ page.dirty \/ request.page # page.id]
           sent == [page EXCEPT
               !.skeleton = ~page.filled, !.dirty = FALSE, !.missed = FALSE]
<1>2. \/ stack' = [pages EXCEPT ![Len(pages)] = refused]
      \/ stack' = [pages EXCEPT ![Len(pages)] = sent]
  BY DEF Dispatch
<1>3. refused.of = page.of /\ refused.id = page.id /\ sent.of = page.of /\ sent.id = page.id
  BY <1>1 DEF PageState
<1> HIDE DEF refused, sent
<1>4. \E new : /\ stack' = [pages EXCEPT ![Len(pages)] = new]
               /\ new.of = page.of /\ new.id = page.id
  BY <1>2, <1>3
<1>5. Len(stack') = Len(pages)
      /\ \A i \in 1 .. Len(pages) :
            stack'[i].of = pages[i].of /\ stack'[i].id = pages[i].id
  BY <1>1, <1>4
<1> SUFFICES ASSUME NEW i \in 1 .. Len(stack), i <= Len(stack'), stack'[i].id = stack[i].id
             PROVE  stack'[i].of \in {stack[i].of, "none"}
  BY DEF Keeps
<1>6. i \in 1 .. Len(pages)
  BY <1>1, <1>5
<1> QED
  BY <1>5, <1>6 DEF Keeps

LEMMA SetCurrentKeeps ==
    ASSUME StackType(stack), NEW page, page.of = Current.of, page.id = Current.id
    PROVE  Keeps(SetCurrent(page))
<1>1. stack \in Seq(PageState) /\ Len(stack) \in 1 .. Len(stack)
  BY CurrentShape DEF StackType
<1>2. \A i \in 1 .. Len(stack) :
          SetCurrent(page)[i] = IF i = Len(stack) THEN page ELSE stack[i]
  BY <1>1 DEF SetCurrent
<1> QED
  BY <1>2 DEF Keeps, Current

\* Every step but a landing keeps the content of the pages.
LEMMA OthersKeep ==
    ASSUME IInv, [Next]_pageVars, ~Landing
    PROVE  Keeps(stack')
<1>1. StackType(stack) /\ stack \in Seq(PageState) /\ Keeps(stack)
  BY Facts DEF StackType, Keeps
<1>2. CASE \E query \in Text : TypeQuery(query) \/ ClearQuery
  <2>1. PICK query \in Text : TypeQuery(query) \/ ClearQuery
    BY <1>2
  <2> DEFINE typed == [Current EXCEPT !.query = query]
             owing == [Current EXCEPT
                          !.query = query, !.pending = TRUE,
                          !.missed = @ \/ (~debounce' /\ request.page # Current.id)]
             cleared == [Current EXCEPT !.query = ""]
             emptied == [Current EXCEPT
                          !.query = "",
                          !.missed = @ \/ (~debounce' /\ request.page # Current.id)]
  <2>2. \/ stack' = SetCurrent(typed) \/ stack' = SetCurrent(owing)
        \/ stack' = SetCurrent(cleared) \/ stack' = SetCurrent(emptied)
    BY <2>1 DEF TypeQuery, ClearQuery
  <2>3. /\ typed.of = Current.of /\ owing.of = Current.of
        /\ cleared.of = Current.of /\ emptied.of = Current.of
        /\ typed.id = Current.id /\ owing.id = Current.id
        /\ cleared.id = Current.id /\ emptied.id = Current.id
    BY Facts DEF PageState
  <2> HIDE DEF typed, owing, cleared, emptied
  <2> QED BY <1>1, <2>2, <2>3, SetCurrentKeeps
<1>3. ASSUME NEW id \in Page, NEW query \in Text, OpenPage(id, query) PROVE Keeps(stack')
  <2> DEFINE page == [NewPage(id, query) EXCEPT !.loading = "fetch"]
  <2>1. page \in PageState /\ page.id # "root"
    BY NewPageType, Names
  <2>2. Len(stack) < MaxDepth /\ Dispatch(Append(stack, page))
    BY <1>3 DEF OpenPage
  <2> HIDE DEF page
  <2>3. StackType(Append(stack, page)) /\ Keeps(Append(stack, page))
    BY <1>1, <2>1, <2>2, PushShape DEF Keeps
  <2> QED BY <1>1, <2>2, <2>3, DispatchKeeps
<1>4. CASE OpenFileSearch
  <2>1. PICK query \in Text :
            Dispatch(<<stack[1], [NewPage(FilePage, query) EXCEPT !.loading = "fetch"]>>)
    <3>1. Current.query \in Text /\ "" \in Text
      BY Facts DEF PageState, Text
    <3> QED BY <1>4, <3>1 DEF OpenFileSearch
  <2> DEFINE page == [NewPage(FilePage, query) EXCEPT !.loading = "fetch"]
  <2>2. page \in PageState /\ page.id = FilePage /\ page.of = "none" /\ FilePage # "root"
    <3>1. page \in PageState /\ page.id = FilePage /\ FilePage \in Page
      BY NewPageType, PageAssumption
    <3>2. page.of = "none"
      BY DEF NewPage
    <3> QED BY <3>1, <3>2, Names
  <2> HIDE DEF page
  <2>3. Dispatch(<<stack[1], page>>)
    BY <2>1 DEF page
  <2>4. stack[1] \in PageState /\ stack[1].id = "root"
    BY Facts DEF StackType
  <2>5. StackType(<<stack[1], page>>)
    <3>1. <<stack[1], page>> \in Seq(PageState) /\ Len(<<stack[1], page>>) = 2
          /\ <<stack[1], page>>[1] = stack[1] /\ <<stack[1], page>>[2] = page
      BY <2>2, <2>4
    <3>2. 2 \in 1 .. MaxDepth
      BY Depth
    <3> QED BY <2>2, <2>4, <3>1, <3>2 DEF StackType
  <2>6. Keeps(<<stack[1], page>>)
    BY <2>2 DEF Keeps
  <2> QED BY <1>1, <2>3, <2>5, <2>6, DispatchKeeps
<1>5. CASE OpenSettings
  <2>1. stack' = Append(stack, NewPage("settings", "")) /\ Len(stack) < MaxDepth
    BY <1>5 DEF OpenSettings
  <2>2. NewPage("settings", "") \in PageState /\ NewPage("settings", "").id # "root"
    <3>1. "" \in Text /\ "settings" \in Page \cup {"root", "settings"}
      BY DEF Text
    <3>2. NewPage("settings", "") \in PageState /\ NewPage("settings", "").id = "settings"
      BY <3>1, NewPageType
    <3> QED BY <3>2
  <2>3. \A i \in 1 .. Len(stack) : stack'[i] = stack[i]
    BY <1>1, <2>1, <2>2, PushShape
  <2> QED BY <2>3 DEF Keeps
<1>6. CASE GoBack \/ GoHome
  <2>1. \A i \in 1 .. Len(stack) : i <= Len(stack') => stack'[i] = stack[i]
    <3>1. CASE GoHome
      BY <1>1, <3>1, Facts DEF GoHome
    <3>2. CASE GoBack
      <4>1. stack' = SubSeq(stack, 1, Len(stack) - 1) /\ Len(stack) \in Nat /\ Len(stack) > 1
        BY <3>2, Facts DEF GoBack
      <4> QED BY <1>1, <4>1
    <3> QED BY <1>6, <3>1, <3>2
  <2> QED BY <2>1 DEF Keeps
<1>7. CASE Show \/ Hide("reset", TRUE) \/ Hide("reset", FALSE) \/ Hide("keep", FALSE)
  <2>1. stack' = stack \/ stack' = <<[stack[1] EXCEPT !.query = ""]>>
    BY <1>7 DEF Show, Hide, Emptied
  <2>2. stack[1] \in PageState
    BY Facts
  <2>3. CASE stack' = <<[stack[1] EXCEPT !.query = ""]>>
    <3>1. Len(stack') = 1 /\ stack'[1].of = stack[1].of
      BY <2>2, <2>3 DEF PageState
    <3> QED BY <3>1, Facts DEF Keeps
  <2> QED BY <1>1, <2>1, <2>3
<1>8. ASSUME NEW id \in Page, ItemsChanged(id) PROVE Keeps(stack')
  <2> DEFINE changed == [i \in 1 .. Len(stack) |->
                           [stack[i] EXCEPT !.dirty = @ \/ i \in Copies(id)]]
  <2>1. \E lost : stack' = MarkMissed(changed, lost)
    BY <1>8 DEF ItemsChanged
  <2>2. Len(stack) \in Nat /\ \A i \in 1 .. Len(stack) :
            /\ [stack[i] EXCEPT !.dirty = @ \/ i \in Copies(id)] \in PageState
            /\ [stack[i] EXCEPT !.dirty = @ \/ i \in Copies(id)].of = stack[i].of
    BY Facts DEF PageState
  <2>3. changed \in Seq(PageState) /\ Len(changed) = Len(stack)
        /\ \A i \in 1 .. Len(stack) : changed[i].of = stack[i].of
    <3> DEFINE New(i) == [stack[i] EXCEPT !.dirty = @ \/ i \in Copies(id)]
    <3>1. changed = [i \in 1 .. Len(stack) |-> New(i)]
      OBVIOUS
    <3>2. Len(stack) \in Nat /\ \A i \in 1 .. Len(stack) :
              New(i) \in PageState /\ New(i).of = stack[i].of
      BY <2>2
    <3> HIDE DEF New, changed
    <3> QED BY <3>1, <3>2
  <2> HIDE DEF changed
  <2>4. Keeps(changed)
    BY <2>3 DEF Keeps
  <2> QED BY <1>1, <2>1, <2>3, <2>4, MarkKeeps
<1>9. CASE TopChanged
  <2>1. \E lost : stack' = MarkMissed(stack, lost)
    BY <1>9 DEF TopChanged
  <2> QED BY <1>1, <2>1, MarkKeeps
<1>10. CASE PageRefreshDue \/ DebounceDue
  <2>1. \E lost : stack' = MarkMissed(stack, lost) \/ Dispatch(MarkMissed(stack, lost))
    BY <1>10 DEF PageRefreshDue, DebounceDue
  <2>2. \A lost : StackType(MarkMissed(stack, lost)) /\ Keeps(MarkMissed(stack, lost))
    <3> SUFFICES ASSUME NEW lost
                 PROVE  StackType(MarkMissed(stack, lost)) /\ Keeps(MarkMissed(stack, lost))
      OBVIOUS
    <3>1. Len(MarkMissed(stack, lost)) = Len(stack) /\ MarkMissed(stack, lost) \in Seq(PageState)
          /\ \A i \in 1 .. Len(stack) : MarkMissed(stack, lost)[i] =
                IF i \in lost THEN [stack[i] EXCEPT !.missed = TRUE] ELSE stack[i]
      BY <1>1, MarkedShape
    <3>2. \A i \in 1 .. Len(stack) : [stack[i] EXCEPT !.missed = TRUE].id = stack[i].id
      BY Facts DEF PageState
    <3>3. StackType(MarkMissed(stack, lost))
      BY <1>1, <3>1, <3>2 DEF StackType
    <3> QED BY <1>1, <3>3, MarkKeeps
  <2> QED BY <1>1, <2>1, <2>2, DispatchKeeps
<1>11. CASE RootRebuilt
  <2>1. stack' = [stack EXCEPT ![1] = RootPage(Current.query)]
        /\ RootPage(Current.query).of = "none"
    BY <1>11 DEF RootRebuilt, RootPage, NewPage
  <2> QED BY <1>1, <2>1, Facts DEF Keeps
<1>12. CASE TopRefreshDue \/ SettingsLeft \/ AggregationEnds \/ UNCHANGED pageVars
  BY <1>1, <1>12 DEF TopRefreshDue, SettingsLeft, AggregationEnds, pageVars
<1>13. CASE ClearQuery
  <2>1. "" \in Text
    BY DEF Text
  <2> QED BY <1>2, <1>13, <2>1
<1>14. CASE Disconnected
  <2>1. \E lost : stack' = MarkMissed(stack, lost)
    BY <1>14 DEF Disconnected
  <2> QED BY <1>1, <2>1, MarkKeeps
<1> QED
  BY <1>2, <1>3, <1>4, <1>5, <1>6, <1>7, <1>8, <1>9, <1>10, <1>11, <1>12, <1>13, <1>14 DEF Next

\* LandsForTheBox, of one step.
Answers(pages) ==
    \A i \in 1 .. Len(stack) :
        (/\ i <= Len(pages)
         /\ pages[i].id = stack[i].id
         /\ pages[i].of # stack[i].of
         /\ pages[i].of # "none"
         /\ pages[i].filled)
          => pages[i].query \in {"", pages[i].of}

\* Where a page lands, the others stay.
LEMMA LandShape ==
    ASSUME StackType(stack), NEW page \in PageState, page.id = Current.id, Land(page)
    PROVE  \A i \in 1 .. Len(stack) :
              LET new == IF i = Len(stack) THEN page ELSE stack[i]
              IN  /\ stack'[i].of = new.of /\ stack'[i].filled = new.filled
                  /\ stack'[i].query = new.query
<1> DEFINE landed == SetCurrent(page)
           lost == Copies(request.page) \cap Buried
<1>1. /\ landed \in Seq(PageState) /\ Len(landed) = Len(stack)
      /\ \A i \in 1 .. Len(stack) : landed[i] = IF i = Len(stack) THEN page ELSE stack[i]
  BY TopShape DEF SetCurrent, Current, StackType
<1>2. stack' = MarkMissed(landed, lost)
  BY DEF Land
<1> HIDE DEF landed, lost
<1>3. \A i \in 1 .. Len(landed) : MarkMissed(landed, lost)[i] =
          IF i \in lost THEN [landed[i] EXCEPT !.missed = TRUE] ELSE landed[i]
  BY <1>1, MarkedShape
<1>4. \A i \in 1 .. Len(stack) : landed[i] \in PageState
  BY <1>1, CurrentShape
<1>5. \A i \in 1 .. Len(stack) : /\ stack'[i].of = landed[i].of
                                 /\ stack'[i].filled = landed[i].filled
                                 /\ stack'[i].query = landed[i].query
  <2>1. \A i \in 1 .. Len(stack) :
            stack'[i] \in {landed[i], [landed[i] EXCEPT !.missed = TRUE]}
    BY <1>1, <1>2, <1>3
  <2>2. \A i \in 1 .. Len(stack) :
            LET marked == [landed[i] EXCEPT !.missed = TRUE]
            IN  /\ marked.of = landed[i].of /\ marked.filled = landed[i].filled
                /\ marked.query = landed[i].query
    BY <1>4 DEF PageState
  <2> QED BY <2>1, <2>2, Zenon
<1> QED
  BY <1>1, <1>5

\* A page that takes what landed.
LEMMA LandAnswers ==
    ASSUME StackType(stack), NEW page \in PageState, page.id = Current.id, Land(page),
           \/ page.of = Current.of
           \/ ~page.filled
           \/ page.query \in {"", page.of}
    PROVE  Answers(stack')
  BY LandShape DEF Answers, Current

\* poll_page: what lands on the page on top passed landing_is_stale.
LEMMA LandingAnswers ==
    ASSUME IInv, Landing
    PROVE  Answers(stack')
<1>1. /\ StackType(stack) /\ request.query \in Text /\ Current \in PageState
      /\ debounce \in BOOLEAN /\ aggregating \in BOOLEAN
  BY Facts, RequestShape DEF Landing
<1>2. CASE Discard
  <2>1. Keeps(stack)
    BY DEF Keeps
  <2>2. Keeps(stack')
    BY <1>1, <1>2, <2>1, MarkKeeps DEF Discard, StackType
  <2> QED BY <2>2 DEF Keeps, Answers
<1>3. CASE LandOk /\ IsStale(Current, request.query)
  <2> DEFINE page == [Current EXCEPT !.skeleton = ~Current.filled,
                                     !.missed = @ \/ ~debounce']
  <2>1. Land(page) /\ debounce' \in BOOLEAN
    BY <1>1, <1>3 DEF LandOk
  <2>2. page \in PageState /\ page.id = Current.id /\ page.of = Current.of
    BY <1>1, <2>1 DEF PageState
  <2> QED BY <1>1, <2>1, <2>2, LandAnswers
<1>4. CASE LandOk /\ ~IsStale(Current, request.query)
  <2>1. PICK still \in BOOLEAN, some \in BOOLEAN : Land(Content(still, some))
    BY <1>4 DEF LandOk
  <2>2. Content(still, some) \in PageState /\ Content(still, some).id = Current.id
    <3> DEFINE word == IF still THEN "extension" ELSE "no"
               missed == Current.missed \/ (Current.query # request.query /\ ~debounce)
               pending == Current.pending /\ still
               page == Content(still, some)
    <3>1. word \in Loading /\ missed \in BOOLEAN /\ pending \in BOOLEAN
      BY <1>1 DEF Loading, PageState
    <3>2. page = [Current EXCEPT
                    !.of = request.query, !.filled = some, !.skeleton = FALSE,
                    !.loading = word, !.pending = pending, !.missed = missed]
      BY Zenon DEF Content
    <3> HIDE DEF word, missed, pending, page
    <3>3. page \in PageState /\ page.id = Current.id
      BY <1>1, <3>1, <3>2 DEF PageState
    <3> QED BY <3>3 DEF page
  <2>3. Content(still, some).of = request.query /\ Content(still, some).query = Current.query
    BY <1>1 DEF Content, PageState
  <2>4. Current.query \in {"", request.query}
    BY <1>1, <1>4 DEF IsStale
  <2> QED BY <1>1, <2>1, <2>2, <2>3, <2>4, LandAnswers
<1>5. CASE LandErr
  <2> DEFINE typed == Current.query # request.query
             page == [Current EXCEPT
                        !.of = request.query, !.filled = FALSE,
                        !.skeleton = FALSE, !.loading = "no",
                        !.pending = @ /\ typed,
                        !.missed = @ \/ (typed /\ ~debounce')]
  <2>1. Land(page) /\ debounce' \in BOOLEAN
    BY <1>1, <1>5 DEF LandErr
  <2>2. page \in PageState /\ page.id = Current.id /\ ~page.filled
    BY <1>1, <2>1 DEF PageState, Loading
  <2> QED BY <1>1, <2>1, <2>2, LandAnswers
<1> QED
  BY <1>2, <1>3, <1>4, <1>5 DEF Landing, LandOk

\* Content that lands answers the text in the box, or the box is empty,
\* however late the request returns and whatever was typed, opened or closed
\* meanwhile.
THEOREM LandedForTheBox == PageSpec => LandsForTheBox
<1>1. ASSUME IInv, [Next]_pageVars PROVE Answers(stack')
  <2>1. CASE Landing
    BY <1>1, <2>1, LandingAnswers
  <2>2. CASE ~Landing
    BY <1>1, <2>2, OthersKeep DEF Keeps, Answers
  <2> QED BY <2>1, <2>2
<1>2. ASSUME IInv, [Next]_pageVars
      PROVE  [\A i \in 1 .. Len(stack) :
                (/\ i <= Len(stack')
                 /\ stack'[i].id = stack[i].id
                 /\ stack'[i].of # stack[i].of
                 /\ stack'[i].of # "none"
                 /\ stack'[i].filled)
                  => stack'[i].query \in {"", stack'[i].of}]_pageVars
  BY <1>1, <1>2 DEF Answers
<1> QED
  BY <1>2, InitIInv, NextIInv, PTL DEF PageSpec, PageSafe, LandsForTheBox
=============================================================================
