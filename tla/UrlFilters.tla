----------------------------- MODULE UrlFilters -----------------------------
(***************************************************************************)
(* The filter bars whose state is the URL: the staff list of the owner's   *)
(* workspace, the agent's inbox, the customer's ticket list and the        *)
(* owner's ticket queue.  Each control pushes a URL built from the query   *)
(* its closure holds.  Three of the bars have a controlled search field    *)
(* that pushes when typing has paused and follows the URL when it changes  *)
(* from somewhere else; the queue's field pushes on Enter and follows      *)
(* nothing.                                                                *)
(*                                                                         *)
(* A push takes effect later, when the router commits it; a second push    *)
(* replaces one that is under way.                                         *)
(***************************************************************************)
EXTENDS Naturals

CONSTANTS
    Terms,    \* what people type into the search field
    Trim,     \* term -> term without surrounding blanks, as String.trim does
    Empty,    \* the empty term
    Facets,   \* values of the facets and the sort
    AllFacet, \* their default
    MaxPage   \* bound: pages a list has

ASSUME FilterConstants ==
    /\ Empty \in Terms /\ AllFacet \in Facets
    /\ Trim \in [Terms -> Terms]
    /\ \A t \in Terms : Trim[Trim[t]] = Trim[t]
    /\ Trim[Empty] = Empty
    /\ MaxPage \in Nat \ {0}

(* The four bars: whether the search field is controlled, debounced and    *)
(* follows the URL, and whether the list has pages.                        *)
StaffFilters       == [follows |-> TRUE, paged |-> FALSE]
TicketFilters      == [follows |-> TRUE, paged |-> TRUE]
TicketListControls == [follows |-> TRUE, paged |-> TRUE]
QueueFilters       == [follows |-> FALSE, paged |-> TRUE]

BarTable == [team |-> StaffFilters, inbox |-> TicketFilters,
             portal |-> TicketListControls, queue |-> QueueFilters]
Bars == DOMAIN BarTable
Following == {b \in Bars : BarTable[b].follows}
Paged == {b \in Bars : BarTable[b].paged}

Url == [q: Terms, facet: Facets, page: 1..MaxPage]
Default == [q |-> Empty, facet |-> AllFacet, page |-> 1]
NoUrl == [q |-> Empty, facet |-> AllFacet, page |-> 0]
NoTimer == [q |-> Empty, base |-> NoUrl]

VARIABLES
    bar,      \* which bar
    url,      \* the committed URL, which the component's query is parsed from
    going,    \* the URL a push is bringing, or NoUrl
    term,     \* what the field shows
    timer,    \* the debounce: the term and the query of the closure, or NoTimer
    wish,     \* history: what the choices so far amount to, in their order
    crossed   \* history: a choice was made while an earlier one was under way

filterVars == <<bar, url, going, term, timer, wish, crossed>>

(* buildSearch, withQuery, buildStaffSearch and setParam: the patch over   *)
(* the query, back on page 1 unless the patch is the page.                 *)
KeepsPage(base, patch) ==
    [f \in {"q", "facet", "page"} |-> IF f \in DOMAIN patch THEN patch[f] ELSE base[f]]
BuildSearch(base, patch) ==
    [f \in {"q", "facet", "page"} |->
        IF f \in DOMAIN patch THEN patch[f] ELSE IF f = "page" THEN 1 ELSE base[f]]

Push(base, patch) == going' = BuildSearch(base, patch)

(* The same change to what the person wants. *)
Wishes(patch) ==
    /\ wish' = [q |-> IF "q" \in DOMAIN patch THEN patch.q ELSE wish.q,
                facet |-> IF "facet" \in DOMAIN patch THEN patch.facet ELSE wish.facet,
                page |-> IF "page" \in DOMAIN patch THEN patch.page ELSE 1]
    /\ crossed' = (crossed \/ going # NoUrl
                           \/ (timer # NoTimer /\ patch # [q |-> wish'.q]))

(* Typing arms the debounce anew, with the query of the last render. *)
TypeTerm(t) ==
    /\ bar \in Following /\ t # term
    /\ term' = t
    /\ timer' = [q |-> t, base |-> url]
    /\ Wishes([q |-> Trim[t]])
    /\ UNCHANGED <<bar, url, going>>

DebounceFires ==
    /\ timer # NoTimer
    /\ Push(timer.base, [q |-> Trim[timer.q]])
    /\ timer' = NoTimer
    /\ UNCHANGED <<bar, url, term, wish, crossed>>

(* The queue's search field: Enter pushes what was typed, blanks included. *)
EnterTerm(t) ==
    /\ bar = "queue"
    /\ term' = t
    /\ Push(url, [q |-> t])
    /\ Wishes([q |-> t])
    /\ UNCHANGED <<bar, url, timer>>

Choose(patch) ==
    /\ Push(url, patch)
    /\ Wishes(patch)
    /\ UNCHANGED <<bar, url, term, timer>>

PickFacet(f) == Choose([facet |-> f])
GoToPage(n) == bar \in Paged /\ Choose([page |-> n])
ClearFilters ==
    /\ bar \in Following /\ <<url.q, url.facet>> # <<Empty, AllFacet>>
    /\ Choose([q |-> Empty, facet |-> AllFacet])

(* The router commits the push; the field follows a q that has changed. *)
CommitOnly ==
    /\ going # NoUrl
    /\ url' = going /\ going' = NoUrl
    /\ UNCHANGED <<bar, term, timer, wish, crossed>>
CommitPush ==
    /\ going # NoUrl
    /\ url' = going /\ going' = NoUrl
    /\ term' = IF bar \in Following /\ going.q # url.q THEN going.q ELSE term
    /\ UNCHANGED <<bar, timer, wish, crossed>>

(* Back, a navigation link or the top bar's search: another URL of the     *)
(* same list, with the debounce still armed.                               *)
Follows(u) ==
    /\ going' = u
    /\ wish' = u
    /\ crossed' = (crossed \/ going # NoUrl \/ timer # NoTimer)
    /\ UNCHANGED <<bar, url, term, timer>>

(* Another page: the cleanup drops the timer, and the list is mounted anew. *)
LeaveAndReturn(u) ==
    /\ url' = u /\ going' = NoUrl
    /\ term' = u.q
    /\ timer' = NoTimer
    /\ wish' = u /\ crossed' = FALSE
    /\ UNCHANGED bar

-----------------------------------------------------------------------------
FilterInit ==
    /\ bar \in Bars
    /\ url = Default /\ going = NoUrl
    /\ term = Empty /\ timer = NoTimer
    /\ wish = Default /\ crossed = FALSE

(* The URLs a link can lead to: a team URL has no page. *)
Links == {u \in Url : bar = "team" => u.page = 1}

FilterNext ==
    \/ \E t \in Terms : TypeTerm(t) \/ EnterTerm(t)
    \/ DebounceFires
    \/ \E f \in Facets : PickFacet(f)
    \/ \E n \in 1..MaxPage : GoToPage(n)
    \/ ClearFilters
    \/ CommitPush
    \/ \E u \in Links : Follows(u) \/ LeaveAndReturn(u)

FilterSpec == FilterInit /\ [][FilterNext]_filterVars

-----------------------------------------------------------------------------
(* Properties. *)

FilterTypeOK ==
    /\ bar \in Bars
    /\ url \in Url
    /\ going \in Url \cup {NoUrl}
    /\ term \in Terms
    /\ timer \in [q: Terms, base: Url \cup {NoUrl}]
    /\ wish \in Url
    /\ crossed \in BOOLEAN

AtRest == going = NoUrl /\ timer = NoTimer

(* When nothing is under way, a controlled search field shows the search   *)
(* that the list is filtered by, whoever changed the URL.                  *)
FieldMatchesUrl ==
    AtRest /\ bar \in Following /\ ~crossed => Trim[term] = Trim[url.q]

(* When nothing is under way, the URL is what all choices amount to in     *)
(* their order, and the list is back on its first page after a filter      *)
(* changed, provided that no choice was made while an earlier one was      *)
(* still under way.                                                        *)
ChoicesApplied == AtRest /\ ~crossed => url = wish
=============================================================================
