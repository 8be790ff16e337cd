-------------------------------- MODULE Inbox --------------------------------
(***************************************************************************)
(* The agent's panel (lib/staff, components/staff): one set of tickets,    *)
(* scoped to the agent's department, read as nine views with search,       *)
(* facets, sorting and pages; the badges, cards and lists that are counted *)
(* from it; and the links that lead from one to the other.                 *)
(*                                                                         *)
(* The tickets are fixtures that no screen changes: the constant Desks has *)
(* the ones considered.  A ticket is a number, its place in the fixtures;  *)
(* times are minutes before NOW_ISO, so that a due time yet to come is     *)
(* negative.                                                               *)
(***************************************************************************)
EXTENDS Integers, SequencesExt

CONSTANTS
    Desks,        \* the fixtures, in their order
    Notices,      \* the notifications: the ticket each is about (or 0), read or not
    Addresses,    \* queries as they may be typed, valid or not
    PageSize,     \* PAGE_SIZE
    SummaryLimit  \* rows of a list of the dashboard

Statuses == {"open", "pending", "on_hold", "resolved", "closed"}
Priorities == <<"low", "medium", "high">>
Kinds == {"customer", "agent", "note"}
Unset == "any"

Ticket ==
    [team: {"mine", "other"}, status: Statuses, holder: {"me", "other", "nobody"},
     priority: 1..3, said: Seq([kind: Kinds, ago: Int]), opened: Int, due: Int,
     updated: Int, words: SUBSET STRING]

ASSUME InboxConstants ==
    /\ Desks \subseteq Seq(Ticket)
    /\ Notices \in Seq([about: Nat, read: BOOLEAN])
    /\ Addresses \subseteq [view: STRING, q: STRING, priority: STRING, status: STRING,
                            sort: STRING, page: Int]
    /\ PageSize \in Nat \ {0} /\ SummaryLimit \in Nat

VARIABLES
    desk,    \* the fixtures
    place,   \* the page on screen: its route, ticket and parsed query
    readIds  \* notifications the bell has marked as read in this document

inboxVars == <<desk, place, readIds>>

-----------------------------------------------------------------------------
(* lib/staff/filters.ts. *)

IsLive(t) == desk[t].status \in {"open", "pending", "on_hold"}
IsMine(t) == desk[t].holder = "me"

Heard(t) == {i \in DOMAIN desk[t].said : desk[t].said[i].kind # "note"}
AwaitingReply(t) == Heard(t) # {} /\ desk[t].said[Max(Heard(t))].kind = "customer"
FromCustomer(t) == {i \in DOMAIN desk[t].said : desk[t].said[i].kind = "customer"}
WaitingSince(t) == IF FromCustomer(t) = {} THEN desk[t].opened
                   ELSE desk[t].said[Max(FromCustomer(t))].ago

SlaBreached(t) == desk[t].due > 0
SlaAtRisk(t) == desk[t].due > -60
NeedsAttention(t) == IsLive(t) /\ SlaAtRisk(t) /\ AwaitingReply(t)

Views == {"assigned", "attention", "waiting", "resolved", "all", "unassigned", "open",
          "hold", "closed"}
InView(view, t) ==
    CASE view = "assigned" -> IsMine(t) /\ IsLive(t)
      [] view = "attention" -> NeedsAttention(t)
      [] view = "waiting" -> desk[t].status = "pending"
      [] view = "resolved" -> IsMine(t) /\ desk[t].status = "resolved"
      [] view = "all" -> TRUE
      [] view = "unassigned" -> desk[t].holder = "nobody" /\ IsLive(t)
      [] view = "open" -> IsLive(t)
      [] view = "hold" -> desk[t].status = "on_hold"
      [] view = "closed" -> desk[t].status \in {"closed", "resolved"}

(* What a sort compares, the smaller first; the sort is stable, so that    *)
(* the place in the fixtures comes last.                                   *)
Sorts == {"newest", "oldest", "priority", "sla"}
SortKey(sort, t) ==
    CASE sort = "newest" -> <<desk[t].updated, t>>
      [] sort = "oldest" -> <<-desk[t].updated, t>>
      [] sort = "priority" -> <<-desk[t].priority, IF AwaitingReply(t) THEN 0 ELSE 1,
                                -WaitingSince(t), t>>
      [] sort = "sla" -> <<-desk[t].due, t>>
Precedes(sort, s, t) ==
    LET a == SortKey(sort, s)
        b == SortKey(sort, t)
    IN  \E i \in DOMAIN a : a[i] < b[i] /\ \A j \in 1..(i - 1) : a[j] = b[j]
Before(sort, set, t) == {s \in set : Precedes(sort, s, t)}
Sorted(sort, set) ==
    [i \in 1..Cardinality(set) |->
        CHOOSE t \in set : Cardinality(Before(sort, set, t)) = i - 1]

MatchesSearch(t, q) == q = "" \/ q \in desk[t].words

(* The query a URL stands for, whatever was typed. *)
Query == [view: Views, q: {""} \cup STRING, priority: {Unset} \cup Range(Priorities),
          status: {Unset} \cup Statuses, sort: Sorts, page: Nat \ {0}]
ParseView(view) == IF view \in Views THEN view ELSE "assigned"
ParseSort(sort) == IF sort \in Sorts THEN sort ELSE "newest"
ParseTicketQuery(raw) ==
    [view |-> ParseView(raw.view),
     q |-> raw.q,
     priority |-> IF raw.priority \in Range(Priorities) THEN raw.priority ELSE Unset,
     status |-> IF raw.status \in Statuses THEN raw.status ELSE Unset,
     sort |-> ParseSort(raw.sort),
     page |-> IF raw.page > 0 THEN raw.page ELSE 1]
ViewHref(view) == [view |-> view, q |-> "", priority |-> Unset, status |-> Unset,
                   sort |-> "newest", page |-> 1]

(* The tickets of the agent's department: every read goes through it. *)
VisibleTickets == {t \in DOMAIN desk : desk[t].team = "mine"}

Filtered(query) ==
    Sorted(query.sort,
           {t \in VisibleTickets :
               /\ InView(query.view, t)
               /\ query.priority \in {Unset, Priorities[desk[t].priority]}
               /\ query.status \in {Unset, desk[t].status}
               /\ MatchesSearch(t, query.q)})

PageCount(total) == Max({1, (total + PageSize - 1) \div PageSize})
UnclampedPage(asked, total) == asked
PageShown(asked, total) == Min({Max({1, asked}), PageCount(total)})

SelectTickets(query) ==
    LET filtered == Filtered(query)
        total == Len(filtered)
        page == PageShown(query.page, total)
        start == (page - 1) * PageSize
    IN  [items |-> SubSeq(filtered, start + 1, Min({start + PageSize, total})),
         total |-> total, page |-> page, pageCount |-> PageCount(total)]

CountsByView == [v \in Views |-> Cardinality({t \in VisibleTickets : InView(v, t)})]

-----------------------------------------------------------------------------
(* lib/staff/queries.ts. *)

ListTickets(query) == SelectTickets(query)
GetTicket(t) == IF t \in VisibleTickets THEN t ELSE 0

About(n) == Notices[n].about
VisibleNotifications == {n \in DOMAIN Notices : About(n) = 0 \/ About(n) \in VisibleTickets}
SidebarUnread == Cardinality({n \in VisibleNotifications : ~Notices[n].read})

Having(P(_)) == {t \in VisibleTickets : P(t)}
GetStatSummary ==
    [assigned |-> Cardinality(Having(LAMBDA t : IsMine(t) /\ IsLive(t))),
     attention |-> Cardinality(Having(NeedsAttention)),
     waiting |-> Cardinality(Having(LAMBDA t : desk[t].status = "pending")),
     resolvedToday |-> Cardinality(Having(LAMBDA t : /\ desk[t].status = "resolved"
                                                     /\ desk[t].updated < 24 * 60)),
     slaBreached |-> Cardinality(Having(LAMBDA t : IsLive(t) /\ SlaBreached(t)))]

Shortened(seq) == SubSeq(seq, 1, Min({SummaryLimit, Len(seq)}))
ListAttention == Shortened(Sorted("sla", Having(NeedsAttention)))
ListRecent == Shortened(Sorted("newest", Having(IsLive)))
ListAllTickets == Sorted("newest", VisibleTickets)

-----------------------------------------------------------------------------
(* The screens, and where their links lead. *)

At(route, t, query) == [at |-> route, id |-> t, query |-> query]
Page(route) == At(route, 0, ViewHref("assigned"))
ListAt(query) == At("list", 0, query)
TicketHref(t, query) == At("ticket", t, query)
BareHref(t) == TicketHref(t, ViewHref("assigned"))

(* A ticket the agent cannot see is a page that does not exist. *)
TicketPage(link) ==
    IF link.at = "ticket" /\ GetTicket(link.id) = 0 THEN [link EXCEPT !.at = "missing"]
    ELSE link

(* The sidebar: a link for every view, most of them with a badge. *)
Badged == Views \ {"resolved", "all"}
CountFor(view) == CountsByView[view]
Destinations == {ListAt(ViewHref(v)) : v \in Views}
                    \cup {Page("dashboard"), Page("notifications"), Page("tool")}

PaletteLinks == {BareHref(t) : t \in Range(ListAllTickets)}
NoticeLink(n) == IF About(n) = 0 THEN Page("notifications") ELSE BareHref(About(n))
NoticeLinks == {NoticeLink(n) : n \in VisibleNotifications}
BellUnread == {n \in VisibleNotifications : ~Notices[n].read /\ n \notin readIds}

(* The dashboard: six cards, each with the list it leads to, and two lists. *)
StatHref(card) ==
    CASE card \in {"assigned", "attention", "waiting"} -> ViewHref(card)
      [] card = "resolvedToday" -> ViewHref("resolved")
      [] OTHER -> [ViewHref("open") EXCEPT !.sort = "sla"]
DashboardLinks ==
    {ListAt(StatHref(c)) : c \in DOMAIN GetStatSummary}
        \cup {BareHref(t) : t \in Range(ListAttention) \cup Range(ListRecent)}

(* The queue: a row for every ticket of the page, and the pages. *)
TicketRows(query) == {TicketHref(t, query) : t \in Range(ListTickets(query).items)}
PageLinks(query) ==
    {ListAt([query EXCEPT !.page = n]) : n \in 1..ListTickets(query).pageCount}
QueueLinks == TicketRows(place.query) \cup PageLinks(place.query)

LinksShown ==
    Destinations \cup PaletteLinks \cup NoticeLinks
        \cup (CASE place.at = "dashboard" -> DashboardLinks
                [] place.at \in {"list", "ticket"} -> QueueLinks
                [] OTHER -> {})

-----------------------------------------------------------------------------
FollowLink(link) ==
    /\ place' = TicketPage(link)
    /\ UNCHANGED <<desk, readIds>>

(* An address typed: the document is loaded anew. *)
OpenAddress(raw, t) ==
    /\ place' = LET query == ParseTicketQuery(raw)
                IN  IF t = 0 THEN ListAt(query) ELSE TicketPage(TicketHref(t, query))
    /\ readIds' = {}
    /\ UNCHANGED desk

(* The bell: a notification is followed and marked, or all are marked. *)
OpenNotice(n) ==
    /\ place' = TicketPage(NoticeLink(n))
    /\ readIds' = readIds \cup {n}
    /\ UNCHANGED desk
MarkAllRead ==
    /\ BellUnread # {}
    /\ readIds' = VisibleNotifications
    /\ UNCHANGED <<desk, place>>

InboxInit ==
    /\ desk \in Desks
    /\ place = Page("dashboard")
    /\ readIds = {}

InboxNext ==
    \/ \E link \in LinksShown : FollowLink(link)
    \/ \E raw \in Addresses, t \in DOMAIN desk \cup {0} : OpenAddress(raw, t)
    \/ \E n \in VisibleNotifications : OpenNotice(n)
    \/ MarkAllRead

InboxSpec == InboxInit /\ [][InboxNext]_inboxVars

-----------------------------------------------------------------------------
(* Properties. *)

InboxTypeOK ==
    /\ desk \in Desks
    /\ place \in [at: {"dashboard", "notifications", "tool", "list", "ticket", "missing"},
                  id: DOMAIN desk \cup {0}, query: Query]
    /\ readIds \subseteq VisibleNotifications

PageOf(query, n) == ListTickets([query EXCEPT !.page = n])

(* The panel agrees with itself whatever URL it is on: a badge, and a card *)
(* of the dashboard, shows the length of the list behind it; the pages of  *)
(* a list, in order, are the list, and no page asked for is empty while    *)
(* the list is not; the short lists are the head of the long ones; nothing *)
(* of another department is listed, and no link ends on a missing page.    *)
InboxAgrees ==
    LET pages == PageOf(place.query, 1).pageCount
    IN  /\ \A v \in Badged : CountFor(v) = ListTickets(ViewHref(v)).total
        /\ \A c \in {"assigned", "attention", "waiting"} :
              GetStatSummary[c] = ListTickets(StatHref(c)).total
        /\ GetStatSummary.slaBreached <= ListTickets(StatHref("slaBreached")).total
        /\ FlattenSeq([n \in 1..pages |-> PageOf(place.query, n).items])
              = Filtered(place.query)
        /\ ListTickets(place.query).total > 0 => ListTickets(place.query).items # <<>>
        /\ IsPrefix(ListAttention, Filtered([ViewHref("attention") EXCEPT !.sort = "sla"]))
        /\ IsPrefix(ListRecent, Filtered(ViewHref("open")))
        /\ BellUnread = {} \/ SidebarUnread > 0
        /\ \A link \in LinksShown : TicketPage(link).at # "missing"
        /\ place.at = "ticket" => desk[place.id].team = "mine"
=============================================================================
