----------------------------- MODULE QueryCache -----------------------------
(***************************************************************************)
(* The React Query cache of one tab, for the workspace or for the portal:  *)
(* the queries the hooks declare (lib/api, lib/portal, lib/admin), the     *)
(* pages that mount them, and the mutations with the queries each one sets *)
(* and invalidates when its answer comes.                                  *)
(*                                                                         *)
(* Queries do not act on each other, so one of them is watched.  A query   *)
(* is the family of its key (one ticket, one filter, one range), its data  *)
(* the version number that every write affecting it raises.  The library's *)
(* rules (external) are those of React Query 5: invalidating marks a query *)
(* and refetches it at once, cancelling the fetch under way, but only      *)
(* while a page mounts it; setQueryData replaces the data and leaves a     *)
(* fetch under way alone; a fetch that lands clears the mark; a mutation's *)
(* onSuccess runs even after its page is gone.                             *)
(***************************************************************************)
EXTENDS Naturals

CONSTANT MaxWrites   \* bound: mutations submitted

ASSUME MaxWritesAssumption == MaxWrites \in Nat

WorkspaceQueries == {"tickets", "ticket", "stats", "departments", "workforce"}
PortalQueries == {"portalTickets", "portalTicket", "portalStats"}
Queries == WorkspaceQueries \cup PortalQueries

WorkspacePages == {"queue", "detail", "dashboard", "team"}
PortalPages == {"home", "list", "request"}
Pages == WorkspacePages \cup PortalPages

(* The queries each page mounts. *)
TicketsPage == {"tickets", "departments"}
TicketDetailPage == {"ticket", "departments"}
DashboardPage == {"stats"}
TeamPage == {"workforce"}
PortalDashboardPage == {"portalStats"}
PortalTicketsPage == {"portalTickets"}
PortalTicketDetailPage == {"portalTicket"}

Mounts(p) == CASE p = "queue" -> TicketsPage
               [] p = "detail" -> TicketDetailPage
               [] p = "dashboard" -> DashboardPage
               [] p = "team" -> TeamPage
               [] p = "home" -> PortalDashboardPage
               [] p = "list" -> PortalTicketsPage
               [] p = "request" -> PortalTicketDetailPage

(* The mutations: the pages that offer one, what the backend changes as    *)
(* the queries read it, the queries its onSuccess sets and marks, and      *)
(* those it changes and does not announce: a screen shows these late, up   *)
(* to their staleTime.                                                     *)
useUpdateTicket ==
    [on |-> {"detail"}, affects |-> {"ticket", "tickets", "stats", "workforce"},
     sets |-> {"ticket"}, marks |-> {"tickets", "stats"}, untold |-> {"workforce"}]
useAssignTicket ==
    [on |-> {"detail"}, affects |-> {"ticket", "tickets", "workforce"},
     sets |-> {"ticket"}, marks |-> {"tickets"}, untold |-> {"workforce"}]
useAddMessage ==
    [on |-> {"detail"}, affects |-> {"ticket", "tickets"},
     sets |-> {}, marks |-> {"ticket"}, untold |-> {"tickets"}]
useReanalyze ==
    [on |-> {"detail"}, affects |-> {"ticket", "tickets", "stats", "workforce"},
     sets |-> {"ticket"}, marks |-> {"tickets", "stats"}, untold |-> {"workforce"}]
useSetStaffDepartment ==
    [on |-> {"team"}, affects |-> {"workforce", "departments"},
     sets |-> {}, marks |-> {"workforce", "departments"}, untold |-> {}]
useDepartmentMutation ==
    [on |-> {"team"}, affects |-> {"workforce", "departments"},
     sets |-> {}, marks |-> {"workforce", "departments"}, untold |-> {}]
useDeleteDepartment ==
    [on |-> {"team"}, affects |-> {"workforce", "departments", "tickets", "ticket", "stats"},
     sets |-> {}, marks |-> {"workforce", "departments", "tickets", "stats"},
     untold |-> {"ticket"}]
useCreateTicket ==
    [on |-> {"home", "list"}, affects |-> PortalQueries,
     sets |-> {"portalTicket"}, marks |-> PortalQueries, untold |-> {}]
useReplyToTicket ==
    [on |-> {"request"}, affects |-> {"portalTicket", "portalTickets"},
     sets |-> {}, marks |-> {"portalTicket", "portalStats"}, untold |-> {"portalTickets"}]
useReopenTicket ==
    [on |-> {"request"}, affects |-> PortalQueries,
     sets |-> {"portalTicket"}, marks |-> PortalQueries, untold |-> {}]

Hooks == [update |-> useUpdateTicket, assign |-> useAssignTicket, message |-> useAddMessage,
          reanalyze |-> useReanalyze, move |-> useSetStaffDepartment,
          saveDepartment |-> useDepartmentMutation, deleteDepartment |-> useDeleteDepartment,
          create |-> useCreateTicket, reply |-> useReplyToTicket, reopen |-> useReopenTicket]
Mutations == DOMAIN Hooks

OfferedOn(m) == Hooks[m].on
Affects(m) == Hooks[m].affects
Unannounced(m) == Hooks[m].untold
Sets(m) == Hooks[m].sets
QuietUpdate(m) == IF m = "update" THEN {"tickets"} ELSE Hooks[m].marks
Invalidates(m) == Hooks[m].marks

VARIABLES
    query,    \* the query watched
    page,     \* the page on screen
    server,   \* version in the backend
    data,     \* version in the cache, 0 for none
    invalid,  \* marked by invalidateQueries
    failed,   \* the last fetch ended in an error
    fetch,    \* the fetch under way
    write,    \* mutation -> its request under way, and the version it made
    writes,   \* mutations submitted so far
    acked,    \* history: newest own write whose answer has come
    raced     \* history: an answer older than an own write may land, or has
              \* landed, after it

cached == <<data, invalid, failed, fetch>>
queryVars == <<query, page, server, cached, write, writes, acked, raced>>

NoFetch == [stage |-> "none", since |-> 0, got |-> 0]
NoWrite == [stage |-> "none", at |-> 0]

Fetching == fetch.stage # "none"
Mounted == query \in Mounts(page)
Begin == [stage |-> "sent", since |-> server, got |-> 0]

(* The query is fetched when a page mounts it with no data, or marked, or  *)
(* (old) past its staleTime, and no fetch of it is under way.              *)
Visit(p, old) ==
    LET starts == /\ ~Mounted /\ query \in Mounts(p) /\ ~Fetching
                  /\ data = 0 \/ invalid \/ old
    IN  /\ {page, p} \subseteq WorkspacePages \/ {page, p} \subseteq PortalPages
        /\ page' = p
        /\ fetch' = IF starts THEN Begin ELSE fetch
        /\ raced' = (raced /\ ~starts)
        /\ UNCHANGED <<query, server, data, invalid, failed, write, writes, acked>>

(* The retry button of an error state, or the network came back. *)
Refetch ==
    /\ Mounted /\ ~Fetching
    /\ fetch' = Begin
    /\ raced' = FALSE
    /\ UNCHANGED <<query, page, server, data, invalid, failed, write, writes, acked>>

ReadServer ==
    /\ fetch.stage = "sent"
    /\ fetch' = [fetch EXCEPT !.stage = "read", !.got = server]
    /\ UNCHANGED <<query, page, server, data, invalid, failed, write, writes, acked, raced>>

Deliver ==
    /\ fetch.stage = "read"
    /\ data' = fetch.got
    /\ invalid' = FALSE /\ failed' = FALSE
    /\ fetch' = NoFetch
    /\ UNCHANGED <<query, page, server, write, writes, acked, raced>>

(* The client asks again (providers.tsx allows two retries) or gives up. *)
FetchFails(again) ==
    /\ Fetching
    /\ fetch' = IF again THEN [fetch EXCEPT !.stage = "sent", !.got = 0] ELSE NoFetch
    /\ failed' = (failed \/ ~again)
    /\ UNCHANGED <<query, page, server, data, invalid, write, writes, acked, raced>>

(* A control is disabled while its own mutation is pending; others are not. *)
OptimisticSubmit(m) ==
    /\ page \in OfferedOn(m) /\ write[m].stage = "none"
    /\ writes < MaxWrites /\ writes' = writes + 1
    /\ write' = [write EXCEPT ![m].stage = "sent"]
    /\ data' = IF query \in Sets(m) THEN server + 1 ELSE data
    /\ UNCHANGED <<query, page, server, invalid, failed, fetch, acked, raced>>
SubmitWrite(m) ==
    /\ page \in OfferedOn(m) /\ write[m].stage = "none"
    /\ writes < MaxWrites /\ writes' = writes + 1
    /\ write' = [write EXCEPT ![m].stage = "sent"]
    /\ UNCHANGED <<query, page, server, cached, acked, raced>>

CommitWrite(m) ==
    /\ write[m].stage = "sent"
    /\ server' = IF query \in Affects(m) THEN server + 1 ELSE server
    /\ write' = [write EXCEPT ![m] = [stage |-> "committed", at |-> server']]
    /\ UNCHANGED <<query, page, cached, writes, acked, raced>>

(* Refused, or the answer is lost: the mutation ends in an error. *)
WriteFails(m) ==
    /\ write[m].stage # "none"
    /\ write' = [write EXCEPT ![m] = NoWrite]
    /\ UNCHANGED <<query, page, server, cached, writes, acked, raced>>

(* onSuccess: first the query it sets, then those it invalidates. *)
AckWrite(m) ==
    LET at == write[m].at
        sets == query \in Sets(m)
        marks == query \in Invalidates(m)
        told == query \in Affects(m) \ Unannounced(m)
        starts == marks /\ Mounted
    IN  /\ write[m].stage = "committed"
        /\ write' = [write EXCEPT ![m] = NoWrite]
        /\ data' = IF sets THEN at ELSE data
        /\ failed' = (failed /\ ~sets)
        /\ invalid' = (marks \/ (invalid /\ ~sets))
        /\ fetch' = IF starts THEN Begin ELSE fetch
        /\ acked' = IF told /\ at > acked THEN at ELSE acked
        /\ raced' = (~starts /\ (raced \/ (sets /\ at < acked) \/ (told /\ Fetching)))
        /\ UNCHANGED <<query, page, server, writes>>

-----------------------------------------------------------------------------
QueryInit ==
    /\ query \in Queries
    /\ page = IF query \in WorkspaceQueries THEN "queue" ELSE "home"
    /\ server = 1 /\ data = 0
    /\ invalid = FALSE /\ failed = FALSE
    /\ fetch = IF Mounted THEN Begin ELSE NoFetch
    /\ write = [m \in Mutations |-> NoWrite]
    /\ writes = 0
    /\ acked = 0 /\ raced = FALSE

QueryNext ==
    \/ \E p \in Pages \ {page}, old \in BOOLEAN : Visit(p, old)
    \/ Refetch
    \/ ReadServer
    \/ Deliver
    \/ \E again \in BOOLEAN : FetchFails(again)
    \/ \E m \in Mutations : \/ SubmitWrite(m) \/ CommitWrite(m)
                            \/ WriteFails(m) \/ AckWrite(m)

QuerySpec == QueryInit /\ [][QueryNext]_queryVars

-----------------------------------------------------------------------------
(* Properties. *)

QueryTypeOK ==
    /\ query \in Queries
    /\ page \in Pages
    /\ server \in Nat \ {0}
    /\ data \in Nat
    /\ invalid \in BOOLEAN
    /\ failed \in BOOLEAN
    /\ fetch \in [stage: {"none", "sent", "read"}, since: Nat, got: Nat]
    /\ write \in [Mutations -> [stage: {"none", "sent", "committed"}, at: Nat]]
    /\ writes \in 0..MaxWrites
    /\ acked \in Nat
    /\ raced \in BOOLEAN

(* A query on screen that is at rest and shows data has seen every own     *)
(* write whose answer has come: the hooks invalidate the right queries,    *)
(* and no fetch that was under way brings an older answer back, except     *)
(* where one outlives setQueryData, or outlives the invalidation of a      *)
(* query no page mounts, or two answers to one ticket cross.               *)
ReadYourWrites ==
    Mounted /\ ~Fetching /\ data # 0 /\ ~failed /\ ~raced => data >= acked

(* The cache shows what some read or write really answered: fetches,       *)
(* retries, cancellation and the mutations' handlers implement FreshReads. *)
Register == INSTANCE FreshReads WITH
    latest <- server,
    shown <- data,
    asked <- fetch.since,
    answers <- {write[m].at : m \in {n \in Mutations : /\ write[n].stage = "committed"
                                                       /\ query \in Sets(n)}}
ShowsFreshReads == Register!FreshSpec
=============================================================================
