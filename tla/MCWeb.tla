-------------------------------- MODULE MCWeb --------------------------------
(***************************************************************************)
(* The pages of the web front end, small: one component runs in each       *)
(* behaviour, the one that focus names.  They share no state in the        *)
(* browser (the query cache has the data, a form its field, a filter bar   *)
(* the URL), so the reachable states of each are all there.                *)
(***************************************************************************)
EXTENDS Session, QueryCache, Forms, StaffBatch, UrlFilters, Workforce, Inbox

CONSTANTS cust, boss, ana, ben, main, vip, new, k1

MCClaimsOf == (cust :> {"customer"}) @@ (boss :> {"org_admin", "viewer"})
MCTrim == [t \in {"", "a", "a_"} |-> IF t = "a_" THEN "a" ELSE t]
MCStart == [teams |-> {main, vip}, place |-> (ana :> main) @@ (ben :> vip),
            queue |-> (k1 :> [team |-> vip, holder |-> ana])]

Said(kinds) == [i \in DOMAIN kinds |-> [kind |-> kinds[i], ago |-> 100 - 10 * i]]
Card(team, status, holder, priority, kinds, due, updated, words) ==
    [team |-> team, status |-> status, holder |-> holder, priority |-> priority,
     said |-> Said(kinds), opened |-> 100, due |-> due, updated |-> updated, words |-> words]
MCDesk == <<Card("mine", "open", "me", 3, <<"customer">>, 10, 30, {"w"}),
            Card("other", "open", "nobody", 3, <<"customer">>, 10, 20, {"w"}),
            Card("mine", "pending", "other", 1, <<"customer", "agent">>, -30, 40, {}),
            Card("mine", "open", "nobody", 3, <<"customer", "note">>, -30, 30, {"w"}),
            Card("mine", "resolved", "me", 2, <<"customer", "agent">>, -90, 2000, {})>>
MCDesks == {<<>>, MCDesk, [MCDesk EXCEPT ![1].team = "other", ![3].status = "on_hold",
                                   ![3].said = Said(<<"agent", "customer">>)]}
MCNotices == <<[about |-> 1, read |-> FALSE], [about |-> 0, read |-> TRUE]>>
MCAddresses == [view: {"attention", "open", "closed", "?"}, q: {"", "w"},
                priority: {"any", "high"}, status: {"any"}, sort: {"priority", "?"},
                page: {0, 2}]

VARIABLE focus

webVars == <<focus, sessionVars, queryVars, formVars, batchVars, filterVars, workforceVars,
             inboxVars>>
Parties == {"session", "cache", "form", "batch", "filters", "workforce", "inbox"}

WebInit ==
    /\ focus \in Parties
    /\ SessionInit /\ QueryInit /\ FormInit /\ BatchInit /\ FilterInit /\ WorkforceInit /\ InboxInit
    /\ focus # "session" => production
    /\ focus # "cache" => query = "tickets"
    /\ focus # "form" => form = "composer" /\ subject = "ana"
    /\ focus # "filters" => bar = "team"
    /\ focus # "workforce" => role = "org_admin" /\ holds = {} /\ pageSize = 2
    /\ focus # "inbox" => desk = <<>>

WebNext ==
    \/ /\ focus = "session" /\ SessionNext
       /\ UNCHANGED <<focus, queryVars, formVars, batchVars, filterVars,
                      workforceVars, inboxVars>>
    \/ /\ focus = "cache" /\ QueryNext
       /\ UNCHANGED <<focus, sessionVars, formVars, batchVars, filterVars,
                      workforceVars, inboxVars>>
    \/ /\ focus = "form" /\ FormNext
       /\ UNCHANGED <<focus, sessionVars, queryVars, batchVars, filterVars,
                      workforceVars, inboxVars>>
    \/ /\ focus = "batch" /\ BatchNext
       /\ UNCHANGED <<focus, sessionVars, queryVars, formVars, filterVars,
                      workforceVars, inboxVars>>
    \/ /\ focus = "filters" /\ FilterNext
       /\ UNCHANGED <<focus, sessionVars, queryVars, formVars, batchVars,
                      workforceVars, inboxVars>>
    \/ /\ focus = "workforce" /\ WorkforceNext
       /\ UNCHANGED <<focus, sessionVars, queryVars, formVars, batchVars,
                      filterVars, inboxVars>>
    \/ /\ focus = "inbox" /\ InboxNext
       /\ UNCHANGED <<focus, sessionVars, queryVars, formVars, batchVars,
                      filterVars, workforceVars>>

(* The browser goes on with a page load it has begun. *)
LoadGoesOn ==
    /\ focus = "session" /\ Follow
    /\ UNCHANGED <<focus, queryVars, formVars, batchVars, filterVars, workforceVars,
                   inboxVars>>

WebSpec == WebInit /\ [][WebNext]_webVars /\ WF_webVars(LoadGoesOn)

(* Every variable of the component that runs holds a value of its type; in *)
(* particular every open ticket and everybody on a team is on a department *)
(* that exists, through any sequence of changes.                           *)
WebTypeOK ==
    CASE focus = "session" -> SessionTypeOK
      [] focus = "cache" -> QueryTypeOK
      [] focus = "form" -> FormTypeOK
      [] focus = "batch" -> BatchTypeOK
      [] focus = "filters" -> FilterTypeOK
      [] focus = "workforce" -> WorkforceTypeOK
      [] focus = "inbox" -> InboxTypeOK

(* InboxAgrees, where the agent's panel is the component that runs: every  *)
(* badge, card, page and link of the panel agrees with the lists.          *)
AgentPanelAgrees == focus = "inbox" => InboxAgrees

(* RedirectsSettle of Session, where the session is the component that     *)
(* runs: the redirects of the gate never loop.                             *)
LoadsSettle == focus = "session" => RedirectsSettle
=============================================================================
