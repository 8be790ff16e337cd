------------------------------- MODULE MCWsHub -------------------------------
(***************************************************************************)
(* Instances of WsHub for TLC: three connections, of two organizations and *)
(* three apps, and up to three events.                                       *)
(***************************************************************************)
EXTENDS WsHub, TLC

CONSTANTS c1, c2, c3, org1, org2, app1, app2, app3, events, tenant, e1, e2, e3

(* c1 and c2 are of one organization, through two apps; c3 is of another. *)
MCScope == (c1 :> [org |-> org1, app |-> app1]) @@ (c2 :> [org |-> org1, app |-> app2])
           @@ (c3 :> [org |-> org2, app |-> app3])
MCScope2 == (c1 :> [org |-> org1, app |-> app1]) @@ (c2 :> [org |-> org1, app |-> app2])

Event(id, org, app, ch) == [id |-> id, org |-> org, app |-> app, topic |-> ch]

(* An event of the organization and one of an app, on the default channel. *)
TwoEvents == {Event(e1, org1, None, events), Event(e2, org1, app2, events)}

(* The same, with a channel of their topic, and one whose app is not found. *)
OneLost == {Event(e3, org1, app1, tenant)}
ThreeEvents == {Event(e1, org1, None, tenant), Event(e2, org1, app2, tenant)} \cup OneLost
=============================================================================
