------------------------------ MODULE WebProofs ------------------------------
(***************************************************************************)
(* The pages of the web front end together, as MCWeb composes them: a      *)
(* behaviour in which one component runs is a behaviour of that            *)
(* component's specification, so that what is proved of each holds of the  *)
(* whole, for any values of the constants.                                 *)
(***************************************************************************)
EXTENDS MCWeb, ClientProofs, PageProofs, PanelProofs

(* One component's steps, and one component for good. *)
LEMMA OnePartRuns ==
    ASSUME [WebNext]_webVars
    PROVE  /\ focus = "session" => (focus = "session")' /\ [SessionNext]_sessionVars
           /\ focus = "cache" => (focus = "cache")' /\ [QueryNext]_queryVars
           /\ focus = "form" => (focus = "form")' /\ [FormNext]_formVars
           /\ focus = "batch" => (focus = "batch")' /\ [BatchNext]_batchVars
           /\ focus = "filters" => (focus = "filters")' /\ [FilterNext]_filterVars
           /\ focus = "workforce" => (focus = "workforce")' /\ [WorkforceNext]_workforceVars
           /\ focus = "inbox" => (focus = "inbox")' /\ [InboxNext]_inboxVars
  BY DEF WebNext, webVars

(* Each component starts where its own specification does. *)
LEMMA EveryPartStarts ==
    ASSUME WebInit
    PROVE  /\ focus \in Parties
           /\ SessionInit /\ QueryInit /\ FormInit /\ BatchInit /\ FilterInit
           /\ WorkforceInit /\ InboxInit
  BY DEF WebInit

(* Every variable of the component that runs holds a value of its type, in *)
(* every sequence of its steps.                                            *)
THEOREM WebTypeCorrect == WebSpec => []WebTypeOK
  <1>1. WebSpec /\ focus = "cache" => []WebTypeOK
    <2>1. focus = "cache" /\ QueryTypeOK => WebTypeOK
      BY DEF WebTypeOK
    <2> QED
      BY <2>1, OnePartRuns, EveryPartStarts, QueryTypeCorrect, PTL DEF WebSpec, QuerySpec
  <1>2. WebSpec /\ focus = "form" => []WebTypeOK
    <2>1. focus = "form" /\ FormInv => WebTypeOK
      BY DEF WebTypeOK, FormInv
    <2> QED
      BY <2>1, OnePartRuns, EveryPartStarts, FormInductive, PTL DEF WebSpec, FormSpec
  <1>3. WebSpec /\ focus = "batch" => []WebTypeOK
    <2>1. focus = "batch" /\ BatchInv => WebTypeOK
      BY DEF WebTypeOK, BatchInv
    <2> QED
      BY <2>1, OnePartRuns, EveryPartStarts, BatchInductive, PTL DEF WebSpec, BatchSpec
  <1>4. WebSpec /\ focus = "filters" => []WebTypeOK
    <2>1. focus = "filters" /\ FilterTypeOK => WebTypeOK
      BY DEF WebTypeOK
    <2> QED
      BY <2>1, OnePartRuns, EveryPartStarts, FilterTypeCorrect, PTL DEF WebSpec, FilterSpec
  <1>5. WebSpec /\ focus = "workforce" => []WebTypeOK
    <2>1. focus = "workforce" /\ WorkforceTypeOK => WebTypeOK
      BY DEF WebTypeOK
    <2> QED
      BY <2>1, OnePartRuns, EveryPartStarts, WorkforceTypeCorrect, PTL
         DEF WebSpec, WorkforceSpec
  <1>6. WebSpec /\ focus = "inbox" => []WebTypeOK
    <2>1. focus = "inbox" /\ InboxTypeOK => WebTypeOK
      BY DEF WebTypeOK
    <2> QED
      BY <2>1, OnePartRuns, EveryPartStarts, InboxTypeCorrect, PTL DEF WebSpec, InboxSpec
  <1>7. WebSpec /\ focus = "session" => []WebTypeOK
    <2>1. focus = "session" /\ SessionTypeOK => WebTypeOK
      BY DEF WebTypeOK
    <2> QED
      BY <2>1, OnePartRuns, EveryPartStarts, SessionTypeCorrect, PTL DEF WebSpec, SessionSpec
  <1>8. WebInit => \/ focus = "session" \/ focus = "cache" \/ focus = "form"
                   \/ focus = "batch" \/ focus = "filters" \/ focus = "workforce"
                   \/ focus = "inbox"
    BY EveryPartStarts DEF Parties
  <1> QED
    BY <1>1, <1>2, <1>3, <1>4, <1>5, <1>6, <1>7, <1>8, PTL DEF WebSpec

(* Whatever the agent does, on whatever URL, the badges, cards, lists,     *)
(* pages and links of the panel agree (lib/staff/filters.ts, queries.ts).  *)
THEOREM AgentPanelAlwaysAgrees == WebSpec => []AgentPanelAgrees
  <1>1. WebSpec /\ focus = "inbox" => []AgentPanelAgrees
    <2>1. InboxAgrees => AgentPanelAgrees
      BY DEF AgentPanelAgrees
    <2> QED
      BY <2>1, OnePartRuns, EveryPartStarts, PanelAlwaysAgrees, PTL DEF WebSpec, InboxSpec
  <1>2. WebSpec /\ ~(focus = "inbox") => []AgentPanelAgrees
    <2>1. ~(focus = "inbox") => AgentPanelAgrees
      BY DEF AgentPanelAgrees
    <2>2. ~(focus = "inbox") /\ [WebNext]_webVars => (~(focus = "inbox"))'
      BY DEF WebNext, webVars
    <2> QED
      BY <2>1, <2>2, PTL DEF WebSpec
  <1> QED
    BY <1>1, <1>2
=============================================================================
