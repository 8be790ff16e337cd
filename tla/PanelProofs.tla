----------------------------- MODULE PanelProofs -----------------------------
(***************************************************************************)
(* Proofs that screens agree with one another.  Workforce, for any         *)
(* organization and any number of changes to it: the owner's screens,      *)
(* whenever the three answers they are derived from were read from one     *)
(* state of the organization.  Inbox, for any fixtures, notifications and  *)
(* addresses: the agent's badges, cards, lists, pages and links, on every  *)
(* URL.  The numbers they compare are sums and sizes of finite sets, so    *)
(* the module starts with the library's sum.                               *)
(***************************************************************************)
EXTENDS Workforce, Inbox, FiniteSetTheorems, SequenceTheorems, TLAPS

-----------------------------------------------------------------------------
(* Sums and sizes. *)

(* The library takes the elements of a set in an order of its own, by a    *)
(* recursive function that it chooses; IsSum says which ones it may.       *)
Pick(s) == CHOOSE x \in s : TRUE
IsSum(g, f, S) ==
    g = [s \in SUBSET S |-> IF s = {} THEN 0 ELSE f[Pick(s)] + g[s \ {Pick(s)}]]

(* Among sets of subsets of a finite set there is one without a smaller    *)
(* one: the form of induction used below.                                  *)
LEMMA SmallestSet ==
    ASSUME NEW S, IsFiniteSet(S), NEW B, B \subseteq SUBSET S, B # {}
    PROVE  \E T \in B : \A U \in B : U \subseteq T => U = T
  <1>1. IsWellFoundedOn(StrictSubsetOrdering(S), SUBSET S)
    BY FS_FiniteSubsetsOfFinite, FS_StrictSubsetOrderingWellFounded
  <1>2. \E T \in B : \A U \in B : ~(<<U, T>> \in StrictSubsetOrdering(S))
    BY <1>1, WFMin, Zenon
  <1> QED
    BY <1>2 DEF StrictSubsetOrdering

(* The library sums with a recursive function that it chooses.             *)
LEMMA SumUnfold ==
    ASSUME NEW f, NEW S
    PROVE  SumFunctionOnSet(f, S) = (CHOOSE g : IsSum(g, f, S))[S]
  BY DEF SumFunctionOnSet, FoldFunctionOnSet, MapThenFoldSet, IsSum, Pick

(* Two such functions agree where both are defined.                        *)
LEMMA SumUnique ==
    ASSUME NEW f, NEW A, NEW B, IsFiniteSet(A), NEW g, NEW h, IsSum(g, f, A), IsSum(h, f, B),
           NEW T, T \subseteq A, T \subseteq B
    PROVE  g[T] = h[T]
  <1> DEFINE Bad == {s \in SUBSET T : g[s] # h[s]}
  <1> SUFFICES ASSUME Bad # {} PROVE FALSE
    OBVIOUS
  <1>1. IsFiniteSet(T)
    BY FS_Subset
  <1>2. PICK s \in Bad : \A u \in Bad : u \subseteq s => u = s
    <2>1. Bad \subseteq SUBSET T
      OBVIOUS
    <2> HIDE DEF Bad
    <2> QED
      BY <1>1, <2>1, SmallestSet
  <1>3. s \in SUBSET A /\ s \in SUBSET B /\ g[s] # h[s]
    OBVIOUS
  <1>4. /\ g[s] = IF s = {} THEN 0 ELSE f[Pick(s)] + g[s \ {Pick(s)}]
        /\ h[s] = IF s = {} THEN 0 ELSE f[Pick(s)] + h[s \ {Pick(s)}]
    BY <1>3 DEF IsSum
  <1>5. s # {} /\ g[s \ {Pick(s)}] # h[s \ {Pick(s)}]
    BY <1>3, <1>4
  <1>6. Pick(s) \in s
    BY <1>5 DEF Pick
  <1>7. s \ {Pick(s)} \in Bad
    BY <1>5
  <1> QED
    BY <1>2, <1>6, <1>7

(* There is one over every finite set.                                     *)
LEMMA SumExists ==
    ASSUME NEW f, NEW S, IsFiniteSet(S)
    PROVE  \E g : IsSum(g, f, S)
  <1> DEFINE Bad == {T \in SUBSET S : ~\E g : IsSum(g, f, T)}
  <1> SUFFICES ASSUME Bad # {} PROVE FALSE
    OBVIOUS
  <1>1. PICK T \in Bad : \A u \in Bad : u \subseteq T => u = T
    <2>1. Bad \subseteq SUBSET S
      OBVIOUS
    <2> HIDE DEF Bad
    <2> QED
      BY <2>1, SmallestSet
  <1>2. T \subseteq S /\ IsFiniteSet(T) /\ ~\E g : IsSum(g, f, T)
    BY FS_Subset
  <1> DEFINE H(u) == CHOOSE g : IsSum(g, f, u)
             Rest(s) == s \ {Pick(s)}
             G == [s \in SUBSET T |-> IF s = {} THEN 0 ELSE f[Pick(s)] + H(Rest(s))[Rest(s)]]
  <1>3. ASSUME NEW u \in SUBSET T, u # T PROVE IsSum(H(u), f, u) /\ IsFiniteSet(u)
    <2>1. \E g : IsSum(g, f, u)
      BY <1>1, <1>2, <1>3
    <2>2. IsFiniteSet(u)
      BY <1>2, FS_Subset
    <2> QED
      BY <2>1, <2>2
  <1>4. ASSUME NEW s \in SUBSET T, s # {} PROVE Rest(s) \in SUBSET T /\ Rest(s) # T
    BY <1>4 DEF Pick
  <1>5. ASSUME NEW u \in SUBSET T, u # T PROVE G[u] = H(u)[u]
    <2>1. IsSum(H(u), f, u) /\ u \in SUBSET u
      BY <1>3, <1>5
    <2>2. H(u)[u] = IF u = {} THEN 0 ELSE f[Pick(u)] + H(u)[Rest(u)]
      <3> HIDE DEF H
      <3> QED BY <2>1 DEF IsSum
    <2>3. G[u] = IF u = {} THEN 0 ELSE f[Pick(u)] + H(Rest(u))[Rest(u)]
      OBVIOUS
    <2>4. CASE u # {}
      <3>1. /\ IsSum(H(Rest(u)), f, Rest(u)) /\ IsFiniteSet(Rest(u))
            /\ Rest(u) \subseteq u /\ Rest(u) \subseteq Rest(u)
        BY <1>3, <1>4, <2>4
      <3>2. H(Rest(u))[Rest(u)] = H(u)[Rest(u)]
        <4> HIDE DEF H, Rest
        <4> QED BY <2>1, <3>1, SumUnique
      <3> QED
        BY <2>2, <2>3, <2>4, <3>2
    <2> QED
      BY <2>2, <2>3, <2>4
  <1>6. G = [s \in SUBSET T |-> IF s = {} THEN 0 ELSE f[Pick(s)] + G[Rest(s)]]
    <2>1. \A s \in SUBSET T : s # {} => G[Rest(s)] = H(Rest(s))[Rest(s)]
      BY <1>4, <1>5
    <2> HIDE DEF H, Rest
    <2> QED
      BY <2>1
  <1>7. IsSum(G, f, T)
    <2> HIDE DEF H, G
    <2> QED BY <1>6 DEF IsSum
  <1> QED
    BY <1>2, <1>7

(* So the library's sum is the value of one.                               *)
LEMMA SumIs ==
    ASSUME NEW f, NEW S, IsFiniteSet(S)
    PROVE  \E g : IsSum(g, f, S) /\ SumFunctionOnSet(f, S) = g[S]
  <1>1. IsSum(CHOOSE g : IsSum(g, f, S), f, S)
    BY SumExists, Zenon
  <1> QED
    BY <1>1, SumUnfold

(* The empty sum.                                                          *)
LEMMA SumEmpty == ASSUME NEW f PROVE SumFunctionOnSet(f, {}) = 0
  <1>1. PICK g : IsSum(g, f, {}) /\ SumFunctionOnSet(f, {}) = g[{}]
    BY SumIs, FS_EmptySet
  <1> QED
    BY <1>1 DEF IsSum

(* A sum, one element at a time.                                           *)
LEMMA SumStep ==
    ASSUME NEW f, NEW S, IsFiniteSet(S), S # {}
    PROVE  \E x \in S : SumFunctionOnSet(f, S) = f[x] + SumFunctionOnSet(f, S \ {x})
  <1> DEFINE x == Pick(S)
  <1>1. x \in S
    BY DEF Pick
  <1>2. PICK g : IsSum(g, f, S) /\ SumFunctionOnSet(f, S) = g[S]
    BY SumIs
  <1>3. IsFiniteSet(S \ {x})
    BY FS_Subset
  <1>4. PICK h : IsSum(h, f, S \ {x}) /\ SumFunctionOnSet(f, S \ {x}) = h[S \ {x}]
    BY <1>3, SumIs
  <1>5. g[S \ {x}] = h[S \ {x}]
    BY <1>2, <1>4, SumUnique
  <1>6. g[S] = f[x] + g[S \ {x}]
    BY <1>2 DEF IsSum
  <1> QED
    BY <1>1, <1>2, <1>4, <1>5, <1>6

(* Sizes of disjoint sets add up.                                          *)
LEMMA DisjointUnion ==
    ASSUME NEW A, NEW B, IsFiniteSet(A), IsFiniteSet(B), A \cap B = {}
    PROVE  Cardinality(A \cup B) = Cardinality(A) + Cardinality(B)
  <1>1. Cardinality(A \cup B) = Cardinality(A) + Cardinality(B) - Cardinality(A \cap B)
    BY FS_Union
  <1>2. Cardinality(A) \in Nat /\ Cardinality(B) \in Nat /\ Cardinality(A \cap B) = 0
    BY FS_CardinalityType, FS_EmptySet
  <1> QED
    BY <1>1, <1>2

(* Counting per key and adding up is counting all at once.                 *)
LEMMA CountByKey ==
    ASSUME NEW T, IsFiniteSet(T), NEW k, NEW S, IsFiniteSet(S), NEW f,
           \A x \in S : f[x] = Cardinality({t \in T : k[t] = x})
    PROVE  SumFunctionOnSet(f, S) = Cardinality({t \in T : k[t] \in S})
  <1> DEFINE In(U) == {t \in T : k[t] \in U}
             Bad == {U \in SUBSET S : SumFunctionOnSet(f, U) # Cardinality(In(U))}
  <1> SUFFICES ASSUME Bad # {} PROVE FALSE
    OBVIOUS
  <1>1. PICK U \in Bad : \A V \in Bad : V \subseteq U => V = U
    <2>1. Bad \subseteq SUBSET S
      OBVIOUS
    <2> HIDE DEF Bad
    <2> QED
      BY <2>1, SmallestSet
  <1>2. U \subseteq S /\ IsFiniteSet(U) /\ SumFunctionOnSet(f, U) # Cardinality(In(U))
    BY FS_Subset
  <1>3. U # {}
    <2>1. In({}) = {}
      OBVIOUS
    <2> HIDE DEF In
    <2> QED
      BY <1>2, <2>1, SumEmpty, FS_EmptySet
  <1>4. PICK x \in U : SumFunctionOnSet(f, U) = f[x] + SumFunctionOnSet(f, U \ {x})
    BY <1>2, <1>3, SumStep
  <1>5. SumFunctionOnSet(f, U \ {x}) = Cardinality(In(U \ {x}))
    BY <1>1, <1>2, <1>4
  <1>6. f[x] = Cardinality(In({x}))
    <2>1. In({x}) = {t \in T : k[t] = x}
      OBVIOUS
    <2> HIDE DEF In
    <2> QED
      BY <1>2, <2>1
  <1>7. In(U) = In({x}) \cup In(U \ {x}) /\ In({x}) \cap In(U \ {x}) = {}
    OBVIOUS
  <1>8. IsFiniteSet(In({x})) /\ IsFiniteSet(In(U \ {x}))
    BY FS_Subset
  <1> HIDE DEF In
  <1>9. Cardinality(In(U)) = Cardinality(In({x})) + Cardinality(In(U \ {x}))
    BY <1>7, <1>8, DisjointUnion
  <1> QED
    BY <1>2, <1>4, <1>5, <1>6, <1>9

-----------------------------------------------------------------------------
(* What an answer says, as a matter of one organization. *)

ListingOf(o, part) ==
    CASE part = "roster" -> o.place
      [] part = "departments" -> [d \in o.teams |-> Cardinality({p \in Staff : o.place[p] = d})]
      [] part = "tickets" -> o.queue

(* Everybody on a team, and every open ticket, is on a department that exists. *)
Coherent(o) ==
    /\ o \in Organization
    /\ o.place \in [Staff -> o.teams \cup {NoTeam}]
    /\ \A t \in DOMAIN o.queue : o.queue[t].team \in o.teams

(* An answer read from o: rows of o, all of them when they are the         *)
(* departments, and their true number.                                     *)
ReadFrom(o, part, answer) ==
    /\ IsRestriction(answer.rows, ListingOf(o, part))
    /\ answer.status = "ok" =>
          /\ answer.total = Cardinality(DOMAIN ListingOf(o, part))
          /\ part = "departments" => answer.rows = ListingOf(o, part)

(* Answers between which the organization did not change were read from    *)
(* one organization; those that are under way, from the present one.       *)
SnapshotInv ==
    /\ ~torn => \A part \in Parts : ReadFrom(org, part, reads[part])
    /\ ~tornLoaded => \E o \in Organization :
          Coherent(o) /\ \A part \in Parts : ReadFrom(o, part, loaded[part])

(* The inductive invariant. *)
WorkforceInv ==
    /\ WorkforceTypeOK
    /\ DOMAIN reads = Parts
    /\ DOMAIN loaded = Parts
    /\ SnapshotInv
    /\ \A part \in Parts : reads[part].status # "ok" => DOMAIN reads[part].rows = {}

-----------------------------------------------------------------------------
(* The shapes of the values. *)

(* A function on some of the keys is a partial function. *)
LEMMA PartialIntro ==
    ASSUME NEW K, NEW R, NEW s \in SUBSET K, NEW f \in [s -> R]
    PROVE  f \in UNION {[u -> R] : u \in SUBSET K}
  OBVIOUS

(* A partial function has some of the keys as its domain.                  *)
LEMMA PartialElim ==
    ASSUME NEW K, NEW R, NEW f \in UNION {[u -> R] : u \in SUBSET K}
    PROVE  DOMAIN f \subseteq K /\ f \in [DOMAIN f -> R]
  OBVIOUS

(* The rows an answer may have: what they are about, and what they say. *)
Keys(part) ==
    CASE part = "roster" -> Staff [] part = "departments" -> Departments
      [] part = "tickets" -> Tickets
Row(part) ==
    CASE part = "roster" -> Departments \cup {NoTeam}
      [] part = "departments" -> 0..Cardinality(Staff)
      [] part = "tickets" -> Queued
PartStatuses == {"none", "sent", "ok"} \cup Failures

(* An answer is a record of a status, a partial function and a number. *)
LEMMA AnswerShape ==
    ASSUME NEW part \in Parts, NEW answer
    PROVE  answer \in Answers3(part) <=>
              answer \in [status: PartStatuses,
                          rows: UNION {[s -> Row(part)] : s \in SUBSET Keys(part)}, total: Nat]
  BY DEF Answers3, Keys, Row, PartStatuses

(* What makes an answer.                                                   *)
LEMMA AnswerIntro ==
    ASSUME NEW part \in Parts, NEW st \in PartStatuses, NEW n \in Nat,
           NEW s \in SUBSET Keys(part), NEW rows \in [s -> Row(part)]
    PROVE  [status |-> st, rows |-> rows, total |-> n] \in Answers3(part)
  <1>1. rows \in UNION {[u -> Row(part)] : u \in SUBSET Keys(part)}
    BY PartialIntro
  <1> QED
    BY <1>1, AnswerShape

(* What an answer consists of.                                             *)
LEMMA AnswerElim ==
    ASSUME NEW part \in Parts, NEW answer \in Answers3(part)
    PROVE  /\ answer.status \in PartStatuses /\ answer.total \in Nat
           /\ DOMAIN answer.rows \subseteq Keys(part)
           /\ answer.rows \in [DOMAIN answer.rows -> Row(part)]
  <1>1. answer \in [status: PartStatuses,
                    rows: UNION {[s -> Row(part)] : s \in SUBSET Keys(part)}, total: Nat]
    BY AnswerShape
  <1>2. answer.rows \in UNION {[s -> Row(part)] : s \in SUBSET Keys(part)}
    BY <1>1
  <1> QED
    BY <1>1, <1>2, PartialElim

(* A request without an answer has no rows. *)
LEMMA NoRows ==
    ASSUME NEW part \in Parts, NEW st \in PartStatuses
    PROVE  /\ Without(st) \in Answers3(part)
           /\ DOMAIN Without(st).rows = {}
           /\ Without(st).status = st
           /\ \A o : st # "ok" => ReadFrom(o, part, Without(st))
  <1>1. <<>> \in [{} -> Row(part)] /\ DOMAIN <<>> = {}
    OBVIOUS
  <1>2. Without(st) \in Answers3(part)
    BY <1>1, AnswerIntro, {} \in SUBSET Keys(part), 0 \in Nat DEF Without
  <1> QED
    BY <1>1, <1>2 DEF Without, ReadFrom, IsRestriction

(* What an organization consists of.                                       *)
LEMMA OrganizationElim ==
    ASSUME NEW o \in Organization
    PROVE  /\ o = [teams |-> o.teams, place |-> o.place, queue |-> o.queue]
           /\ o.teams \subseteq Departments
           /\ o.place \in [Staff -> Departments \cup {NoTeam}]
           /\ DOMAIN o.queue \subseteq Tickets
           /\ o.queue \in [DOMAIN o.queue -> Queued]
  <1>1. /\ o.teams \subseteq Departments
        /\ o.place \in [Staff -> Departments \cup {NoTeam}]
        /\ o.queue \in UNION {[u -> Queued] : u \in SUBSET Tickets}
        /\ o = [teams |-> o.teams, place |-> o.place, queue |-> o.queue]
    BY DEF Organization
  <1> QED
    BY <1>1, PartialElim

(* What makes a coherent organization.                                     *)
LEMMA OrganizationIntro ==
    ASSUME NEW teams \in SUBSET Departments, NEW places \in [Staff -> teams \cup {NoTeam}],
           NEW open \in SUBSET Tickets, NEW queue \in [open -> Queued],
           \A t \in open : queue[t].team \in teams
    PROVE  Coherent([teams |-> teams, place |-> places, queue |-> queue])
  <1>1. queue \in UNION {[u -> Queued] : u \in SUBSET Tickets}
    BY PartialIntro
  <1>2. places \in [Staff -> Departments \cup {NoTeam}]
    OBVIOUS
  <1> QED
    BY <1>1, <1>2 DEF Coherent, Organization

(* The three lists of a coherent organization. *)
LEMMA ListingShape ==
    ASSUME NEW o, Coherent(o), NEW part \in Parts
    PROVE  /\ DOMAIN ListingOf(o, part) \subseteq Keys(part)
           /\ ListingOf(o, part) \in [DOMAIN ListingOf(o, part) -> Row(part)]
           /\ IsFiniteSet(DOMAIN ListingOf(o, part))
  <1>1. /\ o.teams \subseteq Departments /\ DOMAIN o.place = Staff
        /\ o.place \in [Staff -> Departments \cup {NoTeam}]
        /\ DOMAIN o.queue \subseteq Tickets
        /\ o.queue \in [DOMAIN o.queue -> Queued]
    BY OrganizationElim DEF Coherent
  <1>2. \A d : Cardinality({p \in Staff : o.place[p] = d}) \in 0..Cardinality(Staff)
    <2> TAKE d
    <2> DEFINE S == {p \in Staff : o.place[p] = d}
    <2>1. S \subseteq Staff /\ IsFiniteSet(Staff)
      BY WorkforceConstants
    <2>2. IsFiniteSet(S) /\ Cardinality(S) <= Cardinality(Staff)
      BY <2>1, FS_Subset
    <2>3. Cardinality(S) \in Nat /\ Cardinality(Staff) \in Nat
      BY <2>1, <2>2, FS_CardinalityType
    <2> HIDE DEF S
    <2>4. Cardinality(S) \in 0..Cardinality(Staff)
      BY <2>2, <2>3
    <2> QED
      BY <2>4 DEF S
  <1>3. /\ DOMAIN ListingOf(o, part) \subseteq Keys(part)
        /\ ListingOf(o, part) \in [DOMAIN ListingOf(o, part) -> Row(part)]
    BY <1>1, <1>2 DEF ListingOf, Keys, Row, Parts
  <1>4. IsFiniteSet(Keys(part))
    BY WorkforceConstants DEF Keys, Parts
  <1> QED
    BY <1>3, <1>4, FS_Subset

-----------------------------------------------------------------------------
(* Type correctness and the snapshots. *)

(* Three answers of one failed or missing kind. *)
LEMMA AllShape ==
    ASSUME NEW st \in PartStatuses \ {"ok"}
    PROVE  /\ DOMAIN All(st) = Parts
           /\ \A part \in Parts : /\ All(st)[part] = Without(st)
                                  /\ All(st)[part] \in Answers3(part)
                                  /\ DOMAIN All(st)[part].rows = {}
                                  /\ \A o : ReadFrom(o, part, All(st)[part])
  <1>1. DOMAIN All(st) = Parts /\ \A part \in Parts : All(st)[part] = Without(st)
    BY DEF All
  <1> QED
    BY <1>1, NoRows

(* The organization the page starts with is coherent.                      *)
LEMMA StartCoherent == Coherent(Start)
  BY WorkforceConstants DEF Coherent

(* The page starts with no answer.                                         *)
LEMMA WorkforceInitInv == WorkforceInit => WorkforceInv
  <1> SUFFICES ASSUME WorkforceInit PROVE WorkforceInv
    OBVIOUS
  <1> USE DEF WorkforceInit
  <1>1. "sent" \in PartStatuses \ {"ok"} /\ "none" \in PartStatuses \ {"ok"}
    BY DEF PartStatuses
  <1>2. \A part \in Parts : {reads[part], loaded[part]} \subseteq Answers3(part)
    BY <1>1, AllShape
  <1>3. org \in Organization /\ Main \in org.teams /\ Coherent(org)
    BY StartCoherent, WorkforceConstants
  <1>4. holds \subseteq Permissions
    BY DEF RolePermissions, Permissions, KnownRoles, PanelRoles
  <1>5. WorkforceTypeOK
    <2>1. changes = 0 /\ MaxChanges \in Nat
      BY WorkforceConstants
    <2>2. changes \in 0..MaxChanges
      BY ONLY <2>1
    <2>3. /\ absent \subseteq Departments /\ role \in PanelRoles
          /\ pageSize \in {1, 2} /\ thrown \in {"none"} \cup Failures
          /\ torn \in BOOLEAN /\ tornLoaded \in BOOLEAN
      OBVIOUS
    <2>4. /\ org.place \in [Staff -> org.teams \cup {NoTeam}]
          /\ \A t \in DOMAIN org.queue : org.queue[t].team \in org.teams
      BY <1>3 DEF Coherent
    <2> QED
      BY <1>2, <1>3, <1>4, <2>2, <2>3, <2>4 DEF WorkforceTypeOK
  <1>6. SnapshotInv
    BY <1>1, <1>3, AllShape DEF SnapshotInv
  <1> QED
    BY <1>1, <1>5, <1>6, AllShape DEF WorkforceInv

(* The type of the organization makes it coherent.                         *)
LEMMA OrgCoherent == ASSUME WorkforceTypeOK PROVE Coherent(org)
  BY DEF WorkforceTypeOK, Coherent

(* Three new requests. *)
LEMMA Begins3Keeps ==
    ASSUME Begins3
    PROVE  /\ DOMAIN reads' = Parts
           /\ torn' = FALSE
           /\ WorkforceTypeOK => thrown' \in {"none"} \cup Failures
           /\ \A part \in Parts : /\ reads'[part] \in Answers3(part)
                                  /\ DOMAIN reads'[part].rows = {}
                                  /\ \A o : ReadFrom(o, part, reads'[part])
  <1>1. "sent" \in PartStatuses \ {"ok"} /\ reads' = All("sent") /\ torn' = FALSE
    BY DEF PartStatuses, Begins3
  <1>2. WorkforceTypeOK => thrown' \in {"none"} \cup Failures
    BY DEF Begins3, WorkforceTypeOK
  <1> QED
    BY <1>1, <1>2, AllShape

(* The type of an answer depends on no variable.                           *)
LEMMA AnswersType ==
    ASSUME NEW part \in Parts
    PROVE  Answers3(part)' = Answers3(part)
  BY DEF Answers3

(* A load starts: nothing has come yet.                                    *)
LEMMA ReloadInv == ASSUME WorkforceInv, Reload PROVE WorkforceInv'
  <1>1. Begins3 /\ UNCHANGED <<org, changes, absent, session, loaded, tornLoaded>>
    BY DEF Reload
  <1>2. WorkforceTypeOK'
    BY <1>1, Begins3Keeps DEF WorkforceInv, WorkforceTypeOK, session
  <1>3. SnapshotInv'
    BY <1>1, Begins3Keeps DEF WorkforceInv, SnapshotInv
  <1> QED
    BY <1>1, <1>2, <1>3, Begins3Keeps DEF WorkforceInv

(* One of the requests is settled with the answer a. *)
LEMMA PartSettles ==
    ASSUME WorkforceInv, NEW part \in Parts, NEW a \in Answers3(part),
           reads' = [reads EXCEPT ![part] = a],
           ~torn => ReadFrom(org, part, a),
           a.status # "ok" => DOMAIN a.rows = {},
           UNCHANGED <<org, changes, absent, session, loaded, thrown, torn, tornLoaded>>
    PROVE  WorkforceInv'
  <1>1. DOMAIN reads' = Parts /\ \A q \in Parts : reads'[q] = IF q = part THEN a ELSE reads[q]
    BY DEF WorkforceInv
  <1>2. WorkforceTypeOK'
    BY <1>1 DEF WorkforceInv, WorkforceTypeOK, session
  <1>3. SnapshotInv'
    BY <1>1 DEF WorkforceInv, SnapshotInv
  <1> QED
    BY <1>1, <1>2, <1>3 DEF WorkforceInv

(* A request of the page load is answered from the present organization.   *)
LEMMA AnswerPartInv ==
    ASSUME WorkforceInv, NEW part \in Parts, AnswerPart(part)
    PROVE  WorkforceInv'
  <1> USE DEF AnswerPart
  <1>1. CASE ~MayRead(part)
    <2>1. "forbidden" \in PartStatuses
      BY DEF PartStatuses, Failures
    <2> QED
      BY <1>1, <2>1, NoRows, PartSettles
  <1>2. CASE MayRead(part)
    <2> DEFINE whole == ListingOf(org, part)
    <2>1. Listing(part) = whole
      BY DEF Listing, ListingOf, On, Parts
    <2>2. /\ DOMAIN whole \subseteq Keys(part) /\ whole \in [DOMAIN whole -> Row(part)]
          /\ IsFiniteSet(DOMAIN whole)
      BY OrgCoherent, ListingShape DEF WorkforceInv
    <2>3. PICK rows \in Cut(part, whole) :
             reads' = [reads EXCEPT ![part] = [status |-> "ok", rows |-> rows,
                                               total |-> Cardinality(DOMAIN whole)]]
      BY <1>2, <2>1
    <2> HIDE DEF whole
    <2>4. /\ DOMAIN rows \subseteq DOMAIN whole /\ rows \in [DOMAIN rows -> Row(part)]
          /\ IsRestriction(rows, whole)
          /\ part = "departments" => rows = whole
      BY <2>2, <2>3 DEF Cut, Restrict, kSubset, IsRestriction
    <2> DEFINE a == [status |-> "ok", rows |-> rows, total |-> Cardinality(DOMAIN whole)]
    <2>5. a \in Answers3(part)
      <3>1. Cardinality(DOMAIN whole) \in Nat /\ DOMAIN rows \in SUBSET Keys(part)
        BY <2>2, <2>4, FS_CardinalityType
      <3> QED
        BY <2>4, <3>1, AnswerIntro DEF PartStatuses
    <2>6. ReadFrom(org, part, a)
      BY <2>4 DEF ReadFrom, whole
    <2> QED
      BY <2>3, <2>5, <2>6, PartSettles
  <1> QED
    BY <1>1, <1>2

(* A request of the page load fails.                                       *)
LEMMA FailPartInv ==
    ASSUME WorkforceInv, NEW part \in Parts, FailPart(part)
    PROVE  WorkforceInv'
  <1>1. "failed" \in PartStatuses
    BY DEF PartStatuses, Failures
  <1> QED
    BY <1>1, NoRows, PartSettles DEF FailPart

(* The last answer completes the load: what was read is shown.             *)
LEMMA SettleInv == ASSUME WorkforceInv, Settle PROVE WorkforceInv'
  <1> USE DEF Settle
  <1>1. "none" \in PartStatuses \ {"ok"}
    BY DEF PartStatuses
  <1>2. /\ DOMAIN reads' = Parts
        /\ \A part \in Parts : /\ reads'[part] \in Answers3(part)
                               /\ DOMAIN reads'[part].rows = {}
                               /\ \A o : ReadFrom(o, part, reads'[part])
    BY <1>1, AllShape
  <1>3. WorkforceTypeOK'
    BY <1>2 DEF WorkforceInv, WorkforceTypeOK, session
  <1>4. SnapshotInv'
    <2>1. ~tornLoaded' => \E o \in Organization :
             Coherent(o) /\ \A part \in Parts : ReadFrom(o, part, loaded'[part])
      BY OrgCoherent DEF WorkforceInv, SnapshotInv, WorkforceTypeOK
    <2> QED
      BY <1>2, <2>1 DEF SnapshotInv
  <1> QED
    BY <1>2, <1>3, <1>4 DEF WorkforceInv

(* Everything failed: the load starts again, or its error is shown.        *)
LEMMA ThrowInv ==
    ASSUME WorkforceInv, NEW again \in BOOLEAN, Throw(again)
    PROVE  WorkforceInv'
  <1> USE DEF Throw
  <1>1. CASE again
    <2>1. Begins3 /\ UNCHANGED <<org, changes, absent, session, loaded, tornLoaded>>
      BY <1>1
    <2> QED
      BY <2>1, ReloadInv DEF Reload
  <1>2. CASE ~again
    <2>1. "none" \in PartStatuses \ {"ok"} /\ "departments" \in Parts
      BY DEF PartStatuses, Parts
    <2>2. /\ DOMAIN reads' = Parts
          /\ \A part \in Parts : /\ reads'[part] \in Answers3(part)
                                 /\ DOMAIN reads'[part].rows = {}
                                 /\ \A o : ReadFrom(o, part, reads'[part])
      BY <1>2, <2>1, AllShape
    <2>3. thrown' \in Failures
      BY <1>2, <2>1 DEF TotalFailure
    <2>4. WorkforceTypeOK'
      BY <1>2, <2>2, <2>3 DEF WorkforceInv, WorkforceTypeOK, session
    <2>5. SnapshotInv'
      BY <1>2, <2>2 DEF WorkforceInv, SnapshotInv
    <2> QED
      BY <1>2, <2>2, <2>4, <2>5 DEF WorkforceInv
  <1> QED
    BY <1>1, <1>2

(* The organization becomes another coherent one. *)
LEMMA BecomesInv ==
    ASSUME WorkforceInv, NEW new, Coherent(new), Main \in new.teams,
           NEW here \in BOOLEAN, Becomes(new, here)
    PROVE  WorkforceInv'
  <1> USE DEF Becomes
  <1>1. org' = new /\ new \in Organization
    BY DEF Coherent
  <1>2. changes' \in 0..MaxChanges /\ absent' \subseteq Departments
    BY WorkforceConstants DEF WorkforceInv, WorkforceTypeOK
  <1>3. CASE here
    <2>1. Begins3
      BY <1>3
    <2>2. WorkforceTypeOK'
      BY <1>1, <1>2, <2>1, Begins3Keeps DEF WorkforceInv, WorkforceTypeOK, session, Coherent
    <2>3. SnapshotInv'
      BY <2>1, Begins3Keeps DEF WorkforceInv, SnapshotInv
    <2> QED
      BY <2>1, <2>2, <2>3, Begins3Keeps DEF WorkforceInv
  <1>4. CASE ~here
    <2>1. WorkforceTypeOK'
      BY <1>1, <1>2, <1>4 DEF WorkforceInv, WorkforceTypeOK, session, Coherent
    <2>2. ~torn' => \A part \in Parts : ReadFrom(new, part, reads[part])
      BY <1>4 DEF WorkforceInv, ReadFrom, IsRestriction
    <2>3. SnapshotInv'
      BY <1>1, <1>4, <2>2 DEF WorkforceInv, SnapshotInv
    <2> QED
      BY <1>4, <2>1, <2>3 DEF WorkforceInv
  <1> QED
    BY <1>3, <1>4

(* Somebody changes teams.                                                 *)
LEMMA SetStaffDepartmentInv ==
    ASSUME WorkforceInv, NEW p \in Staff, NEW d \in Departments \cup {NoTeam},
           NEW here \in BOOLEAN, SetStaffDepartment(p, d, here)
    PROVE  WorkforceInv'
  <1> DEFINE new == [org EXCEPT !.place[p] = d]
             places == [org.place EXCEPT ![p] = d]
  <1>1. /\ org \in Organization /\ Main \in org.teams
        /\ org.place \in [Staff -> org.teams \cup {NoTeam}]
        /\ \A t \in DOMAIN org.queue : org.queue[t].team \in org.teams
    BY DEF WorkforceInv, WorkforceTypeOK
  <1>2. /\ org = [teams |-> org.teams, place |-> org.place, queue |-> org.queue]
        /\ org.teams \in SUBSET Departments /\ DOMAIN org.queue \in SUBSET Tickets
        /\ org.queue \in [DOMAIN org.queue -> Queued]
    BY <1>1, OrganizationElim
  <1>3. d \in org.teams \cup {NoTeam} /\ Becomes(new, here)
    BY DEF SetStaffDepartment
  <1>4. new = [teams |-> org.teams, place |-> places, queue |-> org.queue]
    BY <1>2
  <1>5. places \in [Staff -> org.teams \cup {NoTeam}]
    BY <1>1, <1>3
  <1> HIDE DEF new, places
  <1>6. Coherent(new) /\ Main \in new.teams
    BY <1>1, <1>2, <1>4, <1>5, OrganizationIntro
  <1> QED
    BY <1>3, <1>6, BecomesInv

(* A department is added.                                                  *)
LEMMA CreateDepartmentInv ==
    ASSUME WorkforceInv, NEW d \in Departments, NEW here \in BOOLEAN, CreateDepartment(d, here)
    PROVE  WorkforceInv'
  <1> DEFINE new == [org EXCEPT !.teams = @ \cup {d}]
             teams == org.teams \cup {d}
  <1>1. /\ org \in Organization /\ Main \in org.teams
        /\ org.place \in [Staff -> org.teams \cup {NoTeam}]
        /\ \A t \in DOMAIN org.queue : org.queue[t].team \in org.teams
    BY DEF WorkforceInv, WorkforceTypeOK
  <1>2. /\ org = [teams |-> org.teams, place |-> org.place, queue |-> org.queue]
        /\ org.teams \in SUBSET Departments /\ DOMAIN org.queue \in SUBSET Tickets
        /\ org.queue \in [DOMAIN org.queue -> Queued]
    BY <1>1, OrganizationElim
  <1>3. Becomes(new, here)
    BY DEF CreateDepartment
  <1>4. new = [teams |-> teams, place |-> org.place, queue |-> org.queue]
    BY <1>2
  <1>5. /\ org.place \in [Staff -> teams \cup {NoTeam}] /\ Main \in teams
        /\ teams \in SUBSET Departments
        /\ \A t \in DOMAIN org.queue : org.queue[t].team \in teams
    BY <1>1, <1>2
  <1> HIDE DEF new, teams
  <1>6. Coherent(new) /\ Main \in new.teams
    BY <1>2, <1>4, <1>5, OrganizationIntro
  <1> QED
    BY <1>3, <1>6, BecomesInv

(* The hard one: nobody is left on the department that goes, and no ticket. *)
LEMMA DeleteDepartmentInv ==
    ASSUME WorkforceInv, NEW d \in Departments, NEW here \in BOOLEAN, DeleteDepartment(d, here)
    PROVE  WorkforceInv'
  <1> DEFINE teams == org.teams \ {d}
             open == DOMAIN org.queue
             places == [p \in Staff |-> IF org.place[p] = d THEN NoTeam ELSE org.place[p]]
             queue == [t \in open |-> IF org.queue[t].team = d
                                      THEN [org.queue[t] EXCEPT !.team = Main]
                                      ELSE org.queue[t]]
             new == [teams |-> teams, place |-> places, queue |-> queue]
  <1>1. /\ org \in Organization /\ Main \in org.teams
        /\ org.place \in [Staff -> org.teams \cup {NoTeam}]
        /\ \A t \in DOMAIN org.queue : org.queue[t].team \in org.teams
    BY DEF WorkforceInv, WorkforceTypeOK
  <1>2. /\ org.teams \in SUBSET Departments /\ open \in SUBSET Tickets
        /\ org.queue \in [open -> Queued]
    BY <1>1, OrganizationElim
  <1>3. d # Main /\ Becomes(new, here)
    BY DEF DeleteDepartment
  <1>4. teams \in SUBSET Departments /\ Main \in teams /\ Main \in Departments
    BY <1>1, <1>2, <1>3
  <1>5. places \in [Staff -> teams \cup {NoTeam}]
    BY <1>1
  <1>6. queue \in [open -> Queued] /\ \A t \in open : queue[t].team \in teams
    <2> SUFFICES ASSUME NEW t \in open PROVE queue[t] \in Queued /\ queue[t].team \in teams
      OBVIOUS
    <2>1. org.queue[t] \in Queued /\ org.queue[t].team \in org.teams
      BY <1>1, <1>2
    <2> QED
      BY <1>4, <2>1 DEF Queued
  <1> HIDE DEF teams, open, places, queue
  <1>7. Coherent(new) /\ Main \in new.teams
    BY <1>2, <1>4, <1>5, <1>6, OrganizationIntro
  <1> HIDE DEF new
  <1> QED
    BY <1>3, <1>7, BecomesInv

(* A ticket is opened or moves to another department or holder.            *)
LEMMA TicketMovesInv ==
    ASSUME WorkforceInv, NEW t \in Tickets, NEW d \in Departments,
           NEW p \in Staff \cup {Nobody}, TicketMoves(t, d, p)
    PROVE  WorkforceInv'
  <1> DEFINE row == [team |-> d, holder |-> p]
             open == DOMAIN org.queue
             queue == [u \in {t} \cup open |-> IF u = t THEN row ELSE org.queue[u]]
             new == [org EXCEPT !.queue =
                        [u \in {t} \cup DOMAIN @ |-> IF u = t THEN row ELSE @[u]]]
  <1>1. /\ org \in Organization /\ Main \in org.teams
        /\ org.place \in [Staff -> org.teams \cup {NoTeam}]
        /\ \A u \in DOMAIN org.queue : org.queue[u].team \in org.teams
    BY DEF WorkforceInv, WorkforceTypeOK
  <1>2. /\ org = [teams |-> org.teams, place |-> org.place, queue |-> org.queue]
        /\ org.teams \in SUBSET Departments /\ open \in SUBSET Tickets
        /\ org.queue \in [open -> Queued]
    BY <1>1, OrganizationElim
  <1>3. d \in org.teams /\ Becomes(new, FALSE)
    BY DEF TicketMoves
  <1>4. new = [teams |-> org.teams, place |-> org.place, queue |-> queue]
    BY <1>2
  <1>5. row \in Queued /\ row.team \in org.teams
    BY <1>3 DEF Queued
  <1>6. queue \in [{t} \cup open -> Queued] /\ \A u \in {t} \cup open : queue[u].team \in org.teams
    <2> HIDE DEF row
    <2> QED BY <1>1, <1>2, <1>5
  <1>7. {t} \cup open \in SUBSET Tickets
    BY <1>2
  <1> HIDE DEF open, queue, row, new
  <1>8. Coherent(new) /\ Main \in new.teams
    BY <1>1, <1>2, <1>4, <1>6, <1>7, OrganizationIntro
  <1> QED
    BY <1>3, <1>8, BecomesInv

(* A ticket is closed.                                                     *)
LEMMA TicketClosesInv ==
    ASSUME WorkforceInv, NEW t \in Tickets, TicketCloses(t)
    PROVE  WorkforceInv'
  <1> DEFINE open == DOMAIN org.queue \ {t}
             queue == Restrict(org.queue, DOMAIN org.queue \ {t})
             new == [org EXCEPT !.queue = Restrict(@, DOMAIN @ \ {t})]
  <1>1. /\ org \in Organization /\ Main \in org.teams
        /\ org.place \in [Staff -> org.teams \cup {NoTeam}]
        /\ \A u \in DOMAIN org.queue : org.queue[u].team \in org.teams
    BY DEF WorkforceInv, WorkforceTypeOK
  <1>2. /\ org = [teams |-> org.teams, place |-> org.place, queue |-> org.queue]
        /\ org.teams \in SUBSET Departments /\ open \in SUBSET Tickets
        /\ org.queue \in [DOMAIN org.queue -> Queued]
    BY <1>1, OrganizationElim
  <1>3. Becomes(new, FALSE)
    BY DEF TicketCloses
  <1>4. new = [teams |-> org.teams, place |-> org.place, queue |-> queue]
    BY <1>2
  <1>5. queue \in [open -> Queued] /\ \A u \in open : queue[u].team \in org.teams
    BY <1>1, <1>2 DEF Restrict
  <1> HIDE DEF open, queue, new
  <1>6. Coherent(new) /\ Main \in new.teams
    BY <1>1, <1>2, <1>4, <1>5, OrganizationIntro
  <1> QED
    BY <1>3, <1>6, BecomesInv

(* Every step keeps the snapshot.                                          *)
LEMMA WorkforceStepInv ==
    ASSUME WorkforceInv, [WorkforceNext]_workforceVars
    PROVE  WorkforceInv'
  <1>1. CASE UNCHANGED workforceVars
    BY <1>1 DEF WorkforceInv, WorkforceTypeOK, SnapshotInv, workforceVars
  <1>2. CASE WorkforceNext
    BY <1>2, ReloadInv, AnswerPartInv, FailPartInv, SettleInv, ThrowInv,
       SetStaffDepartmentInv, CreateDepartmentInv, DeleteDepartmentInv, TicketMovesInv,
       TicketClosesInv DEF WorkforceNext
  <1> QED
    BY <1>1, <1>2

(* Every answer is what its route returns, and the organization stays      *)
(* coherent: through any sequence of changes everybody on a team, and      *)
(* every open ticket, is on a department that exists.                      *)
THEOREM WorkforceTypeCorrect == WorkforceSpec => []WorkforceTypeOK
  <1>1. WorkforceInv => WorkforceTypeOK
    BY DEF WorkforceInv
  <1> QED
    BY <1>1, WorkforceInitInv, WorkforceStepInv, PTL DEF WorkforceSpec

-----------------------------------------------------------------------------
(* The screens. *)

(* Every element of T is counted under its key. *)
LEMMA CountAll ==
    ASSUME NEW T, IsFiniteSet(T), NEW k, NEW S, IsFiniteSet(S), NEW f, DOMAIN f = S,
           \A t \in T : k[t] \in S, \A x \in S : f[x] = Cardinality({t \in T : k[t] = x})
    PROVE  SumFunction(f) = Cardinality(T)
  <1>1. {t \in T : k[t] \in S} = T
    OBVIOUS
  <1> QED
    BY <1>1, CountByKey DEF SumFunction

(* The same when some have no key in S. *)
LEMMA CountParts ==
    ASSUME NEW T, IsFiniteSet(T), NEW k, NEW S, IsFiniteSet(S), NEW f, DOMAIN f = S,
           NEW none, none \notin S, \A t \in T : k[t] \in S \cup {none},
           \A x \in S : f[x] = Cardinality({t \in T : k[t] = x})
    PROVE  SumFunction(f) + Cardinality({t \in T : k[t] = none}) = Cardinality(T)
  <1> DEFINE A == {t \in T : k[t] \in S}
             B == {t \in T : k[t] = none}
  <1>1. SumFunction(f) = Cardinality(A)
    BY CountByKey DEF SumFunction
  <1>2. IsFiniteSet(A) /\ IsFiniteSet(B)
    BY FS_Subset
  <1>3. A \cap B = {} /\ A \cup B = T
    OBVIOUS
  <1> HIDE DEF A, B
  <1> QED
    BY <1>1, <1>2, <1>3, DisjointUnion DEF B

(* What the library picks as the smaller and the larger of two numbers.    *)
LEMMA MinMax ==
    ASSUME NEW m \in Nat, NEW n \in Nat
    PROVE  /\ Min({m, n}) = IF m <= n THEN m ELSE n
           /\ \A i \in Int : Max({0, i}) = IF i <= 0 THEN 0 ELSE i
  BY DEF Min, Max

(* A roster that is not cut is everybody. *)
LEMMA WholeRoster ==
    ASSUME WorkforceTypeOK, NEW o, Coherent(o), ReadFrom(o, "roster", loaded["roster"]),
           Shown("roster"), ~Basis.roster
    PROVE  Rows("roster") = o.place /\ DOMAIN Rows("roster") = Staff
  <1> DEFINE rows == Rows("roster")
  <1>1. "roster" \in Parts /\ loaded["roster"] \in Answers3("roster")
    BY DEF Parts, WorkforceTypeOK
  <1>2. rows \in [DOMAIN rows -> Row("roster")]
    BY <1>1, AnswerElim DEF Rows
  <1>3. ListingOf(o, "roster") = o.place /\ o.place \in [Staff -> o.teams \cup {NoTeam}]
    BY DEF ListingOf, Coherent
  <1>4. /\ DOMAIN rows \subseteq Staff /\ \A p \in DOMAIN rows : rows[p] = o.place[p]
        /\ loaded["roster"].total = Cardinality(Staff)
    BY <1>3 DEF ReadFrom, IsRestriction, Rows, Shown
  <1>5. ~(loaded["roster"].total > Cardinality(DOMAIN rows))
    BY DEF Basis, Summarize, DeriveStaff
  <1>6. IsFiniteSet(Staff)
    BY WorkforceConstants
  <1> HIDE DEF rows
  <1>7. DOMAIN rows = Staff
    <2>1. /\ IsFiniteSet(DOMAIN rows) /\ Cardinality(DOMAIN rows) <= Cardinality(Staff)
          /\ Cardinality(Staff) = Cardinality(DOMAIN rows) => Staff = DOMAIN rows
      BY <1>4, <1>6, FS_Subset
    <2>2. Cardinality(Staff) \in Nat /\ Cardinality(DOMAIN rows) \in Nat
      BY <1>6, <2>1, FS_CardinalityType
    <2> QED
      BY <1>4, <1>5, <2>1, <2>2
  <1> QED
    BY <1>2, <1>3, <1>4, <1>7 DEF rows

(* The tickets of the queue that came back. *)
LEMMA QueueRows ==
    ASSUME WorkforceTypeOK, NEW o, Coherent(o), ReadFrom(o, "tickets", loaded["tickets"])
    PROVE  /\ IsFiniteSet(DOMAIN Rows("tickets"))
           /\ \A t \in DOMAIN Rows("tickets") : /\ Rows("tickets")[t].team \in o.teams
                                                /\ Rows("tickets")[t].holder \in Staff \cup {Nobody}
  <1> DEFINE rows == Rows("tickets")
  <1>1. "tickets" \in Parts /\ loaded["tickets"] \in Answers3("tickets")
    BY DEF Parts, WorkforceTypeOK
  <1>2. DOMAIN rows \subseteq Tickets /\ rows \in [DOMAIN rows -> Queued]
    BY <1>1, AnswerElim DEF Rows, Keys, Row
  <1>3. IsFiniteSet(DOMAIN rows)
    BY <1>2, WorkforceConstants, FS_Subset
  <1>4. ListingOf(o, "tickets") = o.queue /\ \A t \in DOMAIN o.queue : o.queue[t].team \in o.teams
    BY DEF ListingOf, Coherent
  <1>5. DOMAIN rows \subseteq DOMAIN o.queue /\ \A t \in DOMAIN rows : rows[t] = o.queue[t]
    BY <1>4 DEF ReadFrom, IsRestriction, Rows
  <1> QED
    BY <1>2, <1>3, <1>4, <1>5 DEF Queued

(* The department cards are those of the organization that was read.       *)
LEMMA DepartmentRows ==
    ASSUME NEW o, Coherent(o), ReadFrom(o, "departments", loaded["departments"]),
           Shown("departments")
    PROVE  /\ DOMAIN DeriveDepartments = o.teams /\ IsFiniteSet(o.teams)
           /\ NoTeam \notin o.teams /\ "all" \notin o.teams
           /\ \A d \in o.teams : CardMembers(d) = Cardinality({p \in Staff : o.place[p] = d})
  <1>1. Rows("departments") = [d \in o.teams |-> Cardinality({p \in Staff : o.place[p] = d})]
    BY DEF ReadFrom, Rows, Shown, ListingOf
  <1>2. DOMAIN DeriveDepartments = o.teams
    BY <1>1 DEF DeriveDepartments
  <1>3. \A d \in o.teams : CardMembers(d) = Rows("departments")[d]
    BY <1>1 DEF CardMembers, DeriveDepartments
  <1>4. o.teams \subseteq Departments
    BY OrganizationElim DEF Coherent
  <1>5. IsFiniteSet(o.teams) /\ NoTeam \notin o.teams /\ "all" \notin o.teams
    BY <1>4, WorkforceConstants, FS_Subset
  <1> QED
    BY <1>1, <1>2, <1>3, <1>5

(* People: the roster against the departments. *)
LEMMA PeopleAgree ==
    ASSUME WorkforceTypeOK, NEW o, Coherent(o), ReadFrom(o, "roster", loaded["roster"]),
           ReadFrom(o, "departments", loaded["departments"]),
           Shown("roster"), Shown("departments"), ~Basis.roster
    PROVE  /\ \A d \in DOMAIN DeriveDepartments :
                 LET members == Cardinality(DOMAIN StaffCardGrid(d))
                 IN  /\ CardMembers(d) = members
                     /\ DetailKpis(d).members = members
                     /\ AvatarStack(d).faces + AvatarStack(d).overflow = members
           /\ StaffKpis.total = DepartmentsKpis.staffed + DepartmentsKpis.unplaced
           /\ UnassignedBanner = Cardinality(DOMAIN StaffTable(NoTeam, TRUE))
           /\ \A p \in DOMAIN DeriveStaff :
                 LET d == DeriveStaff[p].team
                 IN  d # NoTeam /\ thrown = "none" => DetailScreen(d) = "detail"
  <1>1. Rows("roster") = o.place /\ DOMAIN Rows("roster") = Staff
    BY WholeRoster
  <1>2. /\ DOMAIN DeriveDepartments = o.teams /\ IsFiniteSet(o.teams)
        /\ NoTeam \notin o.teams /\ "all" \notin o.teams
        /\ \A d \in o.teams : CardMembers(d) = Cardinality({p \in Staff : o.place[p] = d})
    BY DepartmentRows
  <1>3. DOMAIN DeriveStaff = Staff /\ \A p \in Staff : DeriveStaff[p].team = o.place[p]
    BY <1>1 DEF DeriveStaff
  <1>4. \A d : d # "all" => ApplyQuery(d) = {p \in Staff : o.place[p] = d}
    BY <1>3 DEF ApplyQuery
  <1>5. ~Forbidden("roster") /\ ~Forbidden("departments")
    BY DEF Shown, Forbidden
  <1>6. IsFiniteSet(Staff) /\ o.place \in [Staff -> o.teams \cup {NoTeam}]
    BY WorkforceConstants DEF Coherent
  <1>7. ASSUME NEW d \in o.teams
        PROVE  LET members == Cardinality(DOMAIN StaffCardGrid(d))
               IN  /\ CardMembers(d) = members
                   /\ DetailKpis(d).members = members
                   /\ AvatarStack(d).faces + AvatarStack(d).overflow = members
    <2> DEFINE S == {p \in Staff : o.place[p] = d}
               n == Cardinality(S)
    <2>1. ApplyQuery(d) = S /\ CardMembers(d) = n
      BY <1>2, <1>4
    <2>2. n \in Nat
      BY <1>6, FS_Subset, FS_CardinalityType
    <2> HIDE DEF S
    <2>3. DOMAIN StaffCardGrid(d) = S
      BY <1>5, <2>1 DEF StaffCardGrid
    <2>4. DetailKpis(d).members = n
      BY <2>1 DEF DetailKpis
    <2>5. AvatarStack(d) = [faces |-> Min({n, 3}), overflow |-> Max({0, n - Min({n, 3})})]
      BY <1>5, <2>1 DEF AvatarStack, AvatarPreview
    <2> HIDE DEF n
    <2>6. AvatarStack(d).faces + AvatarStack(d).overflow = n
      <3>1. Min({n, 3}) = IF n <= 3 THEN n ELSE 3
        BY <2>2, MinMax
      <3>2. Max({0, n - Min({n, 3})}) = n - Min({n, 3})
        BY <2>2, <3>1, MinMax
      <3> QED
        BY <2>2, <2>5, <3>1, <3>2
    <2> QED
      BY <2>1, <2>3, <2>4, <2>6 DEF n
  <1>8. StaffKpis.total = DepartmentsKpis.staffed + DepartmentsKpis.unplaced
    <2> DEFINE f == [d \in o.teams |-> CardMembers(d)]
               pool == {p \in Staff : o.place[p] = NoTeam}
    <2>1. StaffKpis.total = Cardinality(Staff)
      BY <1>3 DEF StaffKpis, Summarize
    <2>2. DepartmentsKpis.staffed = SumFunction(f)
      BY <1>2 DEF DepartmentsKpis
    <2>3. DepartmentsKpis.unplaced = Cardinality(pool)
      <3>1. {p \in DOMAIN DeriveStaff : DeriveStaff[p].team = NoTeam} = pool
        BY <1>3
      <3> QED
        BY <3>1 DEF DepartmentsKpis, Summarize
    <2>4. DOMAIN f = o.teams /\ \A d \in o.teams : f[d] = Cardinality({p \in Staff : o.place[p] = d})
      BY <1>2
    <2> HIDE DEF f
    <2>5. SumFunction(f) + Cardinality(pool) = Cardinality(Staff)
      <3> DEFINE k == o.place
                 S == o.teams
      <3>1. /\ \A p \in Staff : k[p] \in S \cup {NoTeam}
            /\ \A d \in S : f[d] = Cardinality({p \in Staff : k[p] = d})
            /\ DOMAIN f = S /\ IsFiniteSet(S) /\ IsFiniteSet(Staff) /\ NoTeam \notin S
        BY <1>2, <1>6, <2>4
      <3> HIDE DEF pool, k, S
      <3>2. SumFunction(f) + Cardinality({p \in Staff : k[p] = NoTeam}) = Cardinality(Staff)
        BY <3>1, CountParts
      <3> QED
        BY <3>2 DEF pool, k
    <2> QED
      BY <2>1, <2>2, <2>3, <2>5
  <1>9. UnassignedBanner = Cardinality(DOMAIN StaffTable(NoTeam, TRUE))
    <2>1. {p \in DOMAIN DeriveStaff : DeriveStaff[p].team = NoTeam} = ApplyQuery(NoTeam)
      <3>1. NoTeam # "all"
        BY DEF NoTeam
      <3> QED
        BY <1>3, <1>4, <3>1
    <2>2. DOMAIN StaffTable(NoTeam, TRUE) = ApplyQuery(NoTeam)
      BY DEF StaffTable
    <2> QED
      BY <2>1, <2>2 DEF UnassignedBanner, Summarize
  <1>10. ASSUME NEW p \in Staff, DeriveStaff[p].team # NoTeam, thrown = "none"
         PROVE  DetailScreen(DeriveStaff[p].team) = "detail"
    <2>1. DeriveStaff[p].team \in DOMAIN DeriveDepartments
      BY <1>2, <1>3, <1>6, <1>10
    <2>2. ~SessionLikelyStale
      BY <1>5 DEF SessionLikelyStale, Parts
    <2>3. HasData
      <3>1. loaded["roster"].status = "ok" /\ All("none")["roster"].status = "none"
        BY DEF Shown, All, Without, Parts
      <3> QED
        BY <3>1 DEF HasData
    <2> QED
      BY <1>5, <1>10, <2>1, <2>2, <2>3 DEF DetailScreen, Screen
  <1> QED
    BY <1>2, <1>3, <1>7, <1>8, <1>9, <1>10

(* Tickets: every one is somebody's or nobody's. *)
LEMMA HoldersAgree ==
    ASSUME WorkforceTypeOK, NEW o, Coherent(o), ReadFrom(o, "roster", loaded["roster"]),
           ReadFrom(o, "tickets", loaded["tickets"]), Shown("roster"), ~Basis.roster
    PROVE  SumFunction([p \in DOMAIN DeriveStaff |-> StaffTable("all", FALSE)[p].open])
               + StaffKpis.unassignedTickets = Cardinality(DOMAIN Rows("tickets"))
  <1> DEFINE T == DOMAIN Rows("tickets")
             k == [t \in T |-> Rows("tickets")[t].holder]
             f == [p \in DOMAIN DeriveStaff |-> StaffTable("all", FALSE)[p].open]
  <1>1. DOMAIN DeriveStaff = Staff
    BY WholeRoster DEF DeriveStaff
  <1>2. IsFiniteSet(T) /\ \A t \in T : k[t] \in Staff \cup {Nobody}
    BY QueueRows
  <1>3. \A p : Holding(p) = {t \in T : k[t] = p}
    BY DEF Holding
  <1>4. ASSUME NEW p \in Staff PROVE f[p] = Cardinality({t \in T : k[t] = p})
    <2>1. p \in ApplyQuery("all")
      BY <1>1 DEF ApplyQuery
    <2>2. StaffTable("all", FALSE)[p].open = DeriveStaff[p].open
      BY <2>1 DEF StaffTable, StaffRow
    <2>3. DeriveStaff[p].open = Cardinality(Holding(p))
      BY <1>1 DEF DeriveStaff
    <2> QED
      BY <1>1, <1>3, <2>2, <2>3
  <1>5. StaffKpis.unassignedTickets = Cardinality({t \in T : k[t] = Nobody})
    BY <1>3 DEF StaffKpis, Summarize
  <1>6. DOMAIN f = Staff /\ IsFiniteSet(Staff) /\ Nobody \notin Staff
    BY <1>1, WorkforceConstants
  <1>7. SumFunction(f) + Cardinality({t \in T : k[t] = Nobody}) = Cardinality(T)
    <2> HIDE DEF T, k, f
    <2> QED BY <1>2, <1>4, <1>6, CountParts
  <1> QED
    BY <1>5, <1>7

(* Tickets: every one is on one department. *)
LEMMA TeamsAgree ==
    ASSUME WorkforceTypeOK, NEW o, Coherent(o),
           ReadFrom(o, "departments", loaded["departments"]),
           ReadFrom(o, "tickets", loaded["tickets"]), Shown("departments")
    PROVE  /\ DepartmentsKpis.open = Cardinality(DOMAIN Rows("tickets"))
           /\ SumFunction([d \in DOMAIN DeriveDepartments |-> DetailKpis(d).unassigned])
                = StaffKpis.unassignedTickets
  <1> DEFINE T == DOMAIN Rows("tickets")
             k == [t \in T |-> Rows("tickets")[t].team]
             U == Holding(Nobody)
             f == [d \in o.teams |-> DeriveDepartments[d].openTickets]
             g == [d \in o.teams |-> DetailKpis(d).unassigned]
  <1>1. DOMAIN DeriveDepartments = o.teams /\ IsFiniteSet(o.teams) /\ NoTeam \notin o.teams
    BY DepartmentRows
  <1>2. IsFiniteSet(T) /\ \A t \in T : k[t] \in o.teams
    BY QueueRows
  <1>3. U \subseteq T /\ IsFiniteSet(U)
    BY <1>2, FS_Subset DEF Holding
  <1>4. \A d \in o.teams : f[d] = Cardinality({t \in T : k[t] = d})
    <2> TAKE d \in o.teams
    <2>1. {t \in T : k[t] = d} = {t \in DOMAIN Rows("tickets") : Rows("tickets")[t].team = d}
      OBVIOUS
    <2> QED
      BY <1>1, <2>1 DEF DeriveDepartments
  <1>5. \A d \in o.teams : g[d] = Cardinality({t \in U : k[t] = d})
    <2> TAKE d \in o.teams
    <2>1. {t \in U : k[t] = d} = {t \in Holding(Nobody) : Rows("tickets")[t].team = d}
      BY <1>3
    <2> QED
      BY <2>1 DEF DetailKpis
  <1>6. DepartmentsKpis.open = SumFunction(f)
    BY <1>1 DEF DepartmentsKpis
  <1>7. StaffKpis.unassignedTickets = Cardinality(U)
    BY DEF StaffKpis, Summarize
  <1>8. DOMAIN f = o.teams /\ DOMAIN g = o.teams
    OBVIOUS
  <1>9. SumFunction(f) = Cardinality(T) /\ SumFunction(g) = Cardinality(U)
    <2> DEFINE S == o.teams
    <2> HIDE DEF T, k, U, f, g
    <2>1. /\ \A t \in T : k[t] \in S
          /\ \A t \in U : k[t] \in S
          /\ \A d \in S : f[d] = Cardinality({t \in T : k[t] = d})
          /\ \A d \in S : g[d] = Cardinality({t \in U : k[t] = d})
          /\ DOMAIN f = S /\ DOMAIN g = S /\ IsFiniteSet(S)
      BY <1>1, <1>2, <1>3, <1>4, <1>5, <1>8
    <2> HIDE DEF S
    <2>2. SumFunction(f) = Cardinality(T)
      BY <1>2, <2>1, CountAll
    <2>3. SumFunction(g) = Cardinality(U)
      BY <1>3, <2>1, CountAll
    <2> QED
      BY <2>2, <2>3
  <1> QED
    BY <1>1, <1>6, <1>7, <1>9

(* Screens derived from one snapshot agree with one another.               *)
LEMMA AgreementFollows == WorkforceInv => ScreensAgree
  <1> SUFFICES ASSUME WorkforceInv PROVE ScreensAgree
    OBVIOUS
  <1>1. CASE tornLoaded
    BY <1>1 DEF ScreensAgree
  <1>2. CASE ~tornLoaded
    <2>1. PICK o \in Organization : Coherent(o) /\ \A part \in Parts : ReadFrom(o, part, loaded[part])
      BY <1>2 DEF WorkforceInv, SnapshotInv
    <2>2. /\ ReadFrom(o, "roster", loaded["roster"])
          /\ ReadFrom(o, "departments", loaded["departments"])
          /\ ReadFrom(o, "tickets", loaded["tickets"])
      BY <2>1 DEF Parts
    <2>3. WorkforceTypeOK
      BY DEF WorkforceInv
    <2> QED
      BY <2>1, <2>2, <2>3, PeopleAgree, HoldersAgree, TeamsAgree DEF ScreensAgree
  <1> QED
    BY <1>1, <1>2

(* The owner's screens agree with each other on the headcounts, the        *)
(* workloads and the departments that exist, whatever part of the three    *)
(* answers of lib/admin/hooks.ts is missing, as long as they were read     *)
(* from one organization.                                                  *)
THEOREM ScreensAlwaysAgree == WorkforceSpec => []ScreensAgree
  BY WorkforceInitInv, WorkforceStepInv, AgreementFollows, PTL DEF WorkforceSpec

-----------------------------------------------------------------------------
(* Inbox: numbers. *)

(* A set of numbers up to n has a smallest member. *)
LEMMA SmallestOf ==
    ASSUME NEW n \in Nat, NEW B, B \subseteq 1..n, B # {}
    PROVE  \E i \in B : \A j \in B : i <= j
  <1> DEFINE Below == {U \in SUBSET (1..n) : \E i \in B : U = 1..i}
  <1>1. IsFiniteSet(1..n) /\ Below \subseteq SUBSET (1..n)
    BY FS_Interval
  <1>2. Below # {}
    <2>1. PICK i \in B : TRUE
      OBVIOUS
    <2>2. 1..i \subseteq 1..n
      OBVIOUS
    <2> QED
      BY <2>2
  <1>3. PICK T \in Below : \A U \in Below : U \subseteq T => U = T
    <2> HIDE DEF Below
    <2> DEFINE S == 1..n
    <2>1. IsFiniteSet(S) /\ Below \subseteq SUBSET S
      BY <1>1
    <2> HIDE DEF S
    <2> QED
      BY <1>2, <2>1, SmallestSet
  <1>4. PICK i \in B : T = 1..i
    OBVIOUS
  <1>5. ASSUME NEW j \in B PROVE i <= j
    <2>1. CASE j < i
      <3>1. 1..j \in Below /\ 1..j \subseteq T
        BY <1>4, <2>1
      <3>2. 1..j = 1..i
        BY <1>3, <1>4, <3>1
      <3>3. i \in 1..i /\ i \notin 1..j
        BY <2>1
      <3> QED
        BY <3>2, <3>3
    <2> QED
      BY <2>1
  <1> QED
    BY <1>5

(* ... and a largest one, which the library picks. *)
LEMMA MaxOf ==
    ASSUME NEW n \in Nat, NEW B, B \subseteq 1..n, B # {}
    PROVE  Max(B) \in B /\ \A j \in B : j <= Max(B)
  <1> DEFINE C == {j \in 1..n : n + 1 - j \in B}
  <1>1. C # {}
    <2>1. PICK i \in B : TRUE
      OBVIOUS
    <2>2. n + 1 - i \in 1..n /\ n + 1 - (n + 1 - i) = i
      OBVIOUS
    <2> QED
      BY <2>2
  <1>2. PICK i \in C : \A j \in C : i <= j
    BY <1>1, SmallestOf
  <1>3. n + 1 - i \in B
    OBVIOUS
  <1>4. ASSUME NEW j \in B PROVE n + 1 - i >= j
    <2>1. j \in 1..n /\ n + 1 - j \in 1..n /\ n + 1 - (n + 1 - j) = j
      OBVIOUS
    <2>2. n + 1 - j \in C
      BY <2>1
    <2>3. i <= n + 1 - j /\ i \in 1..n
      BY <1>2, <2>2
    <2> HIDE DEF C
    <2> QED
      BY <2>1, <2>3
  <1>5. \E x \in B : \A y \in B : x >= y
    BY <1>3, <1>4
  <1>6. Max(B) \in B /\ \A y \in B : Max(B) >= y
    BY <1>5, Zenon DEF Max
  <1> QED
    BY <1>6

-----------------------------------------------------------------------------
(* The order of the tickets. *)

(* An element of a sequence is of the type of its elements. *)
LEMMA ElementOf ==
    ASSUME NEW R, NEW q \in Seq(R), NEW i \in DOMAIN q
    PROVE  q[i] \in R
  OBVIOUS

KeyLength(sort) == IF sort = "priority" THEN 4 ELSE 2

(* A sort compares as many numbers for every ticket, its place last. *)
LEMMA KeyShape ==
    ASSUME desk \in Seq(Ticket), NEW t \in DOMAIN desk, NEW sort \in Sorts
    PROVE  LET n == KeyLength(sort) IN
           SortKey(sort, t) \in [1..n -> Int] /\ SortKey(sort, t)[n] = t
  <1>1. desk[t] \in Ticket /\ t \in Int
    OBVIOUS
  <1>2. WaitingSince(t) \in Int
    <2>1. desk[t].opened \in Int /\ desk[t].said \in Seq([kind: Kinds, ago: Int])
      BY <1>1 DEF Ticket
    <2>2. CASE FromCustomer(t) = {}
      BY <2>1, <2>2 DEF WaitingSince
    <2>3. CASE FromCustomer(t) # {}
      <3>1. Len(desk[t].said) \in Nat /\ FromCustomer(t) \subseteq 1..Len(desk[t].said)
        BY <2>1 DEF FromCustomer
      <3>2. Max(FromCustomer(t)) \in DOMAIN desk[t].said
        BY <2>1, <2>3, <3>1, MaxOf
      <3>3. desk[t].said[Max(FromCustomer(t))] \in [kind: Kinds, ago: Int]
        BY <2>1, <3>2, ElementOf
      <3> QED
        BY <2>3, <3>3 DEF WaitingSince
    <2> QED
      BY <2>2, <2>3
  <1>3. desk[t].updated \in Int /\ desk[t].due \in Int /\ desk[t].priority \in Int
    BY <1>1 DEF Ticket
  <1> QED
    BY <1>1, <1>2, <1>3 DEF SortKey, KeyLength, Sorts

(* Keys are compared from left to right. *)
Lower(a, b, n) == \E i \in 1..n : a[i] < b[i] /\ \A j \in 1..(i - 1) : a[j] = b[j]

(* Among keys of one length that is a strict total order. *)
LEMMA LowerIsOrder ==
    ASSUME NEW n \in Nat, NEW a \in [1..n -> Int], NEW b \in [1..n -> Int], NEW c \in [1..n -> Int]
    PROVE  /\ ~Lower(a, a, n)
           /\ Lower(a, b, n) /\ Lower(b, c, n) => Lower(a, c, n)
           /\ a = b \/ Lower(a, b, n) \/ Lower(b, a, n)
  <1>1. ~Lower(a, a, n)
    BY DEF Lower
  <1>2. ASSUME Lower(a, b, n), Lower(b, c, n) PROVE Lower(a, c, n)
    <2>1. PICK i \in 1..n : a[i] < b[i] /\ \A j \in 1..(i - 1) : a[j] = b[j]
      BY <1>2 DEF Lower
    <2>2. PICK k \in 1..n : b[k] < c[k] /\ \A j \in 1..(k - 1) : b[j] = c[j]
      BY <1>2 DEF Lower
    <2>3. CASE i <= k
      <3>1. a[i] < c[i]
        BY <2>1, <2>2, <2>3
      <3>2. \A j \in 1..(i - 1) : a[j] = c[j]
        BY <2>1, <2>2, <2>3
      <3> QED
        BY <3>1, <3>2 DEF Lower
    <2>4. CASE k < i
      <3>1. a[k] < c[k]
        BY <2>1, <2>2, <2>4
      <3>2. \A j \in 1..(k - 1) : a[j] = c[j]
        BY <2>1, <2>2, <2>4
      <3> QED
        BY <3>1, <3>2 DEF Lower
    <2> QED
      BY <2>3, <2>4
  <1>3. ASSUME a # b PROVE Lower(a, b, n) \/ Lower(b, a, n)
    <2> DEFINE D == {j \in 1..n : a[j] # b[j]}
    <2>1. D # {}
      <3> SUFFICES ASSUME \A j \in 1..n : a[j] = b[j] PROVE FALSE
        OBVIOUS
      <3>1. a = [j \in 1..n |-> a[j]] /\ b = [j \in 1..n |-> b[j]]
        OBVIOUS
      <3> QED
        BY <1>3, <3>1
    <2>2. PICK i \in D : \A j \in D : i <= j
      BY <2>1, SmallestOf
    <2>3. \A j \in 1..(i - 1) : a[j] = b[j]
      BY <2>2
    <2>4. a[i] < b[i] \/ b[i] < a[i]
      OBVIOUS
    <2> QED
      BY <2>3, <2>4 DEF Lower
  <1> QED
    BY <1>1, <1>2, <1>3

(* Every sort orders the tickets strictly and without ties. *)
LEMMA PrecedesIsOrder ==
    ASSUME desk \in Seq(Ticket), NEW sort \in Sorts,
           NEW s \in DOMAIN desk, NEW t \in DOMAIN desk, NEW u \in DOMAIN desk
    PROVE  /\ ~Precedes(sort, s, s)
           /\ Precedes(sort, s, t) /\ Precedes(sort, t, u) => Precedes(sort, s, u)
           /\ s = t \/ Precedes(sort, s, t) \/ Precedes(sort, t, s)
  <1> DEFINE n == KeyLength(sort)
  <1>1. n \in Nat
    BY DEF KeyLength
  <1>2. \A x \in {s, t, u} : /\ SortKey(sort, x) \in [1..n -> Int]
                             /\ SortKey(sort, x)[n] = x
    BY KeyShape
  <1>3. \A x, y \in {s, t, u} :
           Precedes(sort, x, y) <=> Lower(SortKey(sort, x), SortKey(sort, y), n)
    BY <1>2 DEF Precedes, Lower
  <1> HIDE DEF n
  <1>4. \A x, y, z \in {s, t, u} :
           LET a == SortKey(sort, x)  b == SortKey(sort, y)  c == SortKey(sort, z) IN
           /\ ~Lower(a, a, n)
           /\ Lower(a, b, n) /\ Lower(b, c, n) => Lower(a, c, n)
           /\ a = b \/ Lower(a, b, n) \/ Lower(b, a, n)
    BY <1>1, <1>2, LowerIsOrder
  <1> QED
    BY <1>2, <1>3, <1>4

(* The places in the order: sorting lists every ticket of a set once.      *)
LEMMA SortedLists ==
    ASSUME desk \in Seq(Ticket), NEW sort \in Sorts, NEW S, S \subseteq DOMAIN desk
    PROVE  LET n == Cardinality(S)  q == Sorted(sort, S) IN
           /\ IsFiniteSet(S) /\ n \in Nat /\ q \in Seq(S) /\ Len(q) = n
           /\ \A t \in S : \E i \in 1..n : q[i] = t
  <1> DEFINE n == Cardinality(S)
             q == Sorted(sort, S)
             Rank == [t \in S |-> Cardinality(Before(sort, S, t)) + 1]
  <1>1. IsFiniteSet(S) /\ n \in Nat
    <2>1. IsFiniteSet(DOMAIN desk)
      BY FS_Interval
    <2> QED
      BY <2>1, FS_Subset, FS_CardinalityType
  <1>2. \A t \in S : /\ IsFiniteSet(Before(sort, S, t))
                     /\ Cardinality(Before(sort, S, t)) \in Nat
    BY <1>1, FS_Subset, FS_CardinalityType DEF Before
  <1>3. \A t \in S : t \notin Before(sort, S, t)
    BY PrecedesIsOrder DEF Before
  <1>4. ASSUME NEW s \in S, NEW t \in S, Precedes(sort, s, t)
        PROVE  Cardinality(Before(sort, S, s)) < Cardinality(Before(sort, S, t))
    <2>1. Before(sort, S, s) \subseteq Before(sort, S, t)
      BY <1>4, PrecedesIsOrder DEF Before
    <2>2. s \in Before(sort, S, t) /\ s \notin Before(sort, S, s)
      BY <1>3, <1>4 DEF Before
    <2> QED
      BY <1>2, <2>1, <2>2, FS_Subset
  <1>5. \A t \in S : Cardinality(Before(sort, S, t)) < n
    <2> TAKE t \in S
    <2>1. Before(sort, S, t) \subseteq S /\ Before(sort, S, t) # S
      BY <1>3 DEF Before
    <2> QED
      BY <1>1, <1>2, <2>1, FS_Subset
  <1>6. Rank \in [S -> 1..n]
    BY <1>1, <1>2, <1>5
  <1>7. \A s, t \in S : Rank[s] = Rank[t] => s = t
    BY <1>2, <1>4, PrecedesIsOrder
  <1>8. Rank \in Injection(S, 1..n)
    BY <1>6, <1>7 DEF Injection, IsInjective
  <1>9. Rank \in Surjection(S, 1..n)
    BY <1>1, <1>8, FS_Interval, FS_Injection
  <1>10. \A i \in 1..n : \E t \in S : Cardinality(Before(sort, S, t)) = i - 1
    <2> TAKE i \in 1..n
    <2>1. PICK t \in S : Rank[t] = i
      BY <1>9 DEF Surjection
    <2>2. Cardinality(Before(sort, S, t)) + 1 = i
      BY <2>1
    <2> QED
      BY <1>2, <2>2
  <1>11. /\ DOMAIN q = 1..n
         /\ \A i \in 1..n : q[i] \in S /\ Cardinality(Before(sort, S, q[i])) = i - 1
    BY <1>10 DEF Sorted
  <1>12. q \in Seq(S) /\ Len(q) = n
    BY <1>1, <1>11 DEF Sorted
  <1>13. ASSUME NEW t \in S PROVE \E i \in 1..n : q[i] = t
    <2>1. Rank[t] \in 1..n /\ Rank[t] - 1 = Cardinality(Before(sort, S, t))
      BY <1>2, <1>6
    <2>2. Rank[q[Rank[t]]] = Rank[t] /\ q[Rank[t]] \in S
      BY <1>2, <1>11, <2>1
    <2> QED
      BY <1>7, <2>1, <2>2
  <1> QED
    BY <1>1, <1>12, <1>13

-----------------------------------------------------------------------------
(* Pages. *)

(* What the library picks from two numbers. *)
LEMMA PickOfTwo ==
    ASSUME NEW i \in Int, NEW j \in Int
    PROVE  /\ Min({i, j}) = IF i <= j THEN i ELSE j
           /\ Max({i, j}) = IF i >= j THEN i ELSE j
  <1>1. Min({i, j}) = IF i <= j THEN i ELSE j
    <2>1. \E x \in {i, j} : \A y \in {i, j} : x <= y
      OBVIOUS
    <2>2. Min({i, j}) \in {i, j} /\ \A y \in {i, j} : Min({i, j}) <= y
      BY <2>1, Zenon DEF Min
    <2> QED
      BY <2>2
  <1>2. Max({i, j}) = IF i >= j THEN i ELSE j
    <2>1. \E x \in {i, j} : \A y \in {i, j} : x >= y
      OBVIOUS
    <2>2. Max({i, j}) \in {i, j} /\ \A y \in {i, j} : Max({i, j}) >= y
      BY <2>1, Zenon DEF Max
    <2> QED
      BY <2>2
  <1> QED
    BY <1>1, <1>2

(* Division with a remainder. *)
LEMMA Quotient ==
    ASSUME NEW a \in Nat, NEW n \in Nat \ {0}
    PROVE  /\ a \div n \in Nat
           /\ (a \div n) * n <= a /\ a < (a \div n) * n + n
  OBVIOUS

(* There are as many pages as it takes, and at least one. *)
LEMMA PagesSuffice ==
    ASSUME NEW total \in Nat
    PROVE  /\ PageCount(total) \in Nat \ {0}
           /\ total <= PageCount(total) * PageSize
           /\ PageCount(total) = 1 \/ (PageCount(total) - 1) * PageSize < total
  <1> DEFINE d == (total + PageSize - 1) \div PageSize
  <1>1. PageSize \in Nat \ {0}
    BY InboxConstants
  <1>2. total + PageSize - 1 \in Nat
    BY <1>1
  <1>3. d \in Nat /\ d * PageSize <= total + PageSize - 1
        /\ total + PageSize - 1 < d * PageSize + PageSize
    BY <1>1, <1>2, Quotient
  <1>4. PageCount(total) = IF 1 >= d THEN 1 ELSE d
    <2>1. PageCount(total) = Max({1, d})
      BY DEF PageCount
    <2>2. 1 \in Int /\ d \in Int
      BY <1>3
    <2> HIDE DEF d
    <2> QED
      BY <2>1, <2>2, PickOfTwo
  <1> HIDE DEF d
  <1>5. CASE d = 0
    BY <1>1, <1>3, <1>4, <1>5
  <1>6. CASE d # 0
    <2>1. PageCount(total) = d
      BY <1>3, <1>4, <1>6
    <2>2. (d - 1) * PageSize = d * PageSize - PageSize /\ d * PageSize \in Int
      BY <1>1, <1>3
    <2> QED
      BY <1>1, <1>3, <1>6, <2>1, <2>2
  <1> QED
    BY <1>5, <1>6

(* The page shown is one of them, the one asked for when it exists. *)
LEMMA PageExists ==
    ASSUME NEW total \in Nat, NEW asked \in Int
    PROVE  /\ PageShown(asked, total) \in 1..PageCount(total)
           /\ asked \in 1..PageCount(total) => PageShown(asked, total) = asked
  <1>1. PageCount(total) \in Nat \ {0}
    BY PagesSuffice
  <1>2. Max({1, asked}) = IF 1 >= asked THEN 1 ELSE asked
    BY PickOfTwo
  <1>3. PageShown(asked, total) = IF Max({1, asked}) <= PageCount(total)
                                  THEN Max({1, asked}) ELSE PageCount(total)
    BY <1>1, <1>2, PickOfTwo DEF PageShown
  <1> QED
    BY <1>1, <1>2, <1>3

(* A page begins within the list, and ends after it begins. *)
LEMMA PageBounds ==
    ASSUME NEW total \in Nat, NEW n \in 1..PageCount(total)
    PROVE  LET start == (n - 1) * PageSize IN
           /\ start \in Nat /\ start + PageSize = n * PageSize
           /\ start <= total /\ (total > 0 => start < total)
           /\ n > 1 => start < total
           /\ Min({start + PageSize, total}) =
                 IF n * PageSize <= total THEN n * PageSize ELSE total
  <1> DEFINE start == (n - 1) * PageSize
             pc == PageCount(total)
  <1>1. PageSize \in Nat \ {0} /\ pc \in Nat \ {0} /\ n \in 1..pc
    BY InboxConstants, PagesSuffice
  <1>2. pc = 1 \/ (pc - 1) * PageSize < total
    BY PagesSuffice
  <1> HIDE DEF pc
  <1>3. start \in Nat /\ start + PageSize = n * PageSize
    BY <1>1
  <1>4. start <= (pc - 1) * PageSize
    <2>1. n - 1 \in Nat /\ pc - 1 \in Nat /\ n - 1 <= pc - 1
      BY <1>1
    <2>2. \A i, j \in Nat : i <= j => i * PageSize <= j * PageSize
      BY <1>1
    <2> QED
      BY <2>1, <2>2
  <1>5. n = 1 => start = 0
    BY <1>1
  <1>6. n * PageSize \in Int
    BY <1>1
  <1> HIDE DEF start
  <1>7. Min({start + PageSize, total}) = IF n * PageSize <= total THEN n * PageSize ELSE total
    BY <1>3, <1>6, PickOfTwo
  <1>8. CASE n = 1
    BY <1>3, <1>5, <1>7, <1>8 DEF start
  <1>9. CASE n # 1
    <2>1. pc # 1 /\ (pc - 1) * PageSize \in Int
      BY <1>1, <1>9
    <2> QED
      BY <1>1, <1>2, <1>3, <1>4, <1>7, <1>9, <2>1 DEF start
  <1> QED
    BY <1>8, <1>9

(* The library joins the sequences of a sequence with a recursive function *)
(* that it chooses; any function that satisfies its equation is that one.  *)
LEMMA FlattenIs ==
    ASSUME NEW n \in Nat \ {0}, NEW G, Len(G) = n, NEW h,
           h = [i \in 1..n |-> IF i = 1 THEN G[i] ELSE h[i - 1] \o G[i]]
    PROVE  FlattenSeq(G) = h[n]
  <1> DEFINE Joins(g) == g = [i \in 1..Len(G) |-> IF i = 1 THEN G[i] ELSE g[i - 1] \o G[i]]
             f == CHOOSE g : Joins(g)
  <1>1. FlattenSeq(G) = f[n]
    BY DEF FlattenSeq
  <1>2. Joins(f)
    <2>1. Joins(h)
      OBVIOUS
    <2> HIDE DEF Joins
    <2> QED
      BY <2>1
  <1>3. f = [i \in 1..n |-> IF i = 1 THEN G[i] ELSE f[i - 1] \o G[i]]
    BY <1>2
  <1> HIDE DEF f, Joins
  <1>4. \A i \in 1..n : f[i] = h[i]
    <2> DEFINE Bad == {i \in 1..n : f[i] # h[i]}
    <2> SUFFICES ASSUME Bad # {} PROVE FALSE
      OBVIOUS
    <2>1. PICK i \in Bad : \A j \in Bad : i <= j
      BY SmallestOf
    <2>2. /\ f[i] = IF i = 1 THEN G[i] ELSE f[i - 1] \o G[i]
          /\ h[i] = IF i = 1 THEN G[i] ELSE h[i - 1] \o G[i]
      BY <1>3
    <2>3. ASSUME i # 1 PROVE f[i - 1] = h[i - 1]
      <3>1. i - 1 \in 1..n /\ ~(i <= i - 1)
        BY <2>3
      <3>2. i - 1 \notin Bad
        BY <2>1, <3>1
      <3> QED
        BY <3>1, <3>2
    <2> QED
      BY <2>2, <2>3
  <1> QED
    BY <1>1, <1>4

-----------------------------------------------------------------------------
(* The lists of the panel. *)

(* The tickets a query asks for, before they are sorted. *)
Matching(query) ==
    {t \in VisibleTickets :
        /\ InView(query.view, t)
        /\ query.priority \in {Unset, Priorities[desk[t].priority]}
        /\ query.status \in {Unset, desk[t].status}
        /\ MatchesSearch(t, query.q)}

(* A parsed address asks for page 1 or a later one. *)
LEMMA PageAsked ==
    ASSUME NEW query \in Query
    PROVE  query.page \in Nat \ {0} /\ query.page \in Int
  <1>1. query.page \in Nat \ {0}
    BY Zenon DEF Query
  <1> QED
    BY <1>1

(* A list has every ticket that matches, and only those. *)
LEMMA ListHasMatching ==
    ASSUME desk \in Seq(Ticket), NEW query \in Query
    PROVE  /\ Filtered(query) = Sorted(query.sort, Matching(query))
           /\ Filtered(query) \in Seq(Matching(query))
           /\ IsFiniteSet(Matching(query)) /\ Matching(query) \subseteq VisibleTickets
           /\ Len(Filtered(query)) = Cardinality(Matching(query))
           /\ Cardinality(Matching(query)) \in Nat
  <1>1. query.sort \in Sorts
    BY DEF Query
  <1>2. Matching(query) \subseteq VisibleTickets /\ VisibleTickets \subseteq DOMAIN desk
    BY DEF Matching, VisibleTickets
  <1>3. Filtered(query) = Sorted(query.sort, Matching(query))
    BY DEF Filtered, Matching
  <1> QED
    BY <1>1, <1>2, <1>3, SortedLists

(* What a list is shown as. *)
LEMMA ListShape ==
    ASSUME desk \in Seq(Ticket), NEW query \in Query
    PROVE  LET f == Filtered(query)
               total == Len(f)
               page == PageShown(query.page, total)
               start == (page - 1) * PageSize
               end == IF page * PageSize <= total THEN page * PageSize ELSE total
           IN  /\ ListTickets(query).total = total
               /\ ListTickets(query).pageCount = PageCount(total)
               /\ ListTickets(query).items = SubSeq(f, start + 1, end)
  <1> DEFINE f == Filtered(query)
             total == Len(f)
             page == PageShown(query.page, total)
             start == (page - 1) * PageSize
             end == IF page * PageSize <= total THEN page * PageSize ELSE total
  <1>1. total \in Nat /\ query.page \in Int
    BY ListHasMatching, PageAsked
  <1>2. page \in 1..PageCount(total)
    BY <1>1, PageExists
  <1>3. Min({start + PageSize, total}) = end
    <2> HIDE DEF page, total
    <2> QED
      BY <1>1, <1>2, PageBounds
  <1>4. /\ ListTickets(query).total = total
        /\ ListTickets(query).pageCount = PageCount(total)
        /\ ListTickets(query).items = SubSeq(f, start + 1, Min({start + PageSize, total}))
    BY DEF ListTickets, SelectTickets
  <1> QED
    BY <1>3, <1>4

(* The page of a query that is otherwise the same. *)
LEMMA OtherPage ==
    ASSUME NEW query \in Query, NEW n \in Nat \ {0}
    PROVE  LET other == [query EXCEPT !.page = n] IN
           other \in Query /\ other.page = n /\ Filtered(other) = Filtered(query)
  <1> DEFINE other == [query EXCEPT !.page = n]
  <1>1. /\ other \in Query /\ other.page = n
        /\ other.view = query.view /\ other.q = query.q /\ other.priority = query.priority
        /\ other.status = query.status /\ other.sort = query.sort
    BY DEF Query
  <1> HIDE DEF other
  <1>2. Filtered(other) = Filtered(query)
    BY <1>1 DEF Filtered
  <1> QED
    BY <1>1, <1>2 DEF other

(* The pages of a list, one after another, are the list. *)
LEMMA PagesAreTheList ==
    ASSUME desk \in Seq(Ticket), NEW query \in Query
    PROVE  LET pages == PageOf(query, 1).pageCount IN
           FlattenSeq([n \in 1..pages |-> PageOf(query, n).items]) = Filtered(query)
  <1> DEFINE f == Filtered(query)
             total == Len(f)
             pc == PageCount(total)
             End(n) == IF n * PageSize <= total THEN n * PageSize ELSE total
             G == [n \in 1..pc |-> PageOf(query, n).items]
             h == [n \in 1..pc |-> SubSeq(f, 1, End(n))]
             R == Matching(query)
  <1>1. f \in Seq(R) /\ total \in Nat
    BY ListHasMatching
  <1>2. /\ pc \in Nat \ {0} /\ total <= pc * PageSize /\ PageSize \in Nat \ {0}
    BY <1>1, PagesSuffice, InboxConstants
  <1>3. \A n \in Nat \ {0} :
           /\ PageOf(query, n).pageCount = pc
           /\ n \in 1..pc =>
                 PageOf(query, n).items = SubSeq(f, (n - 1) * PageSize + 1, End(n))
    <2> TAKE n \in Nat \ {0}
    <2> DEFINE other == [query EXCEPT !.page = n]
    <2>1. other \in Query /\ other.page = n /\ Filtered(other) = f
      BY OtherPage
    <2>2. PageOf(query, n) = ListTickets(other)
      BY DEF PageOf
    <2> HIDE DEF other
    <2>3. PageOf(query, n).pageCount = pc
      BY <2>1, <2>2, ListShape
    <2>4. ASSUME n \in 1..pc
          PROVE  PageOf(query, n).items = SubSeq(f, (n - 1) * PageSize + 1, End(n))
      <3>1. PageShown(n, total) = n
        BY <1>1, <2>4, PageExists
      <3> QED
        BY <2>1, <2>2, <3>1, ListShape
    <2> QED
      BY <2>3, <2>4
  <1>4. \A n \in 1..pc : G[n] = SubSeq(f, (n - 1) * PageSize + 1, End(n))
    <2> TAKE n \in 1..pc
    <2>1. n \in Nat \ {0}
      BY <1>2
    <2>2. G[n] = PageOf(query, n).items
      OBVIOUS
    <2> HIDE DEF G, f, pc, End
    <2> QED
      BY <1>3, <2>1, <2>2
  <1>5. Len(G) = pc
    BY <1>2
  <1>6. \A n \in 1..pc : h[n] = IF n = 1 THEN G[n] ELSE h[n - 1] \o G[n]
    <2> TAKE n \in 1..pc
    <2> DEFINE start == (n - 1) * PageSize
    <2>1. /\ start \in Nat /\ start + PageSize = n * PageSize /\ start <= total
          /\ n > 1 => start < total
      BY <1>1, PageBounds
    <2>2. End(n) \in start..total
      BY <1>1, <1>2, <2>1
    <2>3. G[n] = SubSeq(f, start + 1, End(n))
      BY <1>4
    <2>4. CASE n = 1
      <3>1. start = 0
        BY <1>2, <2>4
      <3> QED
        BY <2>3, <2>4, <3>1
    <2>5. CASE n # 1
      <3>1. n - 1 \in 1..pc /\ End(n - 1) = start
        BY <1>2, <2>1, <2>5
      <3>2. h[n - 1] = SubSeq(f, 1, start)
        BY <3>1
      <3> HIDE DEF start, G, h, pc, End, f, R
      <3>3. SubSeq(f, 1, start) \o SubSeq(f, start + 1, End(n)) = SubSeq(f, 1, End(n))
        <4>1. 1 \in 1..(Len(f) + 1) /\ start \in (1 - 1)..Len(f) /\ End(n) \in start..Len(f)
          BY <1>1, <2>1, <2>2
        <4> HIDE DEF total
        <4> QED
          BY <1>1, <4>1, ConcatAdjacentSubSeq
      <3> QED
        BY <2>3, <2>5, <3>2, <3>3 DEF h
    <2> QED
      BY <2>4, <2>5
  <1>7. h = [n \in 1..pc |-> IF n = 1 THEN G[n] ELSE h[n - 1] \o G[n]]
    BY <1>6
  <1>8. FlattenSeq(G) = h[pc]
    <2> HIDE DEF h, G, pc
    <2> QED
      BY <1>2, <1>5, <1>7, FlattenIs
  <1>9. End(pc) = total
    <2>1. pc * PageSize \in Int
      BY <1>2
    <2> QED
      BY <1>1, <1>2, <2>1
  <1>10. h[pc] = f
    <2>1. SubSeq(f, 1, total) = f
      BY <1>1, SubSeqFull
    <2> QED
      BY <1>2, <1>9, <2>1
  <1>11. PageOf(query, 1).pageCount = pc
    BY <1>3
  <1> QED
    BY <1>8, <1>10, <1>11

(* A page of a list that is not empty has a row. *)
LEMMA PageNotEmpty ==
    ASSUME desk \in Seq(Ticket), NEW query \in Query, ListTickets(query).total > 0
    PROVE  ListTickets(query).items # <<>>
  <1> DEFINE f == Filtered(query)
             total == Len(f)
             page == PageShown(query.page, total)
             start == (page - 1) * PageSize
             end == IF page * PageSize <= total THEN page * PageSize ELSE total
             R == Matching(query)
  <1>1. f \in Seq(R) /\ total \in Nat /\ query.page \in Int
    BY ListHasMatching, PageAsked
  <1>2. ListTickets(query).total = total /\ ListTickets(query).items = SubSeq(f, start + 1, end)
    BY ListShape
  <1>3. page \in 1..PageCount(total)
    BY <1>1, PageExists
  <1>4. start \in Nat /\ start < total /\ start < page * PageSize /\ page * PageSize \in Int
    <2> HIDE DEF total, page
    <2>1. start \in Nat /\ start + PageSize = page * PageSize /\ start < total
      BY <1>1, <1>2, <1>3, PageBounds
    <2>2. PageSize \in Nat \ {0}
      BY InboxConstants
    <2> HIDE DEF start
    <2> QED
      BY <2>1, <2>2
  <1>5. start + 1 <= end /\ start + 1 \in 1..total /\ end \in 1..total
    BY <1>1, <1>4
  <1> HIDE DEF f, total, page, start, end, R
  <1>6. Len(SubSeq(f, start + 1, end)) = end - (start + 1) + 1
    BY <1>1, <1>5, SubSeqProperties DEF total
  <1>7. Len(SubSeq(f, start + 1, end)) # 0
    BY <1>1, <1>5, <1>6
  <1>8. Len(<<>>) = 0
    OBVIOUS
  <1> QED
    BY <1>2, <1>7, <1>8

(* Nothing is shown but what the list has. *)
LEMMA RowsMatch ==
    ASSUME desk \in Seq(Ticket), NEW query \in Query
    PROVE  Range(ListTickets(query).items) \subseteq Matching(query)
  <1> DEFINE f == Filtered(query)
             total == Len(f)
             page == PageShown(query.page, total)
             start == (page - 1) * PageSize
             end == IF page * PageSize <= total THEN page * PageSize ELSE total
             R == Matching(query)
  <1>1. f \in Seq(R) /\ total \in Nat /\ query.page \in Int
    BY ListHasMatching, PageAsked
  <1>2. ListTickets(query).items = SubSeq(f, start + 1, end)
    BY ListShape
  <1>3. page \in 1..PageCount(total)
    BY <1>1, PageExists
  <1>4. start \in Nat
    <2> HIDE DEF total, page
    <2> QED
      BY <1>1, <1>3, PageBounds
  <1>5. end \in Int /\ end <= total
    <2>1. PageSize \in Int /\ page \in Int
      BY <1>3, InboxConstants
    <2>2. page * PageSize \in Int
      BY <2>1
    <2> QED
      BY <1>1, <2>2
  <1> HIDE DEF f, total, page, start, end, R
  <1>6. \A i \in (start + 1)..end : f[i] \in R
    <2> TAKE i \in (start + 1)..end
    <2>1. i \in DOMAIN f
      BY <1>1, <1>4, <1>5 DEF total
    <2> QED
      BY <1>1, <2>1, ElementOf
  <1>7. SubSeq(f, start + 1, end) \in Seq(R)
    BY <1>4, <1>5, <1>6, SubSeqProperties
  <1>8. Range(ListTickets(query).items) \subseteq R
    BY <1>2, <1>7, ElementOf DEF Range
  <1> QED
    BY <1>8 DEF R

(* The head of a list. *)
LEMMA ShortenedIsHead ==
    ASSUME NEW R, NEW q \in Seq(R)
    PROVE  IsPrefix(Shortened(q), q) /\ Range(Shortened(q)) \subseteq R
  <1> DEFINE n == IF SummaryLimit <= Len(q) THEN SummaryLimit ELSE Len(q)
  <1>1. n \in Nat /\ n <= Len(q) /\ Len(q) \in Nat
    BY InboxConstants
  <1>2. Shortened(q) = SubSeq(q, 1, n)
    <2>1. Min({SummaryLimit, Len(q)}) = n
      BY <1>1, InboxConstants, PickOfTwo
    <2> QED
      BY <2>1 DEF Shortened
  <1> HIDE DEF n
  <1>3. \A i \in 1..n : q[i] \in R
    BY <1>1, ElementOf
  <1>4. /\ SubSeq(q, 1, n) \in Seq(R)
        /\ Len(SubSeq(q, 1, n)) = IF 1 <= n THEN n - 1 + 1 ELSE 0
    BY <1>1, <1>3, SubSeqProperties
  <1>5. Len(SubSeq(q, 1, n)) = n
    BY <1>1, <1>4
  <1>6. SubSeq(SubSeq(q, 1, n), 1, n) = SubSeq(q, 1, n)
    BY <1>4, <1>5, SubSeqFull
  <1>7. IsPrefix(Shortened(q), q)
    BY <1>1, <1>2, <1>5, <1>6 DEF IsPrefix
  <1>8. Range(Shortened(q)) \subseteq R
    BY <1>2, <1>4, ElementOf DEF Range
  <1> QED
    BY <1>7, <1>8

(* The list behind a link of the sidebar or the dashboard is its view. *)
LEMMA ViewLists ==
    ASSUME desk \in Seq(Ticket), NEW v \in Views, NEW sort \in Sorts
    PROVE  LET query == [ViewHref(v) EXCEPT !.sort = sort] IN
           /\ ViewHref(v) \in Query /\ query \in Query /\ query.sort = sort
           /\ Matching(query) = {t \in VisibleTickets : InView(v, t)}
           /\ Matching(ViewHref(v)) = {t \in VisibleTickets : InView(v, t)}
  <1> DEFINE query == [ViewHref(v) EXCEPT !.sort = sort]
  <1>1. ViewHref(v) \in Query
    <2>1. "newest" \in Sorts /\ 1 \in Nat \ {0}
      BY DEF Sorts
    <2> QED
      BY <2>1 DEF ViewHref, Query
  <1>2. ViewHref(v).view = v /\ ViewHref(v).q = "" /\ ViewHref(v).priority = Unset
        /\ ViewHref(v).status = Unset
    BY DEF ViewHref
  <1>3. /\ query \in Query /\ query.sort = sort
        /\ query.view = v /\ query.q = "" /\ query.priority = Unset /\ query.status = Unset
    BY <1>1, <1>2 DEF Query
  <1> HIDE DEF query
  <1>4. \A w \in {query, ViewHref(v)} : Matching(w) = {t \in VisibleTickets : InView(v, t)}
    BY <1>2, <1>3 DEF Matching, MatchesSearch
  <1> QED
    BY <1>1, <1>3, <1>4 DEF query

(* A badge, or a card, has the number of the list behind it. *)
LEMMA ViewTotals ==
    ASSUME desk \in Seq(Ticket), NEW v \in Views, NEW sort \in Sorts
    PROVE  /\ ListTickets(ViewHref(v)).total = Cardinality({t \in VisibleTickets : InView(v, t)})
           /\ ListTickets([ViewHref(v) EXCEPT !.sort = sort]).total
                = Cardinality({t \in VisibleTickets : InView(v, t)})
           /\ IsFiniteSet({t \in VisibleTickets : InView(v, t)})
  <1> DEFINE query == [ViewHref(v) EXCEPT !.sort = sort]
             S == {t \in VisibleTickets : InView(v, t)}
  <1>1. ViewHref(v) \in Query /\ query \in Query /\ Matching(query) = S
        /\ Matching(ViewHref(v)) = S
    BY ViewLists
  <1> HIDE DEF query, S
  <1>2. \A w \in {query, ViewHref(v)} : ListTickets(w).total = Cardinality(S)
    BY <1>1, ListHasMatching, ListShape
  <1>3. IsFiniteSet(S)
    BY <1>1, ListHasMatching
  <1> QED
    BY <1>2, <1>3 DEF query, S

-----------------------------------------------------------------------------
(* Where the links lead. *)

Routes == {"dashboard", "notifications", "tool", "list", "ticket", "missing"}

(* A link to a page that exists: a ticket it opens is one the agent sees. *)
Leads(link) ==
    /\ link \in [at: Routes, id: DOMAIN desk \cup {0}, query: Query]
    /\ link.at # "missing"
    /\ link.at = "ticket" => link.id \in VisibleTickets

(* Typing, and no screen of a ticket of another department. *)
InboxInv ==
    /\ InboxTypeOK
    /\ place.at = "ticket" => place.id \in VisibleTickets

(* The fixtures are a list of tickets. *)
LEMMA DeskIsList == ASSUME InboxTypeOK PROVE desk \in Seq(Ticket)
  BY InboxConstants DEF InboxTypeOK

(* The sidebar's links to the views are queries of their own. *)
LEMMA ViewIsQuery == ASSUME NEW v \in Views PROVE ViewHref(v) \in Query
  <1>1. "newest" \in Sorts /\ 1 \in Nat \ {0}
    BY DEF Sorts
  <1> QED
    BY <1>1 DEF ViewHref, Query

(* Pages without a list keep the query of an address without one. *)
LEMMA PagesLead ==
    ASSUME NEW at \in {"dashboard", "notifications", "tool"}
    PROVE  Leads(Page(at))
  <1>1. ViewHref("assigned") \in Query
    BY ViewIsQuery DEF Views
  <1> QED
    BY <1>1 DEF Leads, Page, At, Routes

(* So are the pages of the list. *)
LEMMA ListsLead ==
    ASSUME NEW query \in Query
    PROVE  Leads(ListAt(query))
  BY DEF Leads, ListAt, At, Routes

(* A row's link leads to a ticket the agent sees. *)
LEMMA TicketsLead ==
    ASSUME NEW query \in Query, NEW t \in VisibleTickets
    PROVE  Leads(TicketHref(t, query)) /\ Leads(BareHref(t))
  <1>1. ViewHref("assigned") \in Query
    BY ViewIsQuery DEF Views
  <1>2. t \in DOMAIN desk
    BY DEF VisibleTickets
  <1>3. \A q \in Query : Leads(TicketHref(t, q))
    BY <1>2 DEF Leads, TicketHref, At, Routes
  <1> QED
    BY <1>1, <1>3 DEF BareHref

(* A page that a link leads to is the one it names. *)
LEMMA LeadsSomewhere ==
    ASSUME desk \in Seq(Ticket), NEW link, Leads(link)
    PROVE  TicketPage(link) = link
  <1>1. \A t \in VisibleTickets : t # 0
    BY DEF VisibleTickets
  <1> QED
    BY <1>1 DEF Leads, TicketPage, GetTicket

(* A notification's link does too, or leads to a page without a list. *)
LEMMA NoticesLead ==
    ASSUME NEW n \in VisibleNotifications
    PROVE  Leads(NoticeLink(n))
  <1>1. ViewHref("assigned") \in Query
    BY ViewIsQuery DEF Views
  <1>2. CASE About(n) = 0
    BY <1>2, PagesLead DEF NoticeLink
  <1>3. CASE About(n) # 0
    <2>1. About(n) \in VisibleTickets
      BY <1>3 DEF VisibleNotifications
    <2> QED
      BY <1>1, <1>3, <2>1, TicketsLead DEF NoticeLink
  <1> QED
    BY <1>2, <1>3

(* A card of the dashboard leads to a list. *)
LEMMA CardsLead ==
    ASSUME NEW c
    PROVE  StatHref(c) \in Query
  <1>1. \A v \in Views : ViewHref(v) \in Query
    BY ViewIsQuery
  <1>2. CASE c \in {"assigned", "attention", "waiting"}
    BY <1>1, <1>2 DEF StatHref, Views
  <1>3. CASE c = "resolvedToday"
    BY <1>1, <1>3 DEF StatHref, Views
  <1>4. CASE c \notin {"assigned", "attention", "waiting", "resolvedToday"}
    <2>1. StatHref(c) = [ViewHref("open") EXCEPT !.sort = "sla"]
      BY <1>4 DEF StatHref
    <2>2. ViewHref("open") \in Query /\ "sla" \in Sorts
      BY <1>1 DEF Views, Sorts
    <2> QED
      BY <2>1, <2>2 DEF Query
  <1> QED
    BY <1>2, <1>3, <1>4

(* The two lists of the dashboard: what they hold, and whose head they are. *)
LEMMA DashboardLists ==
    ASSUME desk \in Seq(Ticket)
    PROVE  /\ IsPrefix(ListAttention, Filtered([ViewHref("attention") EXCEPT !.sort = "sla"]))
           /\ IsPrefix(ListRecent, Filtered(ViewHref("open")))
           /\ Range(ListAttention) \subseteq VisibleTickets
           /\ Range(ListRecent) \subseteq VisibleTickets
           /\ Range(ListAllTickets) \subseteq VisibleTickets
  <1> DEFINE urgent == [ViewHref("attention") EXCEPT !.sort = "sla"]
             open == ViewHref("open")
  <1>1. /\ urgent \in Query /\ urgent.sort = "sla"
        /\ Matching(urgent) = {t \in VisibleTickets : InView("attention", t)}
    BY ViewLists DEF Views, Sorts
  <1>2. /\ open \in Query /\ open.sort = "newest"
        /\ Matching(open) = {t \in VisibleTickets : InView("open", t)}
    BY ViewLists DEF Views, Sorts, ViewHref
  <1>3. /\ {t \in VisibleTickets : InView("attention", t)} = Having(NeedsAttention)
        /\ {t \in VisibleTickets : InView("open", t)} = Having(IsLive)
    BY DEF InView, Having
  <1> HIDE DEF urgent, open
  <1>4. /\ Filtered(urgent) = Sorted("sla", Having(NeedsAttention))
        /\ Filtered(urgent) \in Seq(Matching(urgent))
        /\ Matching(urgent) \subseteq VisibleTickets
    BY <1>1, <1>3, ListHasMatching
  <1>5. /\ Filtered(open) = Sorted("newest", Having(IsLive))
        /\ Filtered(open) \in Seq(Matching(open))
        /\ Matching(open) \subseteq VisibleTickets
    BY <1>2, <1>3, ListHasMatching
  <1>6. IsPrefix(ListAttention, Filtered(urgent)) /\ Range(ListAttention) \subseteq VisibleTickets
    BY <1>4, ShortenedIsHead DEF ListAttention
  <1>7. IsPrefix(ListRecent, Filtered(open)) /\ Range(ListRecent) \subseteq VisibleTickets
    BY <1>5, ShortenedIsHead DEF ListRecent
  <1>8. Range(ListAllTickets) \subseteq VisibleTickets
    <2>1. VisibleTickets \subseteq DOMAIN desk /\ "newest" \in Sorts
      BY DEF VisibleTickets, Sorts
    <2>2. ListAllTickets \in Seq(VisibleTickets)
      BY <2>1, SortedLists DEF ListAllTickets
    <2> QED
      BY <2>2, ElementOf DEF Range
  <1> QED
    BY <1>6, <1>7, <1>8 DEF urgent, open

(* No link on any screen leads to a page that does not exist. *)
LEMMA LinksLead ==
    ASSUME InboxInv, NEW link \in LinksShown
    PROVE  Leads(link)
  <1>1. desk \in Seq(Ticket) /\ place.query \in Query
    BY DeskIsList DEF InboxInv, InboxTypeOK
  <1>2. \A v \in Views : ViewHref(v) \in Query
    BY ViewIsQuery
  <1>3. \A t \in VisibleTickets : Leads(BareHref(t)) /\ Leads(TicketHref(t, place.query))
    BY <1>1, TicketsLead
  <1>4. CASE link \in Destinations
    <2>1. \A v \in Views : Leads(ListAt(ViewHref(v)))
      BY <1>2, ListsLead
    <2> QED
      BY <1>4, <2>1, PagesLead DEF Destinations
  <1>5. CASE link \in PaletteLinks
    BY <1>1, <1>3, <1>5, DashboardLists DEF PaletteLinks
  <1>6. CASE link \in NoticeLinks
    BY <1>6, NoticesLead DEF NoticeLinks
  <1>7. CASE link \in DashboardLinks
    <2>1. \A c : Leads(ListAt(StatHref(c)))
      BY CardsLead, ListsLead
    <2> QED
      BY <1>1, <1>3, <1>7, <2>1, DashboardLists DEF DashboardLinks
  <1>8. CASE link \in QueueLinks
    <2>1. CASE link \in TicketRows(place.query)
      <3>1. Range(ListTickets(place.query).items) \subseteq VisibleTickets
        BY <1>1, RowsMatch, ListHasMatching
      <3> QED
        BY <1>3, <2>1, <3>1 DEF TicketRows
    <2>2. CASE link \in PageLinks(place.query)
      <3>1. PICK n \in 1..ListTickets(place.query).pageCount :
               link = ListAt([place.query EXCEPT !.page = n])
        BY <2>2 DEF PageLinks
      <3>2. n \in Nat \ {0}
        OBVIOUS
      <3> QED
        BY <1>1, <3>1, <3>2, OtherPage, ListsLead
    <2> QED
      BY <1>8, <2>1, <2>2 DEF QueueLinks
  <1> QED
    BY <1>4, <1>5, <1>6, <1>7, <1>8 DEF LinksShown

(* Whatever was typed stands for a query. *)
LEMMA TypedIsQuery ==
    ASSUME NEW raw \in Addresses
    PROVE  ParseTicketQuery(raw) \in Query
  <1>1. /\ raw.q \in STRING /\ raw.page \in Int
    BY InboxConstants
  <1>2. ParseView(raw.view) \in Views /\ ParseSort(raw.sort) \in Sorts
    BY DEF ParseView, ParseSort, Views, Sorts
  <1>3. (IF raw.page > 0 THEN raw.page ELSE 1) \in Nat \ {0}
    BY <1>1
  <1> QED
    BY <1>1, <1>2, <1>3 DEF ParseTicketQuery, Query

-----------------------------------------------------------------------------
(* The invariant. *)

(* The panel opens on the dashboard. *)
LEMMA InboxInitInv == ASSUME InboxInit PROVE InboxInv
  <1>1. Leads(Page("dashboard"))
    BY PagesLead
  <1> QED
    BY <1>1 DEF InboxInit, InboxInv, InboxTypeOK, Leads, Routes, Page, At

(* Every link shown and every address typed leads to a page that exists. *)
LEMMA InboxStepInv == ASSUME InboxInv, [InboxNext]_inboxVars PROVE InboxInv'
  <1> DEFINE OnScreen(page) ==
               /\ page \in [at: Routes, id: DOMAIN desk \cup {0}, query: Query]
               /\ page.at = "ticket" => page.id \in VisibleTickets
  <1>1. desk \in Seq(Ticket) /\ desk \in Desks /\ readIds \subseteq VisibleNotifications
    BY DeskIsList DEF InboxInv, InboxTypeOK
  <1>2. ASSUME desk' = desk, OnScreen(place'), readIds' \subseteq VisibleNotifications
        PROVE  InboxInv'
    BY <1>1, <1>2 DEF InboxInv, InboxTypeOK, Routes, VisibleTickets, VisibleNotifications
  <1>3. \A link : Leads(link) => OnScreen(TicketPage(link))
    BY <1>1, LeadsSomewhere DEF Leads
  <1>4. CASE UNCHANGED inboxVars
    BY <1>1, <1>2, <1>4 DEF inboxVars, InboxInv, InboxTypeOK, Routes
  <1>5. ASSUME NEW link \in LinksShown, FollowLink(link) PROVE InboxInv'
    BY <1>1, <1>2, <1>3, <1>5, LinksLead DEF FollowLink
  <1>6. ASSUME NEW raw \in Addresses, NEW t \in DOMAIN desk \cup {0}, OpenAddress(raw, t)
        PROVE  InboxInv'
    <2> DEFINE query == ParseTicketQuery(raw)
    <2>1. query \in Query
      BY TypedIsQuery
    <2> HIDE DEF query
    <2>2. OnScreen(ListAt(query))
      BY <2>1, ListsLead DEF Leads
    <2>3. OnScreen(TicketPage(TicketHref(t, query)))
      <3>1. CASE t \in VisibleTickets
        BY <1>3, <2>1, <3>1, TicketsLead
      <3>2. CASE t \notin VisibleTickets
        BY <2>1, <3>2 DEF TicketPage, TicketHref, At, GetTicket, Routes
      <3> QED
        BY <3>1, <3>2
    <2>4. desk' = desk /\ readIds' = {} /\ OnScreen(place')
      BY <1>6, <2>2, <2>3 DEF OpenAddress, query
    <2> QED
      BY <1>2, <2>4
  <1>7. ASSUME NEW n \in VisibleNotifications, OpenNotice(n) PROVE InboxInv'
    BY <1>1, <1>2, <1>3, <1>7, NoticesLead DEF OpenNotice
  <1>8. CASE MarkAllRead
    <2>1. OnScreen(place)
      BY DEF InboxInv, InboxTypeOK, Routes
    <2> QED
      BY <1>2, <1>8, <2>1 DEF MarkAllRead
  <1> QED
    BY <1>4, <1>5, <1>6, <1>7, <1>8 DEF InboxNext

-----------------------------------------------------------------------------
(* The agreement. *)

(* The badges and the cards. *)
LEMMA CountsAgree ==
    ASSUME desk \in Seq(Ticket)
    PROVE  /\ \A v \in Badged : CountFor(v) = ListTickets(ViewHref(v)).total
           /\ \A c \in {"assigned", "attention", "waiting"} :
                 GetStatSummary[c] = ListTickets(StatHref(c)).total
           /\ GetStatSummary.slaBreached <= ListTickets(StatHref("slaBreached")).total
  <1> DEFINE InList(v) == {t \in VisibleTickets : InView(v, t)}
  <1>1. \A v \in Views : ListTickets(ViewHref(v)).total = Cardinality(InList(v))
    <2> TAKE v \in Views
    <2>1. "sla" \in Sorts
      BY DEF Sorts
    <2> QED
      BY <2>1, ViewTotals
  <1>2. \A v \in Badged : CountFor(v) = ListTickets(ViewHref(v)).total
    BY <1>1 DEF Badged, CountFor, CountsByView
  <1>3. /\ GetStatSummary.assigned = Cardinality(InList("assigned"))
        /\ GetStatSummary.attention = Cardinality(InList("attention"))
        /\ GetStatSummary.waiting = Cardinality(InList("waiting"))
    <2>1. /\ InList("assigned") = {t \in VisibleTickets : IsMine(t) /\ IsLive(t)}
          /\ InList("attention") = {t \in VisibleTickets : NeedsAttention(t)}
          /\ InList("waiting") = {t \in VisibleTickets : desk[t].status = "pending"}
      BY DEF InView
    <2> HIDE DEF InList
    <2> QED
      BY <2>1 DEF GetStatSummary, Having
  <1>4. \A c \in {"assigned", "attention", "waiting"} :
           c \in Views /\ StatHref(c) = ViewHref(c)
    BY DEF Views, StatHref
  <1>5. GetStatSummary.slaBreached <= ListTickets(StatHref("slaBreached")).total
    <2> DEFINE Late == {t \in VisibleTickets : IsLive(t) /\ SlaBreached(t)}
    <2>1. /\ IsFiniteSet(InList("open"))
          /\ ListTickets(StatHref("slaBreached")).total = Cardinality(InList("open"))
      BY ViewTotals DEF StatHref, Views, Sorts
    <2>2. Late \subseteq InList("open")
      BY DEF InView
    <2>3. GetStatSummary.slaBreached = Cardinality(Late)
      BY DEF GetStatSummary, Having
    <2> HIDE DEF InList, Late
    <2> QED
      BY <2>1, <2>2, <2>3, FS_Subset
  <1> HIDE DEF InList
  <1>6. \A c \in {"assigned", "attention", "waiting"} :
           GetStatSummary[c] = ListTickets(StatHref(c)).total
    BY <1>1, <1>3, <1>4
  <1> QED
    BY <1>2, <1>5, <1>6

(* The bell rings only for what the sidebar counts. *)
LEMMA BellAgrees == BellUnread = {} \/ SidebarUnread > 0
  <1> DEFINE S == {n \in VisibleNotifications : ~Notices[n].read}
  <1> SUFFICES ASSUME BellUnread # {} PROVE SidebarUnread > 0
    OBVIOUS
  <1>1. BellUnread \subseteq S /\ S \subseteq DOMAIN Notices
    BY DEF BellUnread, VisibleNotifications
  <1>2. IsFiniteSet(DOMAIN Notices)
    <2>1. DOMAIN Notices = 1..Len(Notices) /\ Len(Notices) \in Nat
      BY InboxConstants
    <2> QED
      BY <2>1, FS_Interval
  <1>3. SidebarUnread = Cardinality(S)
    BY DEF SidebarUnread
  <1> HIDE DEF S
  <1>4. IsFiniteSet(S) /\ S # {}
    BY <1>1, <1>2, FS_Subset
  <1>5. Cardinality(S) \in Nat /\ Cardinality(S) # 0
    BY <1>4, FS_EmptySet, FS_CardinalityType
  <1> QED
    BY <1>3, <1>5

(* What the state's invariant and the arithmetic of pages give together. *)
LEMMA AgreementHolds == ASSUME InboxInv PROVE InboxAgrees
  <1>1. desk \in Seq(Ticket) /\ place.query \in Query
    BY DeskIsList DEF InboxInv, InboxTypeOK
  <1>2. LET pages == PageOf(place.query, 1).pageCount IN
        FlattenSeq([n \in 1..pages |-> PageOf(place.query, n).items]) = Filtered(place.query)
    BY <1>1, PagesAreTheList
  <1>3. ListTickets(place.query).total > 0 => ListTickets(place.query).items # <<>>
    BY <1>1, PageNotEmpty
  <1>4. \A link \in LinksShown : TicketPage(link).at # "missing"
    <2> TAKE link \in LinksShown
    <2>1. Leads(link)
      BY LinksLead
    <2> QED
      BY <1>1, <2>1, LeadsSomewhere DEF Leads
  <1>5. place.at = "ticket" => desk[place.id].team = "mine"
    BY DEF InboxInv, VisibleTickets
  <1> QED
    BY <1>1, <1>2, <1>3, <1>4, <1>5, CountsAgree, BellAgrees, DashboardLists DEF InboxAgrees

-----------------------------------------------------------------------------

(* The page on screen is always one of the panel's, with a query that can  *)
(* be shown, and the bell marks only notifications of this agent.          *)
THEOREM InboxTypeCorrect == InboxSpec => []InboxTypeOK
  <1>1. InboxInv => InboxTypeOK
    BY DEF InboxInv
  <1> QED
    BY <1>1, InboxInitInv, InboxStepInv, PTL DEF InboxSpec

(* On every URL, the badges, cards, pages, lists and links of the agent's  *)
(* panel agree with one another.                                           *)
THEOREM PanelAlwaysAgrees == InboxSpec => []InboxAgrees
  BY InboxInitInv, InboxStepInv, AgreementHolds, PTL DEF InboxSpec
=============================================================================
