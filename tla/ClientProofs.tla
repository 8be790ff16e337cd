---------------------------- MODULE ClientProofs -----------------------------
(***************************************************************************)
(* Proofs about what a browser keeps between pages.  Session, for any      *)
(* accounts, claims and any invitation: the cookies agree, a tab shows     *)
(* pages of its account's panel, and holds data of its own account only.   *)
(* QueryCache, for any number of mutations in any order: a query on screen *)
(* has seen the tab's own answered writes, and the cache implements        *)
(* FreshReads.                                                             *)
(***************************************************************************)
EXTENDS Session, QueryCache, TLAPS

-----------------------------------------------------------------------------
(* Session. *)

(* What a page load leaves: nothing of the document before. *)
LoadIsClean == loading => memory = {} /\ call = NoCall /\ auth = NoAuth

(* A call under way in a signed-in tab asks as its own account, or as      *)
(* nobody: this is what keeps OwnAccountOnly when the answer comes.        *)
OwnCallOnly ==
    Settled /\ jar.token # NoOne /\ moved = "no" =>
        call = NoCall \/ (call.stage = "sent" /\ call.as \in {jar.token, NoOne})

(* A sign-in names an account, and an answer names a page to go on to. *)
AuthKnown ==
    /\ auth.kind \in {"login", "register", "accept"} => auth.account \in Accounts
    /\ auth.stage = "done" => auth.to \in Paths

SessionInv ==
    /\ SessionTypeOK
    /\ AuthKnown
    /\ CookiesAgree
    /\ PanelMatchesRole
    /\ LoadIsClean
    /\ OwnCallOnly
    /\ OwnAccountOnly

-----------------------------------------------------------------------------
(* The operators. *)

(* Every account has a panel. *)
LEMMA RoleOfType ==
  ASSUME NEW a \in Accounts
  PROVE  RoleOf[a] \in Roles
BY DEF RoleOf, RoleFromClaims, Roles

(* No role is the absence of one. *)
LEMMA RoleIsNotNone == NoRole \notin Roles
BY DEF NoRole, Roles

(* homeFor is a page the role may open (lib/auth/roles.ts). *)
LEMMA HomeIsOpen ==
  ASSUME NEW r \in Roles
  PROVE  HomeFor(r) \in Panels /\ CanAccess(r, HomeFor(r))
BY DEF HomeFor, CanAccess, Roles, Panels

(* The three panels and the screens are paths. *)
LEMMA PathsKnown ==
  /\ Panels \subseteq Paths /\ AuthScreens \subseteq Paths
  /\ {"/login", "/", "/invite"} \subseteq Paths
  /\ Paths \subseteq Froms /\ NoPath \in Froms /\ TypedFroms \subseteq Froms
BY DEF Panels, AuthScreens, Paths, Froms, TypedFroms

(* The gate picks the role of one of the panels. *)
LEMMA GateRoleType == GateRole \in Roles
BY DEF GateRole, Roles

(* Where the gate leads is a path, and so is the ?from= it leaves. *)
LEMMA GateType ==
  ASSUME NEW p \in Paths, NEW f \in Froms
  PROVE  Gate(p) \in Paths /\ GateFrom(p, f) \in Froms
<1>1. HomeFor(GateRole) \in Paths
  BY GateRoleType, HomeIsOpen, PathsKnown
<1>2. QED
  BY <1>1, PathsKnown DEF Gate, GateFrom

(* safeRedirect only leads to a path of this site. *)
LEMMA SafeRedirectType ==
  ASSUME NEW r \in Roles, NEW f
  PROVE  SafeRedirect(f, r) \in Paths
BY HomeIsOpen, PathsKnown DEF SafeRedirect

(* A signed-in tab that passes the gate is inside its panel. *)
LEMMA GateKeepsPanel ==
  ASSUME CookiesAgree, SessionTypeOK, jar.token # NoOne, NEW p
  PROVE  \/ CanAccess(RoleOf[jar.token], Gate(p))
         \/ Gate(p) \in AuthScreens \cup {"/invite"}
<1>1. jar.token \in Accounts
  BY DEF SessionTypeOK, Jars
<1>2. GateRole = RoleOf[jar.token]
  BY <1>1, RoleOfType DEF CookiesAgree, GateRole
<1>3. CASE LetsIn(p)
  BY <1>2, <1>3 DEF Gate, LetsIn
<1>4. CASE ~LetsIn(p)
  BY <1>1, <1>2, <1>4, RoleOfType, HomeIsOpen DEF Gate
<1>5. QED
  BY <1>3, <1>4

(* What a signed-in tab may show, whatever the cookies become. *)
LEMMA LoadKeepsInv ==
  ASSUME SessionInv, SessionTypeOK', CookiesAgree', NEW p, NEW f, Load(p, f)
  PROVE  SessionInv'
<1>1. loading' /\ LoadIsClean' /\ AuthKnown'
  BY DEF Load, LoadIsClean, NoAuth, AuthKnown
<1>2. ~Settled'
  BY <1>1 DEF Settled
<1>3. QED
  BY <1>1, <1>2 DEF SessionInv, PanelMatchesRole, OwnCallOnly, OwnAccountOnly

-----------------------------------------------------------------------------
(* The invariant holds at the start and every action keeps it. *)

(* A browser without cookies starts in the invariant. *)
LEMMA SessionInitInv == SessionInit => SessionInv
<1> SUFFICES ASSUME SessionInit PROVE SessionInv
  OBVIOUS
<1>1. SessionTypeOK
  BY SessionConstants, PathsKnown
  DEF SessionInit, SessionTypeOK, Jars, DevSessions, ApiCalls, AuthCalls, NoCookies,
      NoCall, NoAuth
<1>2. CookiesAgree
  BY DEF SessionInit, CookiesAgree, NoCookies
<1>3. LoadIsClean /\ AuthKnown /\ ~Settled
  BY DEF SessionInit, LoadIsClean, AuthKnown, NoAuth, Settled
<1>4. QED
  BY <1>1, <1>2, <1>3 DEF SessionInv, PanelMatchesRole, OwnCallOnly, OwnAccountOnly

(* The records the actions write. *)
LEMMA NothingTyped == NoCookies \in Jars /\ NoCall \in ApiCalls /\ NoAuth \in AuthCalls
BY DEF NoCookies, NoCall, NoAuth, Jars, ApiCalls, AuthCalls

(* The cookies set at a login are cookies of an account.                   *)
LEMMA SetCookiesTyped ==
  ASSUME NEW a \in Accounts, NEW keep \in BOOLEAN
  PROVE  SetCookies(a, keep) \in Jars
BY RoleOfType DEF SetCookies, Jars

(* A call under way names its kind and its account.                        *)
LEMMA SendTyped ==
  ASSUME NEW kind \in {"login", "register", "accept", "logout"},
         NEW a \in Accounts \cup {NoOne}, NEW keep \in BOOLEAN, Send(kind, a, keep)
  PROVE  auth' \in AuthCalls
BY DEF Send, AuthCalls

(* An answered call is still one of the calls.                             *)
LEMMA AnsweredTyped ==
  ASSUME SessionTypeOK, NEW to \in Paths, Answered(to)
  PROVE  auth' \in AuthCalls
BY DEF Answered, SessionTypeOK, AuthCalls

(* An account whose sign-in the backend accepts exists. *)
LEMMA AcceptedAccount ==
  ASSUME SessionInv, Accepted
  PROVE  /\ auth.kind \in {"login", "register", "accept"} /\ auth.account \in Accounts
         /\ RoleOf[auth.account] \in Roles /\ HomeFor(RoleOf[auth.account]) \in Paths
<1>1. auth.kind \in {"login", "register", "accept"}
  BY DEF Accepted
<1>2. auth.account \in Accounts
  BY <1>1 DEF SessionInv, AuthKnown
<1>3. QED
  BY <1>1, <1>2, RoleOfType, HomeIsOpen, PathsKnown

(* Every action keeps the types. *)
LEMMA SessionTypeStep ==
  ASSUME SessionInv, [SessionNext]_sessionVars
  PROVE  SessionTypeOK'
<1> SessionTypeOK
  BY DEF SessionInv
<1> USE DEF SessionTypeOK, cookies, backend, screen
<1>1. CASE \E p \in Paths, f \in TypedFroms : OpenPath(p, f)
  BY <1>1, PathsKnown, NothingTyped DEF OpenPath, Load
<1>2. CASE Follow
  <2>1. Gate(path) \in Paths /\ GateFrom(path, from) \in Froms
    BY GateType
  <2>2. (~LetsIn(path)) \in BOOLEAN /\ InvitePage \subseteq {"form", "notice"}
    BY DEF InvitePage
  <2>3. QED
    BY <1>2, <2>1, <2>2 DEF Follow
<1>3. CASE \E p \in Paths : SoftNavigate(p)
  <2> PICK p \in Paths : SoftNavigate(p)
    BY <1>3
  <2>1. Gate(p) \in Paths /\ GateFrom(p, NoPath) \in Froms
    BY GateType, PathsKnown
  <2>2. QED
    BY <2>1 DEF SoftNavigate
<1>4. CASE \E kind \in {"read", "password"} : Ask(kind)
  <2> PICK kind \in {"read", "password"} : Ask(kind)
    BY <1>4
  <2>1. call' \in ApiCalls
    BY SessionConstants DEF Ask, Bearer, Jars, ApiCalls
  <2>2. dev' \in DevSessions
    BY DEF Ask, DevSessions
  <2>3. QED
    BY <2>1, <2>2 DEF Ask
<1>5. CASE \E ok \in BOOLEAN : DevLogin(ok)
  <2> PICK ok \in BOOLEAN : DevLogin(ok)
    BY <1>5
  <2>1. dev' \in DevSessions /\ call' \in ApiCalls
    BY SessionConstants DEF DevLogin, DevSessions, ApiCalls
  <2>2. QED
    BY <2>1 DEF DevLogin
<1>6. CASE DevExpire
  <2>1. dev' \in DevSessions
    BY <1>6 DEF DevExpire, DevSessions
  <2>2. QED
    BY <1>6, <2>1 DEF DevExpire
<1>7. CASE \E ok \in BOOLEAN : Answer(ok)
  <2> PICK ok \in BOOLEAN : Answer(ok)
    BY <1>7
  <2>1. memory' \subseteq Accounts
    BY DEF Answer, ApiCalls
  <2>2. QED
    BY <2>1, NothingTyped DEF Answer
<1>8. CASE Unauthorized
  BY <1>8, PathsKnown, NothingTyped DEF Unauthorized, Load
<1>9. CASE \E a \in Accounts, keep \in BOOLEAN : SubmitLogin(a, keep)
  <2>1. auth' \in AuthCalls
    BY <1>9, SendTyped DEF SubmitLogin
  <2>2. QED
    BY <1>9, <2>1 DEF SubmitLogin, Send
<1>10. CASE \E a \in Accounts : SubmitRegister(a)
  <2>1. auth' \in AuthCalls
    BY <1>10, SendTyped DEF SubmitRegister
  <2>2. QED
    BY <1>10, <2>1 DEF SubmitRegister, Send
<1>11. CASE SubmitAccept
  <2>1. auth' \in AuthCalls
    BY <1>11, SendTyped, SessionConstants DEF SubmitAccept
  <2>2. QED
    BY <1>11, <2>1 DEF SubmitAccept, Send
<1>12. CASE SignOut
  <2>1. auth' \in AuthCalls
    BY <1>12, SendTyped DEF SignOut
  <2>2. QED
    BY <1>12, <2>1 DEF SignOut, Send
<1>13. CASE SignedIn
  <2>1. auth.account \in Accounts /\ HomeFor(RoleOf[auth.account]) \in Paths
    BY <1>13, AcceptedAccount DEF SignedIn
  <2>2. auth.keep \in BOOLEAN
    BY DEF AuthCalls
  <2>3. jar' \in Jars /\ auth' \in AuthCalls
    BY <1>13, <2>1, <2>2, SetCookiesTyped, AnsweredTyped DEF SignedIn
  <2>4. QED
    BY <1>13, <2>1, <2>3 DEF SignedIn, Joins
<1>14. CASE NoSession
  <2>1. auth.account \in Accounts
    BY <1>14, AcceptedAccount DEF NoSession
  <2>2. auth' \in AuthCalls
    BY <1>14, AnsweredTyped, PathsKnown DEF NoSession
  <2>3. QED
    BY <1>14, <2>1, <2>2 DEF NoSession, Joins
<1>15. CASE Refused
  BY <1>15, NothingTyped DEF Refused
<1>16. CASE SignedOut
  <2>1. auth' \in AuthCalls
    BY <1>16, AnsweredTyped, PathsKnown DEF SignedOut
  <2>2. QED
    BY <1>16, <2>1, NothingTyped DEF SignedOut
<1>17. CASE SignOutFailed
  <2>1. auth' \in AuthCalls
    BY <1>17, AnsweredTyped, PathsKnown, NothingTyped
    DEF SignOutFailed, MenuLeaves, AgentMenuStays
  <2>2. QED
    BY <1>17, <2>1 DEF SignOutFailed
<1>18. CASE Land
  <2>1. Destination \in Paths
    <3>1. CASE auth.kind = "login"
      <4>1. RoleOf[auth.account] \in Roles
        BY <3>1, RoleOfType DEF SessionInv, AuthKnown
      <4>2. QED
        BY <3>1, <4>1, SafeRedirectType DEF Destination
    <3>2. CASE auth.kind # "login"
      BY <1>18, <3>2 DEF Land, Destination, SessionInv, AuthKnown
    <3>3. QED
      BY <3>1, <3>2
  <2>2. QED
    BY <1>18, <2>1, PathsKnown, NothingTyped DEF Land, Load
<1>19. CASE LandFromInvitation
  <2>1. auth.to \in Paths
    BY <1>19 DEF LandFromInvitation, SessionInv, AuthKnown
  <2>2. Gate(auth.to) \in Paths /\ GateFrom(auth.to, NoPath) \in Froms
    BY <2>1, GateType, PathsKnown
  <2>3. QED
    BY <1>19, <2>2, NothingTyped DEF LandFromInvitation
<1>20. CASE \E a \in Accounts, keep, spends \in BOOLEAN : OtherSignsIn(a, keep, spends)
  BY <1>20, SetCookiesTyped DEF OtherSignsIn, Joins
<1>21. CASE OtherSignsOut
  BY <1>21, NothingTyped DEF OtherSignsOut
<1>22. CASE OtherAsks
  <2>1. dev' \in DevSessions
    BY <1>22 DEF OtherAsks, DevSessions
  <2>2. QED
    BY <1>22, <2>1 DEF OtherAsks
<1>23. CASE Expire
  BY <1>23 DEF Expire
<1>24. ASSUME NEW kept \in BOOLEAN, Drop(kept)
       PROVE  jar' \in Jars /\ live' \in BOOLEAN
  BY <1>24 DEF Drop, Jars
<1>25. CASE CookiesAge
  BY <1>24, <1>25 DEF CookiesAge
<1>26. CASE Restart
  BY <1>24, <1>26, NothingTyped DEF Restart, Load
<1>27. CASE UNCHANGED sessionVars
  BY <1>27 DEF sessionVars
<1>28. QED
  BY <1>1, <1>2, <1>3, <1>4, <1>5, <1>6, <1>7, <1>8, <1>9, <1>10, <1>11, <1>12, <1>13,
     <1>14, <1>15, <1>16, <1>17, <1>18, <1>19, <1>20, <1>21, <1>22, <1>23, <1>25, <1>26,
     <1>27 DEF SessionNext

(* The cookies agree whoever writes them, and whichever of them age. *)
LEMMA CookiesStep ==
  ASSUME SessionInv, [SessionNext]_sessionVars
  PROVE  CookiesAgree'
<1> SessionTypeOK /\ CookiesAgree
  BY DEF SessionInv
<1>1. CASE UNCHANGED jar
  BY <1>1 DEF CookiesAgree
<1>2. ASSUME NEW a \in Accounts, NEW keep \in BOOLEAN, jar' = SetCookies(a, keep)
      PROVE  CookiesAgree'
  <2>1. RoleOf[a] \in Roles /\ a # NoOne
    BY RoleOfType, SessionConstants
  <2>2. QED
    BY <1>2, <2>1, RoleIsNotNone DEF SetCookies, CookiesAgree
<1>3. CASE jar' = NoCookies
  BY <1>3 DEF CookiesAgree, NoCookies
<1>4. ASSUME NEW kept \in BOOLEAN, Drop(kept)
      PROVE  CookiesAgree'
  BY <1>4 DEF Drop, CookiesAgree
<1>5. CASE SignedIn
  <2>1. auth.account \in Accounts /\ auth.keep \in BOOLEAN
    BY <1>5, AcceptedAccount DEF SignedIn, SessionTypeOK, AuthCalls
  <2>2. QED
    BY <1>2, <1>5, <2>1 DEF SignedIn
<1>6. CASE SignedOut \/ OtherSignsOut
  BY <1>3, <1>6 DEF SignedOut, OtherSignsOut
<1>7. CASE \E a \in Accounts, keep, spends \in BOOLEAN : OtherSignsIn(a, keep, spends)
  BY <1>2, <1>7 DEF OtherSignsIn
<1>8. CASE CookiesAge \/ Restart
  BY <1>4, <1>8 DEF CookiesAge, Restart
<1>9. CASE \/ \E p \in Paths, f \in TypedFroms : OpenPath(p, f)
           \/ Follow
           \/ \E p \in Paths : SoftNavigate(p)
           \/ \E kind \in {"read", "password"} : Ask(kind)
           \/ \E ok \in BOOLEAN : DevLogin(ok)
           \/ DevExpire
           \/ \E ok \in BOOLEAN : Answer(ok)
           \/ Unauthorized
  BY <1>1, <1>9
  DEF OpenPath, Follow, SoftNavigate, Ask, DevLogin, DevExpire, Answer, Unauthorized, cookies
<1>10. CASE \/ \E a \in Accounts, keep \in BOOLEAN : SubmitLogin(a, keep)
            \/ \E a \in Accounts : SubmitRegister(a)
            \/ SubmitAccept \/ SignOut
  BY <1>1, <1>10 DEF SubmitLogin, SubmitRegister, SubmitAccept, SignOut, Send, cookies
<1>11. CASE \/ NoSession \/ Refused \/ SignOutFailed \/ Land \/ LandFromInvitation
            \/ OtherAsks \/ Expire
  BY <1>1, <1>11
  DEF NoSession, Refused, SignOutFailed, Land, LandFromInvitation, OtherAsks, Expire, cookies
<1>12. CASE UNCHANGED sessionVars
  BY <1>1, <1>12 DEF sessionVars, cookies
<1>13. QED
  BY <1>5, <1>6, <1>7, <1>8, <1>9, <1>10, <1>11, <1>12 DEF SessionNext

(* A step that leaves the cookies, the page and the history alone, and     *)
(* changes nothing the tab holds, keeps what a settled tab shows.          *)
LEMMA QuietStep ==
  ASSUME SessionInv, Settled' => Settled, UNCHANGED <<jar, path, memory, call, moved>>
  PROVE  PanelMatchesRole' /\ OwnCallOnly' /\ OwnAccountOnly'
BY DEF SessionInv, PanelMatchesRole, OwnCallOnly, OwnAccountOnly

(* A tab that is signed out, or between two pages, shows nobody's data. *)
LEMMA NothingToShow ==
  ASSUME ~Settled' \/ jar'.token = NoOne
  PROVE  PanelMatchesRole' /\ OwnCallOnly' /\ OwnAccountOnly'
BY DEF PanelMatchesRole, OwnCallOnly, OwnAccountOnly

(* Every action keeps the invariant. *)
LEMMA SessionStepInv ==
  ASSUME SessionInv, [SessionNext]_sessionVars
  PROVE  SessionInv'
<1> DEFINE Shown == PanelMatchesRole /\ OwnCallOnly /\ OwnAccountOnly
<1>a. SessionTypeOK' /\ CookiesAgree'
  BY SessionTypeStep, CookiesStep
<1>b. SessionTypeOK /\ CookiesAgree /\ LoadIsClean /\ AuthKnown
  BY DEF SessionInv
<1>c. SUFFICES (AuthKnown /\ LoadIsClean /\ Shown)'
  BY <1>a DEF SessionInv
<1> USE DEF cookies, backend, screen
<1>1. ASSUME NEW p, NEW f, Load(p, f)
      PROVE  (AuthKnown /\ LoadIsClean /\ Shown)'
  BY <1>1, <1>a, LoadKeepsInv DEF SessionInv
<1>2. CASE \/ \E p \in Paths, f \in TypedFroms : OpenPath(p, f)
           \/ Unauthorized \/ Land \/ Restart
  BY <1>1, <1>2 DEF OpenPath, Unauthorized, Land, Restart
<1>3. CASE Follow
  <2>1. memory' = {} /\ call' = NoCall /\ auth' = NoAuth
    BY <1>3, <1>b DEF Follow, LoadIsClean
  <2>2. AuthKnown' /\ LoadIsClean'
    BY <2>1 DEF AuthKnown, LoadIsClean, NoAuth
  <2>3. ASSUME jar'.token # NoOne
        PROVE  PanelMatchesRole'
    <3>1. path' = Gate(path) /\ UNCHANGED jar
      BY <1>3 DEF Follow
    <3>2. QED
      BY <1>b, <2>3, <3>1, GateKeepsPanel DEF PanelMatchesRole
  <2>4. OwnCallOnly' /\ OwnAccountOnly'
    BY <2>1 DEF OwnCallOnly, OwnAccountOnly
  <2>5. QED
    BY <2>2, <2>3, <2>4 DEF PanelMatchesRole
<1>4. CASE \E p \in Paths : SoftNavigate(p)
  <2> PICK p \in Paths : SoftNavigate(p)
    BY <1>4
  <2>1. Settled /\ UNCHANGED <<jar, loading, memory, call, auth, moved>>
    BY DEF SoftNavigate, Idle, Settled, NoAuth
  <2>2. AuthKnown' /\ LoadIsClean' /\ OwnCallOnly' /\ OwnAccountOnly'
    BY <1>b, <2>1
    DEF SessionInv, AuthKnown, LoadIsClean, OwnCallOnly, OwnAccountOnly, Settled
  <2>3. ASSUME jar'.token # NoOne
        PROVE  PanelMatchesRole'
    <3>1. path' = Gate(p)
      BY DEF SoftNavigate
    <3>2. QED
      BY <1>b, <2>1, <2>3, <3>1, GateKeepsPanel DEF PanelMatchesRole
  <2>4. QED
    BY <2>2, <2>3 DEF PanelMatchesRole
<1>5. CASE \E kind \in {"read", "password"} : Ask(kind)
  <2> PICK kind \in {"read", "password"} : Ask(kind)
    BY <1>5
  <2>1. UNCHANGED <<jar, path, loading, memory, auth, moved>> /\ ~loading
    BY DEF Ask, Idle
  <2>2. AuthKnown' /\ LoadIsClean' /\ PanelMatchesRole' /\ OwnAccountOnly'
    BY <1>b, <2>1
    DEF SessionInv, AuthKnown, LoadIsClean, PanelMatchesRole, OwnAccountOnly, Settled
  <2>3. jar.token # NoOne => call'.stage = "sent" /\ call'.as \in {jar.token, NoOne}
    BY DEF Ask, Bearer
  <2>4. QED
    BY <2>1, <2>2, <2>3 DEF OwnCallOnly
<1>6. CASE \E ok \in BOOLEAN : DevLogin(ok)
  <2> PICK ok \in BOOLEAN : DevLogin(ok)
    BY <1>6
  <2>1. UNCHANGED <<jar, path, loading, memory, auth, moved>>
    BY DEF DevLogin
  <2>2. call.stage # "waiting" => UNCHANGED call
    BY DEF DevLogin
  <2>3. call = NoCall => call.stage # "waiting"
    BY DEF NoCall
  <2>4. OwnCallOnly'
    BY <2>1, <2>2, <2>3 DEF SessionInv, OwnCallOnly, Settled
  <2>5. QED
    BY <1>b, <2>1, <2>2, <2>3, <2>4
    DEF SessionInv, AuthKnown, LoadIsClean, PanelMatchesRole, OwnAccountOnly, Settled
<1>7. CASE \E ok \in BOOLEAN : Answer(ok)
  <2> PICK ok \in BOOLEAN : Answer(ok)
    BY <1>7
  <2>1. UNCHANGED <<jar, path, loading, auth, moved>> /\ call' = NoCall
    BY DEF Answer
  <2>2. ~loading
    BY <1>b DEF Answer, LoadIsClean, NoCall
  <2>3. AuthKnown' /\ LoadIsClean' /\ PanelMatchesRole' /\ OwnCallOnly'
    BY <1>b, <2>1, <2>2
    DEF SessionInv, AuthKnown, LoadIsClean, PanelMatchesRole, OwnCallOnly, Settled
  <2>4. memory' = memory \/ (call.as # NoOne /\ memory' = memory \cup {call.as})
    BY DEF Answer
  <2>5. call # NoCall
    BY DEF Answer, NoCall
  <2>6. OwnAccountOnly'
    BY <2>1, <2>4, <2>5 DEF SessionInv, OwnAccountOnly, OwnCallOnly, Settled
  <2>7. QED
    BY <2>3, <2>6
<1>8. CASE \/ \E a \in Accounts, keep \in BOOLEAN : SubmitLogin(a, keep)
           \/ \E a \in Accounts : SubmitRegister(a)
           \/ SubmitAccept \/ SignOut
  <2>1. PICK kind \in {"login", "register", "accept", "logout"},
             a \in Accounts \cup {NoOne}, keep \in BOOLEAN :
              Send(kind, a, keep) /\ (kind # "logout" => a \in Accounts)
    BY <1>8, SessionConstants DEF SubmitLogin, SubmitRegister, SubmitAccept, SignOut
  <2>2. /\ UNCHANGED <<jar, path, loading, memory, call, moved>> /\ ~loading
        /\ auth'.kind = kind /\ auth'.account = a /\ auth'.stage = "sent"
        /\ Settled
    BY <2>1 DEF Send, Idle, Settled, NoAuth
  <2>3. AuthKnown' /\ LoadIsClean'
    BY <2>1, <2>2 DEF AuthKnown, LoadIsClean
  <2>4. QED
    BY <2>2, <2>3, QuietStep
<1>9. CASE SignedIn \/ NoSession \/ SignedOut
  <2>1. PICK to \in Paths : Answered(to)
    BY <1>9, AcceptedAccount, PathsKnown DEF SignedIn, NoSession, SignedOut
  <2>2. auth' = [auth EXCEPT !.stage = "done", !.to = to] /\ UNCHANGED loading
    BY <1>9, <2>1 DEF Answered, SignedIn, NoSession, SignedOut
  <2>3. ~loading
    BY <1>9, <1>b DEF LoadIsClean, NoAuth, SignedIn, NoSession, SignedOut
  <2>4. AuthKnown' /\ LoadIsClean' /\ ~Settled'
    BY <1>b, <2>2, <2>3 DEF AuthKnown, LoadIsClean, Settled, SessionTypeOK, AuthCalls
  <2>5. QED
    BY <2>4, NothingToShow
<1>10. CASE Refused \/ SignOutFailed
  <2>1. UNCHANGED <<jar, path, loading, memory, call, moved>> /\ auth.stage = "sent"
    BY <1>10 DEF Refused, SignOutFailed
  <2>2. ~loading
    BY <1>b, <2>1 DEF LoadIsClean, NoAuth
  <2>3. auth' = NoAuth \/ Answered("/login")
    BY <1>10 DEF Refused, SignOutFailed, MenuLeaves, AgentMenuStays
  <2>4. AuthKnown'
    <3>1. CASE auth' = NoAuth
      BY <3>1 DEF AuthKnown, NoAuth
    <3>2. CASE Answered("/login")
      <4>1. /\ auth'.kind = auth.kind /\ auth'.account = auth.account
            /\ auth'.to = "/login"
        BY <1>b, <3>2 DEF Answered, SessionTypeOK, AuthCalls
      <4>2. QED
        BY <1>b, <4>1, PathsKnown DEF AuthKnown
    <3>3. QED
      BY <2>3, <3>1, <3>2
  <2>5. LoadIsClean' /\ Settled
    BY <2>1, <2>2 DEF LoadIsClean, Settled
  <2>6. QED
    BY <2>1, <2>4, <2>5, QuietStep
<1>11. CASE LandFromInvitation
  <2>1. /\ UNCHANGED <<jar, loading, memory, call>> /\ auth' = NoAuth
        /\ path' = Gate(auth.to) /\ moved' # "no"
    BY <1>11 DEF LandFromInvitation
  <2>2. ~loading
    BY <1>11, <1>b DEF LandFromInvitation, LoadIsClean, NoAuth
  <2>3. AuthKnown' /\ LoadIsClean' /\ OwnCallOnly' /\ OwnAccountOnly'
    BY <2>1, <2>2 DEF AuthKnown, LoadIsClean, NoAuth, OwnCallOnly, OwnAccountOnly
  <2>4. ASSUME jar'.token # NoOne
        PROVE  PanelMatchesRole'
    BY <1>b, <2>1, <2>4, GateKeepsPanel DEF PanelMatchesRole
  <2>5. QED
    BY <2>3, <2>4 DEF PanelMatchesRole
<1>12. CASE \E a \in Accounts, keep, spends \in BOOLEAN : OtherSignsIn(a, keep, spends)
  <2>1. UNCHANGED <<loading, memory, call, auth>> /\ moved' = "elsewhere"
    BY <1>12 DEF OtherSignsIn
  <2>2. QED
    BY <1>b, <2>1
    DEF AuthKnown, LoadIsClean, PanelMatchesRole, OwnCallOnly, OwnAccountOnly
<1>13. CASE OtherSignsOut
  <2>1. UNCHANGED <<loading, memory, call, auth>> /\ jar'.token = NoOne
    BY <1>13 DEF OtherSignsOut, NoCookies
  <2>2. QED
    BY <1>b, <2>1, NothingToShow DEF AuthKnown, LoadIsClean
<1>14. CASE CookiesAge
  <2>1. UNCHANGED <<path, loading, memory, call, auth, moved>>
    BY <1>14 DEF CookiesAge
  <2>2. jar' = jar \/ jar'.token = NoOne \/ (jar'.token = jar.token)
    BY <1>14 DEF CookiesAge, Drop
  <2>3. Shown'
    BY <2>1, <2>2
    DEF SessionInv, PanelMatchesRole, OwnCallOnly, OwnAccountOnly, Settled
  <2>4. QED
    BY <1>b, <2>1, <2>3 DEF AuthKnown, LoadIsClean
<1>15. CASE DevExpire \/ OtherAsks \/ Expire \/ UNCHANGED sessionVars
  <2>1. UNCHANGED <<jar, path, loading, memory, call, auth, moved>>
    BY <1>15 DEF DevExpire, OtherAsks, Expire, sessionVars
  <2>2. AuthKnown' /\ LoadIsClean' /\ (Settled' => Settled)
    BY <1>b, <2>1 DEF AuthKnown, LoadIsClean, Settled
  <2>3. QED
    BY <2>1, <2>2, QuietStep
<1>16. QED
  BY <1>2, <1>3, <1>4, <1>5, <1>6, <1>7, <1>8, <1>9, <1>10, <1>11, <1>12, <1>13, <1>14,
     <1>15 DEF SessionNext

-----------------------------------------------------------------------------
(* The theorems. *)

(* The invariant is inductive. *)
THEOREM SessionInductive == SessionSpec => []SessionInv
<1>1. SessionInv /\ [SessionNext]_sessionVars => SessionInv'
  BY SessionStepInv
<1>2. QED
  BY <1>1, SessionInitInv, PTL DEF SessionSpec

(* Every variable of the session keeps its type. *)
THEOREM SessionTypeCorrect == SessionSpec => []SessionTypeOK
<1>1. SessionInv => SessionTypeOK
  BY DEF SessionInv
<1>2. QED
  BY <1>1, SessionInductive, PTL

(* The role cookie that proxy.ts reads and the token that the backend      *)
(* authorizes name one account, and appear and disappear together.         *)
THEOREM CookiesAlwaysAgree == SessionSpec => []CookiesAgree
<1>1. SessionInv => CookiesAgree
  BY DEF SessionInv
<1>2. QED
  BY <1>1, SessionInductive, PTL

(* A tab in which nobody signed in elsewhere shows a page of the panel of  *)
(* the account in the jar, or a screen that is open to everybody.          *)
THEOREM TabStaysInItsPanel == SessionSpec => []PanelMatchesRole
<1>1. SessionInv => PanelMatchesRole
  BY DEF SessionInv
<1>2. QED
  BY <1>1, SessionInductive, PTL

(* The page load that ends a sign-in or a sign-out is what keeps one       *)
(* account's data out of the next one's screens: no answer of a call made  *)
(* for another account lands in a signed-in tab.                           *)
THEOREM TabHoldsOwnAccountOnly == SessionSpec => []OwnAccountOnly
<1>1. SessionInv => OwnAccountOnly
  BY DEF SessionInv
<1>2. QED
  BY <1>1, SessionInductive, PTL

-----------------------------------------------------------------------------
(* QueryCache. *)

(* Nothing in the tab is newer than the backend. *)
NothingFromTheFuture ==
    /\ acked <= server
    /\ \A m \in Mutations : write[m].at <= server

(* The fetch under way brings what the backend held since it began. *)
FetchInWindow ==
    /\ ~Fetching => fetch = NoFetch
    /\ Fetching => 1 <= fetch.since /\ fetch.since <= server
    /\ fetch.stage = "read" => fetch.since <= fetch.got /\ fetch.got <= server

(* A fetch that no write overtook began after every answered own write. *)
FetchIsFresh == Fetching /\ ~raced => acked <= fetch.since

(* Data older than an own write is marked, being fetched, failed or raced. *)
OldDataIsKnown ==
    data = 0 \/ acked <= data \/ invalid \/ raced \/ failed \/ Fetching

(* A mark on a query on screen is acted on at once. *)
MarkIsActedOn == Mounted /\ invalid => Fetching \/ failed

QueryInv ==
    /\ QueryTypeOK
    /\ NothingFromTheFuture
    /\ FetchInWindow
    /\ FetchIsFresh
    /\ OldDataIsKnown
    /\ MarkIsActedOn

-----------------------------------------------------------------------------
(* The hooks. *)

(* The mutations of lib/api, lib/admin and lib/portal. *)
LEMMA MutationNames ==
  Mutations = {"update", "assign", "message", "reanalyze", "move", "saveDepartment",
               "deleteDepartment", "create", "reply", "reopen"}
BY DEF Mutations, Hooks

(* Every hook sets only what it affects, and sets or invalidates           *)
(* everything it affects except what it leaves to the staleTime.           *)
LEMMA HooksAnnounce ==
  ASSUME NEW m \in Mutations
  PROVE  /\ Sets(m) \subseteq Affects(m)
         /\ Affects(m) \ Unannounced(m) \subseteq Sets(m) \cup Invalidates(m)
<1> USE DEF Sets, Affects, Unannounced, Invalidates, Hooks
<1>1. CASE m \in {"update", "assign", "message", "reanalyze"}
  BY <1>1 DEF useUpdateTicket, useAssignTicket, useAddMessage, useReanalyze
<1>2. CASE m \in {"move", "saveDepartment", "deleteDepartment"}
  BY <1>2 DEF useSetStaffDepartment, useDepartmentMutation, useDeleteDepartment
<1>3. CASE m \in {"create", "reply", "reopen"}
  BY <1>3 DEF useCreateTicket, useReplyToTicket, useReopenTicket, PortalQueries
<1>4. QED
  BY <1>1, <1>2, <1>3, MutationNames

-----------------------------------------------------------------------------
(* The invariant. *)

(* An empty cache starts in the invariant. *)
LEMMA QueryInitInv == QueryInit => QueryInv
<1> SUFFICES ASSUME QueryInit PROVE QueryInv
  OBVIOUS
<1>1. page \in Pages
  BY DEF QueryInit, Pages, WorkspacePages, PortalPages
<1>2. fetch \in {Begin, NoFetch} /\ server = 1 /\ acked = 0 /\ data = 0
  BY DEF QueryInit
<1>3. QueryTypeOK
  <2>1. fetch \in [stage: {"none", "sent", "read"}, since: Nat, got: Nat]
    BY <1>2 DEF Begin, NoFetch
  <2>2. write \in [Mutations -> [stage: {"none", "sent", "committed"}, at: Nat]]
    BY DEF QueryInit, NoWrite
  <2>3. writes \in 0..MaxWrites
    BY MaxWritesAssumption DEF QueryInit
  <2>4. query \in Queries /\ invalid \in BOOLEAN /\ failed \in BOOLEAN /\ raced \in BOOLEAN
    BY Zenon DEF QueryInit
  <2>5. QED
    BY <1>1, <1>2, <2>1, <2>2, <2>3, <2>4 DEF QueryTypeOK
<1>4. NothingFromTheFuture /\ FetchInWindow /\ FetchIsFresh
  BY <1>2 DEF QueryInit, NothingFromTheFuture, FetchInWindow, FetchIsFresh, Fetching,
              Begin, NoFetch, NoWrite
<1>5. OldDataIsKnown /\ MarkIsActedOn
  BY DEF QueryInit, OldDataIsKnown, MarkIsActedOn
<1>6. QED
  BY <1>3, <1>4, <1>5 DEF QueryInv

(* A fetch that begins. *)
LEMMA BeginFacts ==
  ASSUME QueryInv, fetch' = Begin, UNCHANGED server
  PROVE  /\ fetch' \in [stage: {"none", "sent", "read"}, since: Nat, got: Nat]
         /\ Fetching' /\ FetchInWindow' /\ fetch'.since = server
BY DEF QueryInv, QueryTypeOK, Begin, Fetching, FetchInWindow

(* Every step keeps the cached data and its age together.                  *)
LEMMA QueryStepInv ==
  ASSUME QueryInv, [QueryNext]_queryVars
  PROVE  QueryInv'
<1>a. /\ QueryTypeOK /\ NothingFromTheFuture /\ FetchInWindow /\ FetchIsFresh
      /\ OldDataIsKnown /\ MarkIsActedOn
  BY DEF QueryInv
<1> USE DEF cached
<1>1. CASE \E p \in Pages \ {page}, old \in BOOLEAN : Visit(p, old)
  <2> PICK p \in Pages \ {page}, old \in BOOLEAN : Visit(p, old)
    BY <1>1
  <2>1. UNCHANGED <<query, server, data, invalid, failed, write, writes, acked>> /\ page' = p
    BY DEF Visit
  <2>2. CASE fetch' = Begin /\ raced' = FALSE
    BY <1>a, <2>1, <2>2, BeginFacts
    DEF QueryInv, QueryTypeOK, NothingFromTheFuture, FetchIsFresh, OldDataIsKnown, MarkIsActedOn
  <2>3. CASE UNCHANGED <<fetch, raced>>
            /\ (~Mounted /\ query \in Mounts(p) /\ ~Fetching => data # 0 /\ ~invalid)
    <3>1. QueryTypeOK' /\ NothingFromTheFuture' /\ FetchInWindow' /\ FetchIsFresh' /\ OldDataIsKnown'
      BY <1>a, <2>1, <2>3
      DEF QueryTypeOK, NothingFromTheFuture, FetchInWindow, FetchIsFresh, OldDataIsKnown, Fetching
    <3>2. MarkIsActedOn'
      BY <1>a, <2>1, <2>3 DEF MarkIsActedOn, Mounted, Fetching
    <3>3. QED
      BY <3>1, <3>2 DEF QueryInv
  <2>4. QED
    BY <1>a, <2>2, <2>3 DEF Visit, QueryTypeOK
<1>2. CASE Refetch
  BY <1>2, <1>a, BeginFacts
  DEF Refetch, QueryInv, QueryTypeOK, NothingFromTheFuture, FetchIsFresh, OldDataIsKnown,
      MarkIsActedOn
<1>3. CASE ReadServer
  <2>1. /\ UNCHANGED <<query, page, server, data, invalid, failed, write, writes, acked, raced>>
        /\ Fetching /\ fetch' = [fetch EXCEPT !.stage = "read", !.got = server]
    BY <1>3 DEF ReadServer, Fetching
  <2>2. QueryTypeOK' /\ NothingFromTheFuture'
    BY <1>a, <2>1 DEF QueryTypeOK, NothingFromTheFuture
  <2>3. FetchInWindow' /\ FetchIsFresh' /\ Fetching'
    BY <1>a, <2>1 DEF QueryTypeOK, FetchInWindow, FetchIsFresh, Fetching
  <2>4. QED
    BY <2>2, <2>3 DEF QueryInv, OldDataIsKnown, MarkIsActedOn
<1>4. CASE Deliver
  <2>1. /\ UNCHANGED <<query, page, server, write, writes, acked, raced>>
        /\ data' = fetch.got /\ invalid' = FALSE /\ failed' = FALSE /\ fetch' = NoFetch
        /\ fetch.stage = "read" /\ Fetching
    BY <1>4 DEF Deliver, Fetching
  <2>2. QueryTypeOK' /\ NothingFromTheFuture'
    BY <1>a, <2>1 DEF QueryTypeOK, NothingFromTheFuture, NoFetch
  <2>3. FetchInWindow' /\ FetchIsFresh' /\ MarkIsActedOn'
    BY <2>1 DEF FetchInWindow, FetchIsFresh, MarkIsActedOn, Fetching, NoFetch
  <2>4. OldDataIsKnown'
    BY <1>a, <2>1 DEF QueryTypeOK, FetchInWindow, FetchIsFresh, OldDataIsKnown
  <2>5. QED
    BY <2>2, <2>3, <2>4 DEF QueryInv
<1>5. CASE \E again \in BOOLEAN : FetchFails(again)
  <2>1. /\ UNCHANGED <<query, page, server, data, invalid, write, writes, acked, raced>>
        /\ Fetching
    BY <1>5 DEF FetchFails
  <2>2. CASE fetch' = NoFetch /\ failed' = TRUE
    BY <1>a, <2>1, <2>2
    DEF QueryInv, QueryTypeOK, NothingFromTheFuture, FetchInWindow, FetchIsFresh,
        OldDataIsKnown, MarkIsActedOn, Fetching, NoFetch
  <2>3. CASE fetch' = [fetch EXCEPT !.stage = "sent", !.got = 0] /\ failed' = failed
    <3>1. QueryTypeOK' /\ NothingFromTheFuture'
      BY <1>a, <2>1, <2>3 DEF QueryTypeOK, NothingFromTheFuture
    <3>2. FetchInWindow' /\ FetchIsFresh' /\ Fetching'
      BY <1>a, <2>1, <2>3 DEF QueryTypeOK, FetchInWindow, FetchIsFresh, Fetching
    <3>3. QED
      BY <3>1, <3>2 DEF QueryInv, OldDataIsKnown, MarkIsActedOn
  <2>4. QED
    BY <1>5, <1>a, <2>2, <2>3 DEF FetchFails, QueryTypeOK
<1>6. CASE \E m \in Mutations : SubmitWrite(m) \/ WriteFails(m)
  <2> PICK m \in Mutations : SubmitWrite(m) \/ WriteFails(m)
    BY <1>6
  <2>1. UNCHANGED <<query, page, server, data, invalid, failed, fetch, acked, raced>>
    BY DEF SubmitWrite, WriteFails
  <2>2. /\ write' \in [Mutations -> [stage: {"none", "sent", "committed"}, at: Nat]]
        /\ \A n \in Mutations : write'[n].at \in {0, write[n].at}
    BY <1>a DEF SubmitWrite, WriteFails, QueryTypeOK, NoWrite
  <2>3. writes' \in 0..MaxWrites
    BY <1>a, MaxWritesAssumption DEF SubmitWrite, WriteFails, QueryTypeOK
  <2>4. QueryTypeOK' /\ NothingFromTheFuture'
    BY <1>a, <2>1, <2>2, <2>3 DEF QueryTypeOK, NothingFromTheFuture
  <2>5. QED
    BY <1>a, <2>1, <2>4
    DEF QueryInv, FetchInWindow, FetchIsFresh, OldDataIsKnown, MarkIsActedOn, Fetching, Mounted
<1>7. CASE \E m \in Mutations : CommitWrite(m)
  <2> PICK m \in Mutations : CommitWrite(m)
    BY <1>7
  <2>1. /\ UNCHANGED <<query, page, data, invalid, failed, fetch, writes, acked, raced>>
        /\ server' \in {server, server + 1}
        /\ write' = [write EXCEPT ![m] = [stage |-> "committed", at |-> server']]
    BY DEF CommitWrite
  <2>2. QueryTypeOK' /\ NothingFromTheFuture'
    BY <1>a, <2>1 DEF QueryTypeOK, NothingFromTheFuture
  <2>3. FetchInWindow'
    BY <1>a, <2>1 DEF QueryTypeOK, FetchInWindow, Fetching
  <2>4. QED
    BY <1>a, <2>1, <2>2, <2>3
    DEF QueryInv, FetchIsFresh, OldDataIsKnown, MarkIsActedOn, Fetching, Mounted
<1>8. CASE \E m \in Mutations : AckWrite(m)
  <2> PICK m \in Mutations : AckWrite(m)
    BY <1>8
  <2> DEFINE at == write[m].at
             sets == query \in Sets(m)
             marks == query \in Invalidates(m)
             told == query \in Affects(m) \ Unannounced(m)
             starts == marks /\ Mounted
  <2>1. /\ UNCHANGED <<query, page, server, writes>>
        /\ write' = [write EXCEPT ![m] = NoWrite]
        /\ data' = IF sets THEN at ELSE data
        /\ failed' = (failed /\ ~sets)
        /\ invalid' = (marks \/ (invalid /\ ~sets))
        /\ fetch' = IF starts THEN Begin ELSE fetch
        /\ acked' = IF told /\ at > acked THEN at ELSE acked
        /\ raced' = (~starts /\ (raced \/ (sets /\ at < acked) \/ (told /\ Fetching)))
    BY DEF AckWrite
  <2>2. at \in Nat /\ at <= server /\ (told => sets \/ marks)
    BY <1>a, HooksAnnounce DEF QueryTypeOK, NothingFromTheFuture
  <2>3. write' \in [Mutations -> [stage: {"none", "sent", "committed"}, at: Nat]]
    BY <1>a, <2>1 DEF QueryTypeOK, NoWrite
  <2>4. fetch' \in [stage: {"none", "sent", "read"}, since: Nat, got: Nat]
    BY <1>a, <2>1, BeginFacts DEF QueryTypeOK
  <2>5. data' \in Nat /\ acked' \in Nat /\ acked' <= server
    BY <1>a, <2>1, <2>2 DEF QueryTypeOK, NothingFromTheFuture
  <2>6. invalid' \in BOOLEAN /\ failed' \in BOOLEAN /\ raced' \in BOOLEAN
    BY <2>1
  <2>7. QueryTypeOK'
    BY <1>a, <2>1, <2>3, <2>4, <2>5, <2>6 DEF QueryTypeOK
  <2>8. NothingFromTheFuture'
    BY <1>a, <2>1, <2>5 DEF QueryTypeOK, NothingFromTheFuture, NoWrite
  <2>9. CASE starts
    <3>1. /\ Fetching' /\ FetchInWindow' /\ fetch'.since = server
          /\ server \in Nat
      BY <1>a, <2>1, <2>9, BeginFacts DEF QueryTypeOK
    <3>2. QED
      BY <2>1, <2>5, <2>7, <2>8, <3>1
      DEF QueryInv, FetchIsFresh, OldDataIsKnown, MarkIsActedOn
  <2>10. CASE ~starts
    <3>1. UNCHANGED fetch
      BY <2>1, <2>10
    <3>2. FetchInWindow' /\ (Fetching' <=> Fetching) /\ (Mounted' <=> Mounted)
      BY <1>a, <2>1, <3>1 DEF FetchInWindow, Fetching, Mounted
    <3>3. FetchIsFresh'
      BY <1>a, <2>1, <2>10, <3>1, <3>2 DEF FetchIsFresh
    <3>4. MarkIsActedOn'
      BY <1>a, <2>1, <2>10, <3>2 DEF MarkIsActedOn
    <3>5. OldDataIsKnown'
      <4>1. CASE marks
        BY <2>1, <4>1 DEF OldDataIsKnown
      <4>2. CASE ~marks /\ sets
        <5>1. data' = at /\ acked \in Nat
          BY <1>a, <2>1, <4>2 DEF QueryTypeOK
        <5>2. CASE at < acked
          BY <2>1, <2>10, <4>2, <5>2 DEF OldDataIsKnown
        <5>3. CASE ~(at < acked)
          <6>1. acked' <= at
            BY <2>1, <2>2, <5>1, <5>3
          <6>2. QED
            BY <5>1, <6>1 DEF OldDataIsKnown
        <5>4. QED
          BY <5>2, <5>3
      <4>3. CASE ~marks /\ ~sets
        BY <1>a, <2>1, <2>2, <2>10, <3>2, <4>3 DEF OldDataIsKnown
      <4>4. QED
        BY <4>1, <4>2, <4>3
    <3>6. QED
      BY <2>7, <2>8, <3>2, <3>3, <3>4, <3>5 DEF QueryInv
  <2>11. QED
    BY <2>9, <2>10
<1>9. CASE UNCHANGED queryVars
  BY <1>9, <1>a
  DEF queryVars, QueryInv, QueryTypeOK, NothingFromTheFuture, FetchInWindow, FetchIsFresh,
      OldDataIsKnown, MarkIsActedOn, Fetching, Mounted
<1>10. QED
  BY <1>1, <1>2, <1>3, <1>4, <1>5, <1>6, <1>7, <1>8, <1>9 DEF QueryNext

-----------------------------------------------------------------------------
(* The theorems. *)

(* The invariant is inductive. *)
THEOREM QueryInductive == QuerySpec => []QueryInv
<1>1. QueryInv /\ [QueryNext]_queryVars => QueryInv'
  BY QueryStepInv
<1>2. QED
  BY <1>1, QueryInitInv, PTL DEF QuerySpec

(* Every variable of the cache keeps its type. *)
THEOREM QueryTypeCorrect == QuerySpec => []QueryTypeOK
<1>1. QueryInv => QueryTypeOK
  BY DEF QueryInv
<1>2. QED
  BY <1>1, QueryInductive, PTL

(* However many mutations run, whatever fails and however fetches, retries *)
(* and page changes interleave, a query on screen shows the tab's answered *)
(* writes.                                                                 *)
THEOREM ReadsYourWrites == QuerySpec => []ReadYourWrites
<1>1. QueryInv => ReadYourWrites
  BY DEF QueryInv, OldDataIsKnown, MarkIsActedOn, ReadYourWrites, QueryTypeOK
<1>2. QED
  BY <1>1, QueryInductive, PTL

-----------------------------------------------------------------------------
(* The refinement. *)

(* The versions that answers under way would put into the cache. *)
Pending == {write[m].at : m \in {n \in Mutations : /\ write[n].stage = "committed"
                                                   /\ query \in Sets(n)}}

(* Dropping the record of one write adds no version. *)
LEMMA PendingShrinks ==
  ASSUME QueryTypeOK, NEW m \in Mutations, write' = [write EXCEPT ![m] = NoWrite],
         UNCHANGED query
  PROVE  Pending' \subseteq Pending
BY DEF QueryTypeOK, Pending, NoWrite

(* A step of the cache is a step of FreshReads, or changes nothing of it. *)
LEMMA QueryStepRefines ==
  ASSUME QueryInv, [QueryNext]_queryVars
  PROVE  [Register!FreshNext]_(Register!freshVars)
<1>a. QueryTypeOK /\ NothingFromTheFuture /\ FetchInWindow
  BY DEF QueryInv
<1>b. ASSUME UNCHANGED <<server, data, fetch>>, Pending' = Pending
      PROVE  UNCHANGED Register!freshVars
  BY <1>b DEF Register!freshVars, Pending
<1>c. ASSUME UNCHANGED <<query, write>>
      PROVE  Pending' = Pending
  BY <1>c DEF Pending
<1>d. ASSUME fetch' = Begin, UNCHANGED <<query, write, server, data>>
      PROVE  Register!Begins
  <2>1. fetch'.since = server /\ Pending' = Pending
    BY <1>c, <1>d DEF Begin
  <2>2. QED
    BY <1>d, <2>1 DEF Register!Begins, Pending
<1> USE DEF cached
<1>1. CASE \E p \in Pages \ {page}, old \in BOOLEAN : Visit(p, old)
  <2>1. UNCHANGED <<query, write, server, data>> /\ fetch' \in {fetch, Begin}
    BY <1>1 DEF Visit
  <2>2. QED
    BY <2>1, <1>b, <1>c, <1>d DEF Register!FreshNext
<1>2. CASE Refetch
  BY <1>2, <1>d DEF Refetch, Register!FreshNext
<1>3. CASE ReadServer
  <2>1. UNCHANGED <<query, write, server, data>> /\ fetch'.since = fetch.since
    BY <1>3, <1>a DEF ReadServer, QueryTypeOK
  <2>2. Pending' = Pending
    BY <2>1, <1>c
  <2>3. QED
    BY <2>1, <2>2 DEF Register!freshVars, Pending
<1>4. CASE Deliver
  <2>1. /\ UNCHANGED <<query, write, server>> /\ data' = fetch.got /\ fetch' = NoFetch
        /\ fetch.stage = "read" /\ Fetching
    BY <1>4 DEF Deliver, Fetching
  <2>2. Pending' = Pending
    BY <2>1, <1>c
  <2>3. fetch.since # 0 /\ fetch'.since = 0 /\ data' \in fetch.since .. server
    BY <1>a, <2>1 DEF FetchInWindow, QueryTypeOK, NoFetch
  <2>4. Register!Ends
    BY <2>1, <2>2, <2>3 DEF Register!Ends, Pending
  <2>5. QED
    BY <2>4 DEF Register!FreshNext
<1>5. CASE \E again \in BOOLEAN : FetchFails(again)
  <2>1. UNCHANGED <<query, write, server, data>> /\ fetch'.since \in {fetch.since, 0}
    BY <1>5, <1>a DEF FetchFails, QueryTypeOK, NoFetch
  <2>2. Pending' = Pending
    BY <2>1, <1>c
  <2>3. CASE fetch'.since = 0
    BY <2>1, <2>2, <2>3 DEF Register!GivesUp, Register!FreshNext, Pending
  <2>4. CASE fetch'.since = fetch.since
    BY <2>1, <2>2, <2>4 DEF Register!freshVars, Pending
  <2>5. QED
    BY <2>1, <2>3, <2>4
<1>6. CASE \E m \in Mutations : SubmitWrite(m)
  <2> PICK m \in Mutations : SubmitWrite(m)
    BY <1>6
  <2>1. /\ UNCHANGED <<query, server, data, fetch>> /\ write[m].stage = "none"
        /\ write' = [write EXCEPT ![m].stage = "sent"]
    BY DEF SubmitWrite
  <2>2. Pending' = Pending
    BY <1>a, <2>1 DEF QueryTypeOK, Pending
  <2>3. QED
    BY <2>1, <2>2, <1>b
<1>7. CASE \E m \in Mutations : CommitWrite(m)
  <2> PICK m \in Mutations : CommitWrite(m)
    BY <1>7
  <2>1. /\ UNCHANGED <<query, data, fetch>> /\ write[m].stage = "sent"
        /\ server' = IF query \in Affects(m) THEN server + 1 ELSE server
        /\ write' = [write EXCEPT ![m] = [stage |-> "committed", at |-> server']]
    BY DEF CommitWrite
  <2>2. CASE query \in Sets(m)
    <3>1. server' = server + 1
      BY <2>1, <2>2, HooksAnnounce
    <3>2. Pending' = Pending \cup {server'}
      BY <1>a, <2>1, <2>2 DEF QueryTypeOK, Pending
    <3>3. QED
      BY <2>1, <3>1, <3>2 DEF Register!Commit, Register!FreshNext, Pending
  <2>3. CASE query \notin Sets(m)
    <3>1. Pending' = Pending
      BY <1>a, <2>1, <2>3 DEF QueryTypeOK, Pending
    <3>2. CASE query \in Affects(m)
      BY <2>1, <3>1, <3>2 DEF Register!Commit, Register!FreshNext, Pending
    <3>3. CASE query \notin Affects(m)
      BY <2>1, <3>1, <3>3, <1>b
    <3>4. QED
      BY <3>2, <3>3
  <2>4. QED
    BY <2>2, <2>3
<1>8. CASE \E m \in Mutations : WriteFails(m)
  <2>1. Pending' \subseteq Pending /\ UNCHANGED <<server, data, fetch>>
    BY <1>8, <1>a, PendingShrinks DEF WriteFails
  <2>2. QED
    BY <2>1 DEF Register!Answers, Register!FreshNext, Pending
<1>9. CASE \E m \in Mutations : AckWrite(m)
  <2> PICK m \in Mutations : AckWrite(m)
    BY <1>9
  <2>1. /\ UNCHANGED <<query, server>> /\ write[m].stage = "committed"
        /\ write' = [write EXCEPT ![m] = NoWrite]
        /\ data' = IF query \in Sets(m) THEN write[m].at ELSE data
        /\ fetch' \in {fetch, Begin}
    BY DEF AckWrite
  <2>2. Pending' \subseteq Pending
    BY <2>1, <1>a, PendingShrinks
  <2>3. data' \in {data} \cup Pending
    BY <2>1 DEF Pending
  <2>4. fetch'.since \in {fetch.since, server}
    BY <2>1 DEF Begin
  <2>5. Register!Answers
    BY <2>1, <2>2, <2>3, <2>4 DEF Register!Answers, Pending
  <2>6. QED
    BY <2>5 DEF Register!FreshNext
<1>10. CASE UNCHANGED queryVars
  BY <1>10, <1>b, <1>c DEF queryVars
<1>11. QED
  BY <1>1, <1>2, <1>3, <1>4, <1>5, <1>6, <1>7, <1>8, <1>9, <1>10 DEF QueryNext

(* The first state of the cache is one of FreshReads. *)
LEMMA QueryInitRefines == QueryInit => Register!FreshInit
<1> SUFFICES ASSUME QueryInit PROVE Register!FreshInit
  OBVIOUS
<1>1. fetch.since \in {0, 1}
  BY DEF QueryInit, Begin, NoFetch
<1>2. \A m \in Mutations : write[m].stage = "none"
  BY DEF QueryInit, NoWrite
<1>3. Pending = {}
  BY <1>2 DEF Pending
<1>4. QED
  BY <1>1, <1>3 DEF QueryInit, Register!FreshInit, Pending

(* The cache implements FreshReads: whatever the fetches, retries,         *)
(* cancellations and mutation handlers do, the screen shows what the       *)
(* backend held at or after the moment the last read began, or the answer  *)
(* of a write.                                                             *)
THEOREM QueryImplementsFreshReads == QuerySpec => ShowsFreshReads
<1>1. QueryInv /\ [QueryNext]_queryVars => [Register!FreshNext]_(Register!freshVars)
  BY QueryStepRefines
<1>2. QED
  BY <1>1, QueryInitRefines, QueryInductive, PTL
  DEF QuerySpec, ShowsFreshReads, Register!FreshSpec
=============================================================================
