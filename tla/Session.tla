------------------------------- MODULE Session -------------------------------
(***************************************************************************)
(* One browser and its session: the cookie jar that all tabs share, the    *)
(* route gate (src/proxy.ts) that every page load and client transition    *)
(* passes, the route handlers that sign in and out, the /api/proxy handler *)
(* that attaches the cookie to a call, and one tab: its screen, its React  *)
(* Query memory and its requests in flight.  The other tabs, and the pages *)
(* this tab has left with a request under way, act on it only through the  *)
(* jar, the backend and the development session: the Other actions.        *)
(*                                                                         *)
(* A page is a path up to the class that the gate tells apart: "/portal",  *)
(* "/staff" and "/tickets" stand for every path of their panel (the owner  *)
(* reaches the unlisted paths too), "/invite" for an invitation link.      *)
(***************************************************************************)
EXTENDS Naturals

CONSTANTS
    Accounts,     \* the accounts people sign in to
    ClaimsOf,     \* account -> the role names in its token
    Seeded,       \* accounts that exist at the start
    Invited,      \* the account the invitation is for
    DevAccount,   \* the account of lib/server/dev-session.ts
    NoOne

Roles == {"owner", "staff", "customer"}
NoRole == "none"

(* The panel a token opens; a role name nobody knows opens the owner's. *)
RoleFromClaims(names) ==
    IF "customer" \in names THEN "customer"
    ELSE IF names \cap {"agent", "support", "support_agent"} # {} THEN "staff" ELSE "owner"
RoleOf == [a \in Accounts |-> RoleFromClaims(ClaimsOf[a])]

ASSUME SessionConstants ==
    /\ NoOne \notin Accounts
    /\ DOMAIN ClaimsOf = Accounts
    /\ Seeded \subseteq Accounts
    /\ {Invited, DevAccount} \subseteq Accounts

Panels == {"/portal", "/staff", "/tickets"}
AuthScreens == {"/login", "/register"}
Paths == Panels \cup AuthScreens \cup {"/", "/invite"}
NoPath == "none"
Foreign == "//elsewhere"          \* a ?from= that is not a path of this site
Froms == Paths \cup {NoPath, Foreign}
TypedFroms == {"/portal", "/", NoPath, Foreign}   \* others come from the gate

VARIABLES
    production,  \* NODE_ENV of the server
    jar,         \* the two cookies, and whether each has a maxAge
    live,        \* the token of the jar is still accepted by the backend
    known,       \* accounts that exist in the backend
    invitation,  \* the invitation can still be accepted
    dev,         \* dev-session.ts: a cached token, a login in flight
    path, from,  \* the tab: its page and the ?from= of the sign-in form
    loading,     \* the document of the page is being loaded
    invite,      \* what the invitation page rendered in this document
    memory,      \* accounts whose data React Query holds in the tab
    call,        \* an API call of the tab in flight
    auth,        \* a request of the tab to a route of /api/auth
    moved        \* history: how the account changed since the page load

cookies == <<jar, live>>
backend == <<known, invitation>>
screen  == <<path, from, loading, invite>>
sessionVars == <<production, cookies, backend, dev, screen, memory, call, auth,
                 moved>>

NoCall == [kind |-> "none", as |-> NoOne, stage |-> "none"]
NoAuth == [kind |-> "none", account |-> NoOne, keep |-> FALSE, stage |-> "none",
           to |-> NoPath]
NoCookies == [token |-> NoOne, tokenKeep |-> FALSE, role |-> NoRole, roleKeep |-> FALSE]

-----------------------------------------------------------------------------
(* lib/auth/roles.ts and proxy.ts. *)

LostCustomer(r) == CASE r = "owner" -> "/tickets" [] r = "staff" -> "/staff"
                     [] r = "customer" -> "/tickets"
HomeFor(r) == CASE r = "owner" -> "/tickets" [] r = "staff" -> "/staff"
                [] r = "customer" -> "/portal"

CanAccess(r, p) == CASE r = "owner" -> TRUE [] r = "staff" -> p = "/staff"
                     [] r = "customer" -> p = "/portal"

SafeRedirect(f, r) == IF f \in Paths /\ CanAccess(r, f) THEN f ELSE HomeFor(r)

GateRole == IF jar.role \in Roles THEN jar.role ELSE "owner"

(* The gate: the pages anybody may open, the panels that are open during   *)
(* development, and whether a request for p passes.                        *)
IsPublic(p) == p \in AuthScreens \cup {"/", "/invite"}
IsOpenPanel(p) == ~production /\ p \in {"/portal", "/staff"}

UngatedHome(p) ==
    IF jar.token = NoOne THEN IsPublic(p) \/ IsOpenPanel(p)
    ELSE IsPublic(p) \/ CanAccess(GateRole, p)
LetsIn(p) ==
    IF jar.token = NoOne THEN IsPublic(p) \/ IsOpenPanel(p)
    ELSE p \in AuthScreens \cup {"/invite"} \/ CanAccess(GateRole, p)

(* The page that is shown, or where the redirect leads. *)
Gate(p) == IF LetsIn(p) THEN p
           ELSE IF jar.token = NoOne THEN "/login" ELSE HomeFor(GateRole)

(* ?from= after the gate: set by the redirect to /login, dropped by the one home. *)
GateFrom(p, f) == IF LetsIn(p) THEN f ELSE IF jar.token = NoOne THEN p ELSE NoPath

-----------------------------------------------------------------------------
(* Page loads and client transitions. *)

(* A page load replaces the document: the memory, the calls and the        *)
(* handlers go with it.                                                    *)
Load(p, f) ==
    /\ path' = p /\ from' = f /\ loading' = TRUE /\ invite' = "none"
    /\ memory' = {}
    /\ call' = NoCall
    /\ auth' = NoAuth
    /\ moved' = "no"

(* An address typed, a bookmark, or a link from a mail. *)
OpenPath(p, f) ==
    /\ ~loading
    /\ f # NoPath => p = "/login"
    /\ Load(p, f)
    /\ UNCHANGED <<production, cookies, backend, dev>>

(* The invitation page looks the token up while it renders: a form, or a   *)
(* notice that it is not valid or that the server cannot be reached.       *)
InvitePage == IF invitation THEN {"form", "notice"} ELSE {"notice"}

(* The browser asks the gate once, and asks again when it is redirected. *)
Follow ==
    /\ loading
    /\ path' = Gate(path) /\ from' = GateFrom(path, from)
    /\ loading' = ~LetsIn(path)
    /\ invite' \in IF path = "/invite" THEN InvitePage ELSE {"none"}
    /\ UNCHANGED <<production, cookies, backend, dev, memory, call, auth, moved>>

Idle == ~loading /\ auth = NoAuth

(* A client transition passes the gate too and keeps the memory.  Back     *)
(* leads to the invitation the document was entered at.                    *)
SoftNavigate(p) ==
    /\ Idle
    /\ p = "/invite" => invite # "none"
    /\ path' = Gate(p) /\ from' = GateFrom(p, NoPath)
    /\ UNCHANGED <<production, cookies, backend, dev, loading, invite, memory, call,
                   auth, moved>>

-----------------------------------------------------------------------------
(* API calls: lib/api/client.ts, /api/proxy and dev-session.ts. *)

Bearer == IF live THEN jar.token ELSE NoOne

(* A read of a panel, or a password change of the portal's profile page.   *)
(* forward() takes the cookie, or waits for the development session; a     *)
(* call with no token, or with a dead one, is as good as from NoOne.       *)
Ask(kind) ==
    /\ Idle /\ call = NoCall
    /\ path \in (IF kind = "password" THEN {"/portal"} ELSE {"/portal", "/tickets"})
    /\ LET byDev == jar.token = NoOne /\ ~production
           waits == byDev /\ ~dev.cached
       IN  /\ call' = [kind |-> kind,
                       as |-> IF byDev /\ dev.cached THEN DevAccount ELSE Bearer,
                       stage |-> IF waits THEN "waiting" ELSE "sent"]
           /\ dev' = [dev EXCEPT !.inFlight = @ \/ waits]
    /\ UNCHANGED <<production, cookies, backend, screen, memory, auth, moved>>

(* devPortalToken: one login, and every call that waits gets its token. *)
DevLogin(ok) ==
    /\ dev.inFlight
    /\ dev' = [cached |-> ok, inFlight |-> FALSE]
    /\ call' = IF call.stage = "waiting"
               THEN [call EXCEPT !.as = IF ok THEN DevAccount ELSE NoOne, !.stage = "sent"]
               ELSE call
    /\ UNCHANGED <<production, cookies, backend, screen, memory, auth, moved>>

DevExpire ==
    /\ dev.cached
    /\ dev' = [dev EXCEPT !.cached = FALSE]
    /\ UNCHANGED <<production, cookies, backend, screen, memory, call, auth, moved>>

(* The answer of a call that was let in, or that failed for another reason. *)
Answer(ok) ==
    /\ call.stage = "sent"
    /\ ok => call.as # NoOne
    /\ call' = NoCall
    /\ memory' = IF ok /\ call.kind = "read" THEN memory \cup {call.as} ELSE memory
    /\ UNCHANGED <<production, cookies, backend, dev, screen, auth, moved>>

(* The backend answers a wrong current password with a 401 too. *)
WrongPassword == call.kind = "password"

(* A 401 loads /login with the page as ?from=. *)
Unauthorized ==
    /\ call.stage = "sent"
    /\ call.as = NoOne \/ WrongPassword
    /\ Load("/login", path)
    /\ UNCHANGED <<production, cookies, backend, dev>>

-----------------------------------------------------------------------------
(* Signing in and out: the forms and the routes of /api/auth. *)

Send(kind, a, keep) ==
    /\ Idle
    /\ auth' = [kind |-> kind, account |-> a, keep |-> keep, stage |-> "sent",
                to |-> NoPath]
    /\ UNCHANGED <<production, cookies, backend, dev, screen, memory, call, moved>>

SubmitLogin(a, keep) == path = "/login" /\ Send("login", a, keep)
SubmitRegister(a) == path = "/register" /\ Send("register", a, TRUE)
SubmitAccept == path = "/invite" /\ invite = "form" /\ Send("accept", Invited, TRUE)
SignOut == path \in Panels /\ Send("logout", NoOne, FALSE)

(* What the backend says to the request. *)
Accepted == CASE auth.kind = "login" -> auth.account \in known
              [] auth.kind = "register" -> auth.account \notin known
              [] auth.kind = "accept" -> invitation
              [] OTHER -> FALSE

ForgetfulCookies(a, keep) ==
    [token |-> a, tokenKeep |-> keep, role |-> RoleOf[a], roleKeep |-> FALSE]
SetCookies(a, keep) ==
    [token |-> a, tokenKeep |-> keep, role |-> RoleOf[a], roleKeep |-> keep]

Joins(a, spends) == known' = known \cup {a} /\ invitation' = (invitation /\ ~spends)
Answered(to) == auth' = [auth EXCEPT !.stage = "done", !.to = to]

(* The three sign-in routes: both cookies come with the answer.  An        *)
(* invitation for an account that exists carries no password and signs     *)
(* nobody in.                                                              *)
SignedIn ==
    /\ auth.stage = "sent" /\ Accepted
    /\ auth.kind = "accept" => auth.account \notin known
    /\ jar' = SetCookies(auth.account, auth.keep) /\ live' = TRUE
    /\ Joins(auth.account, auth.kind = "accept")
    /\ Answered(HomeFor(RoleOf[auth.account]))
    /\ UNCHANGED <<production, dev, screen, memory, call, moved>>

(* The account exists or was joined; the second call, the login, failed or *)
(* had no password to use.                                                 *)
NoSession ==
    /\ auth.stage = "sent" /\ auth.kind \in {"register", "accept"} /\ Accepted
    /\ Joins(auth.account, auth.kind = "accept")
    /\ Answered("/login")
    /\ UNCHANGED <<production, cookies, dev, screen, memory, call, moved>>

(* Refused by the backend, or no connection: the form shows a message. *)
Refused ==
    /\ auth.stage = "sent" /\ auth.kind # "logout"
    /\ auth' = NoAuth
    /\ UNCHANGED <<production, cookies, backend, dev, screen, memory, call, moved>>

SignedOut ==
    /\ auth.stage = "sent" /\ auth.kind = "logout"
    /\ jar' = NoCookies /\ live' = FALSE
    /\ Answered("/login")
    /\ UNCHANGED <<production, backend, dev, screen, memory, call, moved>>

(* The logout call never completed.  The owner's and the customer's menus  *)
(* go to /login all the same, with the cookies still there; the agent's    *)
(* menu stays.                                                             *)
MenuLeaves == path \in {"/tickets", "/portal"} /\ Answered("/login")
AgentMenuStays == path = "/staff" /\ auth' = NoAuth
SignOutFailed ==
    /\ auth.stage = "sent" /\ auth.kind = "logout"
    /\ MenuLeaves \/ AgentMenuStays
    /\ UNCHANGED <<production, cookies, backend, dev, screen, memory, call, moved>>

(* login/page.tsx and register/page.tsx load the next page; so do the menus. *)
Destination == IF auth.kind = "login" THEN SafeRedirect(from, RoleOf[auth.account])
               ELSE auth.to
SoftLand ==
    /\ auth.stage = "done" /\ auth.kind # "accept"
    /\ path' = Gate(Destination) /\ from' = NoPath /\ auth' = NoAuth
    /\ UNCHANGED <<production, cookies, backend, dev, loading, invite, memory, call,
                   moved>>
Land ==
    /\ auth.stage = "done" /\ auth.kind # "accept"
    /\ Load(Destination, NoPath)
    /\ UNCHANGED <<production, cookies, backend, dev>>

(* accept-invitation-form.tsx refreshes and replaces the route: a client   *)
(* transition, which keeps the memory of the account before.               *)
LandFromInvitation ==
    /\ auth.stage = "done" /\ auth.kind = "accept"
    /\ path' = Gate(auth.to) /\ from' = GateFrom(auth.to, NoPath)
    /\ moved' = IF moved = "no" THEN "invitation" ELSE moved
    /\ auth' = NoAuth
    /\ UNCHANGED <<production, cookies, backend, dev, loading, invite, memory, call>>

-----------------------------------------------------------------------------
(* The other tabs, time and the browser. *)

OtherSignsIn(a, keep, spends) ==
    /\ spends => invitation /\ a = Invited
    /\ jar' = SetCookies(a, keep) /\ live' = TRUE
    /\ Joins(a, spends)
    /\ moved' = "elsewhere"
    /\ UNCHANGED <<production, dev, screen, memory, call, auth>>

OtherSignsOut ==
    /\ jar' = NoCookies /\ live' = FALSE
    /\ UNCHANGED <<production, backend, dev, screen, memory, call, auth, moved>>

(* Another tab's call starts the development login. *)
OtherAsks ==
    /\ ~production /\ jar.token = NoOne /\ ~dev.cached /\ ~dev.inFlight
    /\ dev' = [dev EXCEPT !.inFlight = TRUE]
    /\ UNCHANGED <<production, cookies, backend, screen, memory, call, auth, moved>>

(* The token expires while its cookie is there. *)
Expire ==
    /\ live
    /\ live' = FALSE
    /\ UNCHANGED <<production, jar, backend, dev, screen, memory, call, auth, moved>>

(* The cookies whose maxAge is (kept) or is not (~kept) set are dropped. *)
Drop(kept) ==
    /\ jar' = [token |-> IF jar.tokenKeep = kept THEN NoOne ELSE jar.token,
               tokenKeep |-> jar.tokenKeep /\ ~kept,
               role |-> IF jar.roleKeep = kept THEN NoRole ELSE jar.role,
               roleKeep |-> jar.roleKeep /\ ~kept]
    /\ live' = (live /\ jar'.token # NoOne)

(* maxAge elapses. *)
CookiesAge ==
    /\ jar.tokenKeep \/ jar.roleKeep
    /\ Drop(TRUE)
    /\ UNCHANGED <<production, backend, dev, screen, memory, call, auth, moved>>

(* The browser closes, forgets the cookies that have no maxAge, and opens  *)
(* its tabs again.                                                         *)
Restart ==
    /\ Drop(FALSE)
    /\ Load(path, from)
    /\ UNCHANGED <<production, backend, dev>>

-----------------------------------------------------------------------------
SessionInit ==
    /\ production \in BOOLEAN
    /\ jar = NoCookies /\ live = FALSE
    /\ known = Seeded /\ invitation = TRUE
    /\ dev = [cached |-> FALSE, inFlight |-> FALSE]
    /\ path = "/" /\ from = NoPath /\ loading = TRUE
    /\ invite = "none"
    /\ memory = {} /\ call = NoCall /\ auth = NoAuth
    /\ moved = "no"

SessionNext ==
    \/ \E p \in Paths, f \in TypedFroms : OpenPath(p, f)
    \/ Follow
    \/ \E p \in Paths : SoftNavigate(p)
    \/ \E kind \in {"read", "password"} : Ask(kind)
    \/ \E ok \in BOOLEAN : DevLogin(ok)
    \/ DevExpire
    \/ \E ok \in BOOLEAN : Answer(ok)
    \/ Unauthorized
    \/ \E a \in Accounts, keep \in BOOLEAN : SubmitLogin(a, keep)
    \/ \E a \in Accounts : SubmitRegister(a)
    \/ SubmitAccept
    \/ SignOut
    \/ SignedIn
    \/ NoSession
    \/ Refused
    \/ SignedOut
    \/ SignOutFailed
    \/ Land
    \/ LandFromInvitation
    \/ \E a \in Accounts, keep, spends \in BOOLEAN : OtherSignsIn(a, keep, spends)
    \/ OtherSignsOut
    \/ OtherAsks
    \/ Expire
    \/ CookiesAge
    \/ Restart

SessionSpec == SessionInit /\ [][SessionNext]_sessionVars

-----------------------------------------------------------------------------
(* Properties. *)

Jars == [token: Accounts \cup {NoOne}, tokenKeep: BOOLEAN,
         role: Roles \cup {NoRole}, roleKeep: BOOLEAN]
DevSessions == [cached: BOOLEAN, inFlight: BOOLEAN]
ApiCalls == [kind: {"none", "read", "password"}, as: Accounts \cup {NoOne},
             stage: {"none", "waiting", "sent"}]
AuthCalls == [kind: {"none", "login", "register", "accept", "logout"},
              account: Accounts \cup {NoOne}, keep: BOOLEAN,
              stage: {"none", "sent", "done"}, to: Paths \cup {NoPath}]

SessionTypeOK ==
    /\ production \in BOOLEAN
    /\ jar \in Jars /\ live \in BOOLEAN
    /\ known \subseteq Accounts /\ invitation \in BOOLEAN
    /\ dev \in DevSessions
    /\ path \in Paths /\ from \in Froms
    /\ loading \in BOOLEAN /\ invite \in {"none", "form", "notice"}
    /\ memory \subseteq Accounts
    /\ call \in ApiCalls
    /\ auth \in AuthCalls
    /\ moved \in {"no", "elsewhere", "invitation"}

(* The two cookies live and die together and name one account: the role    *)
(* cookie that the gate picks a panel from is never left behind by, or     *)
(* missing beside, the token that the backend authorizes.                  *)
CookiesAgree ==
    /\ jar.token = NoOne <=> jar.role = NoRole
    /\ jar.token # NoOne => jar.role = RoleOf[jar.token]
    /\ jar.tokenKeep = jar.roleKeep

Settled == ~loading /\ auth.stage # "done"

(* A signed-in tab holds data of its own account only: the memory of the   *)
(* account before is gone, unless somebody signed in in another tab (or    *)
(* from a page this one has left), or an invitation was accepted in this   *)
(* one.                                                                    *)
OwnAccountOnly ==
    Settled /\ jar.token # NoOne /\ moved = "no" => memory \subseteq {jar.token}

(* A signed-in tab shows a page of its account's panel, or a screen that   *)
(* the gate lets everybody open; an invitation accepted in the tab changes *)
(* nothing about that.                                                     *)
PanelMatchesRole ==
    Settled /\ jar.token # NoOne /\ moved # "elsewhere"
        => \/ CanAccess(RoleOf[jar.token], path)
           \/ path \in AuthScreens \cup {"/invite"}

(* Every page load ends on a page once nobody signs in or out any more:    *)
(* the redirects of the gate never loop, whatever the cookies are.         *)
RedirectsSettle == <>[][UNCHANGED jar]_sessionVars => (loading ~> ~loading)
=============================================================================
