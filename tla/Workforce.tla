------------------------------ MODULE Workforce ------------------------------
(***************************************************************************)
(* The owner's view of the organization (lib/admin): three requests that   *)
(* run side by side behind three permissions, each settled on its own, and *)
(* the staff, departments and department screens that are derived from     *)
(* whatever came back.                                                     *)
(*                                                                         *)
(* The organization changes while it is read, by this page and by others.  *)
(* An answer has at most pageSize rows.  The order of rows and the wording *)
(* of a screen are left out.                                               *)
(***************************************************************************)
EXTENDS FiniteSetsExt, Functions, Integers

CONSTANTS
    Staff,        \* the people of the organization
    Departments,  \* ids of departments
    Main,         \* the default department
    Tickets,      \* tickets that can be open
    Pressing,     \* those of high or urgent priority
    Start,        \* the organization at the start
    MaxChanges    \* bound: changes of the organization

NoTeam == "no team"
Nobody == "nobody"

(* The departments that exist, where everybody is, and the open tickets. *)
Queued == [team: Departments, holder: Staff \cup {Nobody}]
Organization ==
    [teams: SUBSET Departments, place: [Staff -> Departments \cup {NoTeam}],
     queue: UNION {[open -> Queued] : open \in SUBSET Tickets}]

ASSUME WorkforceConstants ==
    /\ IsFiniteSet(Staff) /\ IsFiniteSet(Departments) /\ IsFiniteSet(Tickets)
    /\ Main \in Departments /\ Pressing \subseteq Tickets
    /\ {NoTeam, "all"} \cap Departments = {} /\ Nobody \notin Staff
    /\ Start \in Organization /\ Main \in Start.teams
    /\ Start.place \in [Staff -> Start.teams \cup {NoTeam}]
    /\ \A t \in DOMAIN Start.queue : Start.queue[t].team \in Start.teams
    /\ MaxChanges \in Nat

-----------------------------------------------------------------------------
(* lib/auth/permissions.ts, for the roles that reach the owner's panel. *)

Permissions == {"user:read", "user:write", "department:manage", "ticket:read"}
KnownRoles == {"org_admin", "viewer", "developer"}
PanelRoles == KnownRoles \cup {"custom"}

RolePermissions(r) ==
    CASE r = "org_admin" -> Permissions
      [] r = "viewer" -> {"user:read", "ticket:read"}
      [] r = "developer" -> {}

(* What the panel believes: a role it has never heard of may do anything. *)
Can(r, permission) == r \in KnownRoles => permission \in RolePermissions(r)

-----------------------------------------------------------------------------
VARIABLES
    org,        \* backend: departments, person -> team, open ticket -> team, holder
    changes,    \* changes of it so far
    absent,     \* history: departments that did not exist at some moment
    role,       \* the role in the token
    holds,      \* the permissions the backend finds for it, none when it is stale
    pageSize,   \* MAX_PAGE_SIZE
    reads,      \* the three requests under way: part -> its answer so far
    loaded,     \* the query's data: part -> answer
    thrown,     \* the query's error
    torn,       \* history: the organization changed between the answers in reads
    tornLoaded  \* history: the same for loaded

workforceVars == <<org, changes, absent, role, holds, pageSize, reads, loaded, thrown,
                   torn, tornLoaded>>
session == <<role, holds, pageSize>>

Parts == {"roster", "departments", "tickets"}
Without(status) == [status |-> status, rows |-> <<>>, total |-> 0]
All(status) == [part \in Parts |-> Without(status)]
Failures == {"forbidden", "failed"}

Reading == reads # All("none")
HasData == loaded # All("none")

(* The permission each of the three routes asks for. *)
MayRead(part) ==
    CASE part = "roster" -> "user:read" \in holds
      [] part = "departments" -> {"department:manage", "ticket:read"} \cap holds # {}
      [] part = "tickets" -> "ticket:read" \in holds

On(d) == {p \in Staff : org.place[p] = d}

(* What the backend answers, before it is cut to a page. *)
Listing(part) ==
    CASE part = "roster" -> org.place
      [] part = "departments" -> [d \in org.teams |-> Cardinality(On(d))]
      [] part = "tickets" -> org.queue

Cut(part, rows) ==
    IF part = "departments" \/ Cardinality(DOMAIN rows) <= pageSize THEN {rows}
    ELSE {Restrict(rows, s) : s \in kSubset(pageSize, DOMAIN rows)}

-----------------------------------------------------------------------------
(* lib/admin/workforce.ts: what is derived from the data. *)

Rows(part) == loaded[part].rows

Holding(p) == {t \in DOMAIN Rows("tickets") : Rows("tickets")[t].holder = p}

DeriveStaff ==
    [p \in DOMAIN Rows("roster") |->
        [team |-> Rows("roster")[p],
         open |-> Cardinality(Holding(p)),
         pressing |-> Cardinality(Holding(p) \cap Pressing)]]

DeriveDepartments ==
    [d \in DOMAIN Rows("departments") |->
        [staffCount |-> Rows("departments")[d],
         openTickets |-> Cardinality({t \in DOMAIN Rows("tickets") :
                                        Rows("tickets")[t].team = d})]]

BusiestLoad == Max({0} \cup {DeriveStaff[p].open : p \in DOMAIN DeriveStaff})

LoadBand(open) ==
    IF open = 0 THEN "none"
    ELSE IF 100 * open <= 34 * BusiestLoad THEN "light"
    ELSE IF 100 * open <= 67 * BusiestLoad THEN "steady" ELSE "heavy"

Summarize ==
    [total |-> Cardinality(DOMAIN DeriveStaff),
     unassigned |-> Cardinality({p \in DOMAIN DeriveStaff : DeriveStaff[p].team = NoTeam}),
     idle |-> Cardinality({p \in DOMAIN DeriveStaff : DeriveStaff[p].open = 0}),
     departments |-> Cardinality(DOMAIN DeriveDepartments),
     unassignedTickets |-> Cardinality(Holding(Nobody)),
     sampleTruncated |-> loaded["tickets"].total > Cardinality(DOMAIN Rows("tickets")),
     rosterTruncated |-> loaded["roster"].total > Cardinality(DOMAIN DeriveStaff)]

(* The people a department filter leaves, NoTeam for the pool. *)
ApplyQuery(department) ==
    {p \in DOMAIN DeriveStaff : department = "all" \/ DeriveStaff[p].team = department}

-----------------------------------------------------------------------------
(* The three screens. *)

Forbidden(part) == loaded[part].status = "forbidden"
SessionLikelyStale == \A part \in Parts : Forbidden(part)

Screen(isForbidden, isBroken, content) ==
    IF SessionLikelyStale THEN "stale"
    ELSE IF isForbidden THEN "forbidden"
    ELSE IF isBroken THEN "error"
    ELSE IF ~HasData THEN "skeleton" ELSE content

StaffScreen ==
    Screen(Forbidden("roster") \/ thrown = "forbidden", thrown # "none", "table")
DepartmentsScreen ==
    Screen(Forbidden("departments") \/ thrown = "forbidden", thrown # "none",
           IF DOMAIN DeriveDepartments = {} THEN "empty" ELSE "list")
DetailScreen(d) ==
    Screen(Forbidden("departments") \/ (thrown = "forbidden" /\ ~Forbidden("roster")),
           thrown # "none" /\ ~HasData,
           IF d \in DOMAIN DeriveDepartments THEN "detail" ELSE "missing")

(* One person: a row of the table, a card on a narrow screen, a card of    *)
(* the department's page, and the side sheet.                              *)
StaffRow(p) == [team |-> DeriveStaff[p].team, open |-> DeriveStaff[p].open,
                band |-> LoadBand(DeriveStaff[p].open)]
StaffCard(p) == [team |-> DeriveStaff[p].team, open |-> DeriveStaff[p].open]
GridCard(p) == [open |-> DeriveStaff[p].open, pressing |-> DeriveStaff[p].pressing]
Body(p) == [team |-> DeriveStaff[p].team, open |-> DeriveStaff[p].open,
            pressing |-> DeriveStaff[p].pressing, moves |-> Can(role, "user:write")]

StaffTable(department, narrow) ==
    [p \in ApplyQuery(department) |-> IF narrow THEN StaffCard(p) ELSE StaffRow(p)]
StaffCardGrid(d) ==
    IF Forbidden("roster") THEN <<>> ELSE [p \in ApplyQuery(d) |-> GridCard(p)]

(* A department's card: the headcount, and up to AvatarPreview faces with  *)
(* the number of those that are not drawn.                                 *)
AvatarPreview == 3
CardMembers(d) == DeriveDepartments[d].staffCount
AvatarStack(d) ==
    LET members == IF Forbidden("roster") THEN 0 ELSE Cardinality(ApplyQuery(d))
        faces == Min({members, AvatarPreview})
    IN  [faces |-> faces, overflow |-> Max({0, CardMembers(d) - faces})]

(* The numbers above the lists, and the notes below them. *)
StaffKpis == [total |-> Summarize.total, unassigned |-> Summarize.unassigned,
              idle |-> Summarize.idle, unassignedTickets |-> Summarize.unassignedTickets]
DepartmentsKpis ==
    LET rows == DOMAIN DeriveDepartments
    IN  [departments |-> Cardinality(rows),
         staffed |-> SumFunction([d \in rows |-> CardMembers(d)]),
         empty |-> Cardinality({d \in rows : CardMembers(d) = 0}),
         unplaced |-> Summarize.unassigned,
         open |-> SumFunction([d \in rows |-> DeriveDepartments[d].openTickets])]
UnassignedBanner == Summarize.unassigned
Basis == [sample |-> Summarize.sampleTruncated, roster |-> Summarize.rosterTruncated]
DetailKpis(d) ==
    LET members == Cardinality(ApplyQuery(d))
    IN  [members |-> IF members = 0 THEN CardMembers(d) ELSE members,
         open |-> DeriveDepartments[d].openTickets,
         unassigned |-> Cardinality({t \in Holding(Nobody) : Rows("tickets")[t].team = d})]

(* The entries of the menus that lead to a change. *)
StaffRowActions(p) ==
    IF ~Can(role, "user:write") THEN {}
    ELSE {"edit", "move"} \cup (IF DeriveStaff[p].team = NoTeam THEN {} ELSE {"remove"})
DepartmentActions(d) ==
    IF ~Can(role, "department:manage") THEN {}
    ELSE {"edit"} \cup (IF d = Main THEN {} ELSE {"delete"})

-----------------------------------------------------------------------------
(* useWorkforce. *)

(* A page mounts the query, its data has grown old, somebody retries, or a *)
(* mutation invalidates it: three requests, and any that are under way are *)
(* dropped.                                                                *)
Begins3 ==
    /\ reads' = All("sent")
    /\ torn' = FALSE
    /\ thrown' = IF HasData THEN thrown ELSE "none"

Reload ==
    /\ Begins3
    /\ UNCHANGED <<org, changes, absent, session, loaded, tornLoaded>>

AnswerPart(part) ==
    /\ reads[part].status = "sent"
    /\ IF MayRead(part)
       THEN \E rows \in Cut(part, Listing(part)) :
                reads' = [reads EXCEPT ![part] =
                            [status |-> "ok", rows |-> rows,
                             total |-> Cardinality(DOMAIN Listing(part))]]
       ELSE reads' = [reads EXCEPT ![part] = Without("forbidden")]
    /\ UNCHANGED <<org, changes, absent, session, loaded, thrown, torn, tornLoaded>>

(* A failure other than a refusal: the network, a 500, a time-out. *)
FailPart(part) ==
    /\ reads[part].status = "sent"
    /\ reads' = [reads EXCEPT ![part] = Without("failed")]
    /\ UNCHANGED <<org, changes, absent, session, loaded, thrown, torn, tornLoaded>>

AllSettled == Reading /\ \A part \in Parts : reads[part].status # "sent"
TotalFailure == \A part \in Parts : reads[part].status \in Failures

(* Anything less than a total failure is data. *)
KeepsParts ==
    /\ AllSettled /\ ~TotalFailure
    /\ loaded' = [part \in Parts |-> IF /\ reads[part].status = "failed"
                                        /\ loaded[part].status = "ok"
                                     THEN loaded[part] ELSE reads[part]]
    /\ tornLoaded' = torn
    /\ thrown' = "none" /\ reads' = All("none")
    /\ UNCHANGED <<org, changes, absent, session, torn>>
Settle ==
    /\ AllSettled /\ ~TotalFailure
    /\ loaded' = reads /\ tornLoaded' = torn
    /\ thrown' = "none" /\ reads' = All("none")
    /\ UNCHANGED <<org, changes, absent, session, torn>>

(* A total failure throws the departments' error; the client tries again,  *)
(* or gives up and keeps the data it had.                                  *)
Throw(again) ==
    /\ AllSettled /\ TotalFailure
    /\ IF again THEN Begins3
       ELSE /\ thrown' = reads["departments"].status
            /\ reads' = All("none")
            /\ UNCHANGED torn
    /\ UNCHANGED <<org, changes, absent, session, loaded, tornLoaded>>

-----------------------------------------------------------------------------
(* The organization changes: adminApi's writes, and the queue's. *)

(* Here: from a screen of this page, whose mutation then reloads the       *)
(* query.  Elsewhere: by anybody else.                                     *)
Becomes(new, here) ==
    /\ changes < MaxChanges /\ changes' = changes + 1
    /\ org' = new
    /\ absent' = absent \cup (Departments \ new.teams)
    /\ IF here THEN Begins3
       ELSE /\ torn' = (torn \/ \E part \in Parts : reads[part].status = "ok")
            /\ UNCHANGED <<reads, thrown>>
    /\ UNCHANGED <<session, loaded, tornLoaded>>

(* The assign, edit and remove dialogs all place one person. *)
SetStaffDepartment(p, d, here) ==
    /\ d \in org.teams \cup {NoTeam}
    /\ here => /\ HasData /\ p \in DOMAIN DeriveStaff
               /\ \/ Body(p).moves \/ "move" \in StaffRowActions(p)
                  \/ d = NoTeam /\ "remove" \in StaffRowActions(p)
               /\ "user:write" \in holds
    /\ Becomes([org EXCEPT !.place[p] = d], here)

CreateDepartment(d, here) ==
    /\ d \notin org.teams
    /\ here => /\ HasData /\ Can(role, "department:manage")
               /\ "department:manage" \in holds
    /\ Becomes([org EXCEPT !.teams = @ \cup {d}], here)

(* Its people go back to the pool, its tickets to the default department. *)
LeavesPeople(d, here) ==
    /\ d \in org.teams \ {Main}
    /\ here => /\ HasData /\ d \in DOMAIN DeriveDepartments
               /\ "delete" \in DepartmentActions(d)
               /\ "department:manage" \in holds
    /\ Becomes([org EXCEPT !.teams = @ \ {d}], here)
DeleteDepartment(d, here) ==
    /\ d \in org.teams \ {Main}
    /\ here => /\ HasData /\ d \in DOMAIN DeriveDepartments
               /\ "delete" \in DepartmentActions(d)
               /\ "department:manage" \in holds
    /\ Becomes([teams |-> org.teams \ {d},
                place |-> [p \in Staff |-> IF org.place[p] = d THEN NoTeam ELSE org.place[p]],
                queue |-> [t \in DOMAIN org.queue |->
                              IF org.queue[t].team = d THEN [org.queue[t] EXCEPT !.team = Main]
                              ELSE org.queue[t]]], here)

(* A ticket is opened, routed or assigned, or leaves the open queue. *)
TicketMoves(t, d, p) ==
    /\ d \in org.teams
    /\ LET row == [team |-> d, holder |-> p]
       IN  Becomes([org EXCEPT !.queue =
                      [u \in {t} \cup DOMAIN @ |-> IF u = t THEN row ELSE @[u]]], FALSE)
TicketCloses(t) ==
    /\ t \in DOMAIN org.queue
    /\ Becomes([org EXCEPT !.queue = Restrict(@, DOMAIN @ \ {t})], FALSE)

-----------------------------------------------------------------------------
WorkforceInit ==
    /\ org = Start
    /\ changes = 0
    /\ absent = Departments \ org.teams
    /\ role \in PanelRoles
    /\ holds \in {{}} \cup (IF role \in KnownRoles THEN {RolePermissions(role)}
                            ELSE {{"user:read"}, {"department:manage"}, Permissions})
    /\ pageSize \in {1, 2}
    /\ reads = All("sent") /\ loaded = All("none") /\ thrown = "none"
    /\ torn = FALSE /\ tornLoaded = FALSE

WorkforceNext ==
    \/ Reload
    \/ \E part \in Parts : AnswerPart(part) \/ FailPart(part)
    \/ Settle
    \/ \E again \in BOOLEAN : Throw(again)
    \/ \E p \in Staff, d \in Departments \cup {NoTeam}, here \in BOOLEAN :
           SetStaffDepartment(p, d, here)
    \/ \E d \in Departments, here \in BOOLEAN :
           CreateDepartment(d, here) \/ DeleteDepartment(d, here)
    \/ \E t \in Tickets : \/ TicketCloses(t)
                          \/ \E d \in Departments, p \in Staff \cup {Nobody} :
                                 TicketMoves(t, d, p)

WorkforceSpec == WorkforceInit /\ [][WorkforceNext]_workforceVars

-----------------------------------------------------------------------------
(* Properties. *)

Answers3(part) ==
    LET key == CASE part = "roster" -> Staff [] part = "departments" -> Departments
                 [] part = "tickets" -> Tickets
        row == CASE part = "roster" -> Departments \cup {NoTeam}
                 [] part = "departments" -> 0..Cardinality(Staff)
                 [] part = "tickets" -> Queued
    IN  [status: {"none", "sent", "ok"} \cup Failures,
         rows: UNION {[s -> row] : s \in SUBSET key}, total: Nat]

WorkforceTypeOK ==
    /\ org \in Organization /\ Main \in org.teams
    /\ org.place \in [Staff -> org.teams \cup {NoTeam}]
    /\ \A t \in DOMAIN org.queue : org.queue[t].team \in org.teams
    /\ changes \in 0..MaxChanges
    /\ absent \subseteq Departments
    /\ role \in PanelRoles /\ holds \subseteq Permissions /\ pageSize \in {1, 2}
    /\ \A part \in Parts : {reads[part], loaded[part]} \subseteq Answers3(part)
    /\ thrown \in {"none"} \cup Failures
    /\ torn \in BOOLEAN /\ tornLoaded \in BOOLEAN

Shown(part) == loaded[part].status = "ok"

(* The screens agree with each other: the number beside a department is    *)
(* the number of people listed behind it, on its card, under its faces and *)
(* on its own page; the numbers above the staff list and above the         *)
(* departments add up to each other; every open ticket is counted for one  *)
(* department, and for one person or for nobody; nobody is on a team whose *)
(* page says that it is missing.  It holds of any mix of answers and       *)
(* failures, unless the organization changed between the three answers     *)
(* (tornLoaded) or the roster has a second page, which Basis says.         *)
ScreensAgree ==
    LET staff == DOMAIN DeriveStaff
        rows == DOMAIN DeriveDepartments
        whole == ~tornLoaded /\ ~Basis.roster
    IN  /\ whole /\ Shown("roster") /\ Shown("departments") =>
            /\ \A d \in rows : LET members == Cardinality(DOMAIN StaffCardGrid(d))
                               IN  /\ CardMembers(d) = members
                                   /\ DetailKpis(d).members = members
                                   /\ AvatarStack(d).faces + AvatarStack(d).overflow = members
            /\ StaffKpis.total = DepartmentsKpis.staffed + DepartmentsKpis.unplaced
            /\ UnassignedBanner = Cardinality(DOMAIN StaffTable(NoTeam, TRUE))
            /\ \A p \in staff : LET d == DeriveStaff[p].team
                                IN  d # NoTeam /\ thrown = "none" => DetailScreen(d) = "detail"
        /\ whole /\ Shown("roster") =>
            SumFunction([p \in staff |-> StaffTable("all", FALSE)[p].open])
                + StaffKpis.unassignedTickets = Cardinality(DOMAIN Rows("tickets"))
        /\ ~tornLoaded /\ Shown("departments") =>
            /\ DepartmentsKpis.open = Cardinality(DOMAIN Rows("tickets"))
            /\ SumFunction([d \in rows |-> DetailKpis(d).unassigned])
                 = StaffKpis.unassignedTickets

(* The page of a department says that it does not exist only if, at some   *)
(* moment, it did not: a failed request is not taken for a deletion.       *)
AbsenceIsReal == \A d \in Departments : DetailScreen(d) = "missing" => d \in absent
=============================================================================
