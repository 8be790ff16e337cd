------------------------------- MODULE Triage -------------------------------
(***************************************************************************)
(* The triage core of one organization: tickets, the analyses the          *)
(* classifier writes about them, the departments predictions are routed    *)
(* to, and the requests and event deliveries that read and write those     *)
(* rows concurrently.                                                      *)
(*                                                                         *)
(* Every SQL statement is one atomic step.  A use case that issues several *)
(* statements outside a transaction is several actions, and what it read   *)
(* in the first is carried, possibly stale, in proc[p] to the last.  An    *)
(* early return that writes nothing is the action not being enabled.       *)
(***************************************************************************)
EXTENDS Naturals, FiniteSets

CONSTANTS
    Tickets,      \* ticket ids, unborn until CreateTicket inserts the row
    Customers,    \* customers of the organization
    Staff,        \* users holding a role in the organization
    Departments,  \* department ids, General among them; a deleted id never returns
    General,      \* the default department created with the organization
    Seeded,       \* departments that exist at the start -> their category
    Categories,   \* the classifier's labels
    Priorities,   \* ticket priorities
    Normal,       \* the priority every ticket starts with
    Patches,      \* the PATCH /tickets/{id} requests considered
    Handlers,     \* HTTP handler goroutines
    Consumers,    \* goroutines that run TicketConsumer.handle
    Kafka,        \* TRUE: Kafka bus, at-least-once; FALSE: in-process bus
    Overlap,      \* FALSE: a use case starts only when every other is finished
    Faults,       \* TRUE: any statement or the classifier may fail
    MaxRequests,  \* bound: HTTP requests served
    MaxCrashes,   \* bound: server crashes
    None          \* SQL NULL, a nil pointer, an omitted field

Procs == Handlers \cup Consumers

Statuses == {"open", "in_progress", "pending_customer", "resolved", "closed"}

(* A row of table tickets.  resolvedAt says whether the timestamp is set. *)
TicketRow ==
    [customer: Customers, department: Departments, assignee: Staff \cup {None},
     status: Statuses, priority: Priorities, priorityOverridden: BOOLEAN,
     departmentOverridden: BOOLEAN, resolvedAt: BOOLEAN]

(* What later readers use of a row of ai_analyses: the two predictions and  *)
(* whether the category had no department of its own.                      *)
Prediction ==
    [priority: Priorities, department: Departments \cup {None}, fallback: BOOLEAN]

(* A prediction about to be inserted: mapCategory always names a department. *)
Routing == [priority: Priorities, department: Departments, fallback: BOOLEAN]

(* A PATCH request; by is the customer it comes from, None for staff. *)
Patch ==
    [by: Customers \cup {None}, priority: Priorities \cup {None},
     department: Departments \cup {None}, status: Statuses \cup {None}]

ASSUME TriageConstants ==
    /\ General \in Departments
    /\ DOMAIN Seeded \subseteq Departments \ {General}
    /\ \A d \in DOMAIN Seeded : Seeded[d] \in Categories \cup {None}
    /\ \A d, e \in DOMAIN Seeded : Seeded[d] = Seeded[e] => d = e \/ Seeded[d] = None
    /\ Normal \in Priorities
    /\ Patches \subseteq Patch
    /\ Handlers \cap Consumers = {}
    /\ None \notin Tickets \cup Customers \cup Staff \cup Departments
                  \cup Categories \cup Priorities \cup Statuses
                  \cup TicketRow \cup Prediction \cup Patch
    /\ {Kafka, Overlap, Faults} \subseteq BOOLEAN
    /\ {MaxRequests, MaxCrashes} \subseteq Nat

VARIABLES
    tickets,    \* table tickets: id -> row, or None
    latest,     \* newest row of ai_analyses of each ticket, or None
    autoRuns,   \* rows of ai_analyses the consumer wrote for each ticket
    failed,     \* tickets counted in ticketlens_classifier_failure_total
    deptState,  \* table departments: "unborn", "live" or "deleted"
    category,   \* departments.category
    team,       \* table staff_departments: member -> department, or None
    inbox,      \* ticket.created events queued (Kafka: not yet committed)
    proc,       \* what each goroutine is executing, with its local copies
    requests,   \* HTTP requests served so far
    crashes     \* crashes so far

db   == <<tickets, latest, autoRuns, deptState, category, team>>
vars == <<tickets, latest, autoRuns, failed, deptState, category, team,
          inbox, proc, requests, crashes>>

-----------------------------------------------------------------------------
(* Local state of a goroutine, by the statement it is about to execute. *)

Frame(pcs, ts, rows, preds, patches, ds, cs) ==
    [pc: pcs, ticket: ts, row: rows, pred: preds, patch: patches,
     dept: ds, category: cs]

ProcState ==
    LET N == {None} IN
         Frame({"idle"}, N, N, N, N, N, N)
    \cup Frame({"publish", "load"}, Tickets, N, N, N, N, N)
    \cup Frame({"classify", "assign"}, Tickets, TicketRow, N, N, N, N)
    \cup Frame({"store", "apply"}, Tickets, TicketRow, Routing, N, N, N)
    \cup Frame({"latest"}, Tickets, TicketRow, N, Patches, N, N)
    \cup Frame({"patch"}, Tickets, TicketRow, Prediction \cup N, Patches, N, N)
    \cup Frame({"redept"}, N, N, N, N, Departments, Categories \cup N)
    \cup Frame({"reassign", "drop"}, N, N, N, N, Departments, N)

Idle == [pc |-> "idle", ticket |-> None, row |-> None, pred |-> None,
         patch |-> None, dept |-> None, category |-> None]

OnTicket(pc, t, row) == [Idle EXCEPT !.pc = pc, !.ticket = t, !.row = row]
OnDept(pc, d, c)     == [Idle EXCEPT !.pc = pc, !.dept = d, !.category = c]

Become(p, s) == proc' = [proc EXCEPT ![p] = s]

(* A goroutine is free to take up a use case. *)
Free(p) ==
    /\ proc[p].pc = "idle"
    /\ Overlap \/ \A q \in Procs : proc[q].pc = "idle"

(* A free handler accepts one more HTTP request. *)
Accept(h) ==
    /\ Free(h)
    /\ requests < MaxRequests
    /\ requests' = requests + 1
    /\ UNCHANGED <<failed, crashes>>

Live(d) == deptState[d] = "live"

-----------------------------------------------------------------------------
(* Row arithmetic of the use cases. *)

NewTicket(c) ==
    [customer |-> c, department |-> General, assignee |-> None,
     status |-> "open", priority |-> Normal, priorityOverridden |-> FALSE,
     departmentOverridden |-> FALSE, resolvedAt |-> FALSE]

IsResolved(row) == row.status \in {"resolved", "closed"}

KeepFlagSetPriority(row, v, pred) ==
    IF v = None THEN row ELSE [row EXCEPT !.priority = v]
FlagWithoutAnalysisSetPriority(row, v, pred) ==
    IF v = None THEN row
    ELSE [row EXCEPT !.priority = v, !.priorityOverridden = TRUE]

SetPriority(row, v, pred) ==
    IF v = None THEN row
    ELSE [row EXCEPT
            !.priority = v,
            !.priorityOverridden = IF pred = None THEN @ ELSE v # pred.priority]

SetDepartment(row, d, pred) ==
    IF d = None THEN row
    ELSE [row EXCEPT
            !.department = d,
            !.departmentOverridden =
                IF pred = None THEN @
                ELSE IF pred.department = None THEN @ ELSE d # pred.department]

NilSetStatus(row, s) == [row EXCEPT !.status = s]
KeepStampSetStatus(row, s) ==
    IF s = None THEN row
    ELSE [row EXCEPT !.status = s, !.resolvedAt = @ \/ s = "resolved"]

SetStatus(row, s) ==
    IF s = None THEN row
    ELSE [row EXCEPT !.status = s, !.resolvedAt = s = "resolved"]

Patched(row, patch, pred) ==
    SetStatus(SetDepartment(SetPriority(row, patch.priority, pred),
                            patch.department, pred), patch.status)

AnyPatchAllowed(row, patch) == patch.by \in {None, row.customer}

(* Scope.Guard and checkCustomerPatch: a customer may only reopen a        *)
(* resolved ticket of their own; staff pass straight through.              *)
Allowed(row, patch) ==
    \/ patch.by = None
    \/ /\ patch.by = row.customer
       /\ patch.priority = None /\ patch.department = None
       /\ patch.status = "open"
       /\ IsResolved(row)

OverwritingApply(row, pred) ==
    [row EXCEPT !.priority = pred.priority, !.department = pred.department]

(* The prediction reaches the fields nobody has corrected. *)
ApplyPrediction(row, pred) ==
    [row EXCEPT
        !.priority   = IF row.priorityOverridden THEN @ ELSE pred.priority,
        !.department = IF row.departmentOverridden THEN @ ELSE pred.department]

(* The department that claims category c, General when there is none. *)
Claims(d, c) == Live(d) /\ category[d] = c
Claimed(c)   == \E d \in Departments : Claims(d, c)
Routed(c)    == IF Claimed(c) THEN CHOOSE d \in Departments : Claims(d, c)
                ELSE General

-----------------------------------------------------------------------------
(* The end of a use case.  The consumer swallows an error after counting   *)
(* it, so under Kafka the message is committed either way; the commit      *)
(* itself may be lost.                                                     *)

Ack(p) ==
    IF Kafka /\ p \in Consumers
    THEN \/ inbox' = inbox \ {proc[p].ticket}
         \/ Faults /\ UNCHANGED inbox
    ELSE UNCHANGED inbox

Succeed(p) ==
    /\ Become(p, Idle)
    /\ Ack(p)
    /\ UNCHANGED <<failed, requests, crashes>>

Fail(p) ==
    /\ Become(p, Idle)
    /\ failed' = IF p \in Consumers THEN failed \cup {proc[p].ticket} ELSE failed
    /\ Ack(p)
    /\ UNCHANGED <<requests, crashes>>

(* The response is assembled after the write; a read that fails there      *)
(* reports as an error what has been done.                                 *)
Respond(p) == Succeed(p) \/ (Faults /\ Fail(p))

UncheckedWriteRow(p, row) ==
    /\ tickets' = [tickets EXCEPT ![proc[p].ticket] = row]
    /\ UNCHANGED <<latest, autoRuns, deptState, category, team>>
    /\ Respond(p)

(* TicketRepo.Update: one UPDATE of every column, no version check.  The   *)
(* foreign key refuses a department that is gone, and the use case fails.  *)
WriteRow(p, row) ==
    \/ /\ Live(row.department)
       /\ tickets' = [tickets EXCEPT ![proc[p].ticket] = row]
       /\ UNCHANGED <<latest, autoRuns, deptState, category, team>>
       /\ Respond(p)
    \/ /\ ~Live(row.department)
       /\ UNCHANGED db
       /\ Fail(p)

-----------------------------------------------------------------------------
(* POST /tickets: the insert commits first, then ticket.created is         *)
(* published; a full buffer or a failing broker drops it silently.         *)

CreateTicket(h, t, c) ==
    /\ Accept(h)
    /\ tickets[t] = None
    /\ tickets' = [tickets EXCEPT ![t] = NewTicket(c)]
    /\ Become(h, OnTicket("publish", t, None))
    /\ UNCHANGED <<latest, autoRuns, deptState, category, team, inbox>>

PublishCreated(h) ==
    /\ proc[h].pc = "publish"
    /\ inbox' = inbox \cup {proc[h].ticket}
    /\ Become(h, Idle)
    /\ UNCHANGED <<db, failed, requests, crashes>>

DropCreated(h) ==
    /\ proc[h].pc = "publish"
    /\ Become(h, Idle)
    /\ UNCHANGED <<db, failed, inbox, requests, crashes>>

-----------------------------------------------------------------------------
(* AnalyzeTicket: started by the consumer, which first asks HasAnalysis,   *)
(* or by a manual re-run, which does not.                                  *)

(* HasAnalysis is TRUE: the delivery is dropped (and, under Kafka,         *)
(* committed).                                                             *)
SkipAnalyzed(w, t) ==
    /\ Free(w)
    /\ t \in inbox
    /\ latest[t] # None
    /\ inbox' = inbox \ {t}
    /\ UNCHANGED <<db, failed, proc, requests, crashes>>

EarlyCommitConsume(w, t) ==
    /\ Free(w)
    /\ t \in inbox
    /\ latest[t] = None
    /\ inbox' = inbox \ {t}
    /\ Become(w, OnTicket("load", t, None))
    /\ UNCHANGED <<db, failed, requests, crashes>>
UnremovedConsume(w, t) ==
    /\ Free(w)
    /\ t \in inbox
    /\ UNCHANGED inbox
    /\ Become(w, OnTicket("load", t, None))
    /\ UNCHANGED <<db, failed, requests, crashes>>

(* HasAnalysis is FALSE, which a failing query also reads as.  The         *)
(* in-process channel has given the event up; Kafka keeps it uncommitted.  *)
Consume(w, t) ==
    /\ Free(w)
    /\ t \in inbox
    /\ latest[t] = None \/ Faults
    /\ inbox' = IF Kafka THEN inbox ELSE inbox \ {t}
    /\ Become(w, OnTicket("load", t, None))
    /\ UNCHANGED <<db, failed, requests, crashes>>

Load(w) ==
    /\ proc[w].pc = "load"
    /\ Become(w, OnTicket("classify", proc[w].ticket, tickets[proc[w].ticket]))
    /\ UNCHANGED <<db, failed, inbox, requests, crashes>>

Rerun(h, t) ==
    /\ Accept(h)
    /\ tickets[t] # None
    /\ Become(h, OnTicket("classify", t, tickets[t]))
    /\ UNCHANGED <<db, inbox>>

(* The classifier's answer, and mapCategory's read of the departments. *)
Classify(p) ==
    /\ proc[p].pc = "classify"
    /\ \E v \in Priorities, c \in Categories :
          Become(p, [proc[p] EXCEPT
                       !.pc = "store",
                       !.pred = [priority |-> v, department |-> Routed(c),
                                 fallback |-> ~Claimed(c)]])
    /\ UNCHANGED <<db, failed, inbox, requests, crashes>>

(* INSERT INTO ai_analyses, refused when the department is gone. *)
Store(p) ==
    /\ proc[p].pc = "store"
    /\ \/ /\ Live(proc[p].pred.department)
          /\ latest' = [latest EXCEPT ![proc[p].ticket] = proc[p].pred]
          /\ autoRuns' = IF p \in Consumers
                         THEN [autoRuns EXCEPT ![proc[p].ticket] = @ + 1]
                         ELSE autoRuns
          /\ Become(p, [proc[p] EXCEPT !.pc = "apply"])
          /\ UNCHANGED <<tickets, failed, deptState, category, team, inbox,
                         requests, crashes>>
       \/ /\ ~Live(proc[p].pred.department)
          /\ UNCHANGED db
          /\ Fail(p)

(* The prediction goes into the copy Load or Rerun made of the row; the    *)
(* row is written only when that changes it.                               *)
Apply(p) ==
    /\ proc[p].pc = "apply"
    /\ LET new == ApplyPrediction(proc[p].row, proc[p].pred) IN
       \/ new # proc[p].row /\ WriteRow(p, new)
       \/ new = proc[p].row /\ UNCHANGED db /\ Respond(p)

-----------------------------------------------------------------------------
(* PATCH /tickets/{id}: read the row, read the latest analysis, write the  *)
(* row.  The audit entry and the ticket.updated event that follow are      *)
(* best effort and touch nothing here.                                     *)

StartPatch(h, t, patch) ==
    /\ Accept(h)
    /\ tickets[t] # None
    /\ Allowed(tickets[t], patch)
    /\ Become(h, [OnTicket("latest", t, tickets[t]) EXCEPT !.patch = patch])
    /\ UNCHANGED <<db, inbox>>

ReadLatest(h) ==
    /\ proc[h].pc = "latest"
    /\ Become(h, [proc[h] EXCEPT !.pc = "patch", !.pred = latest[proc[h].ticket]])
    /\ UNCHANGED <<db, failed, inbox, requests, crashes>>

WritePatch(h) ==
    /\ proc[h].pc = "patch"
    /\ WriteRow(h, Patched(proc[h].row, proc[h].patch, proc[h].pred))

(* POST /tickets/{id}/assign: only members reach the write. *)
StartAssign(h, t, a) ==
    /\ Accept(h)
    /\ tickets[t] # None
    /\ Become(h, OnTicket("assign", t, [tickets[t] EXCEPT !.assignee = a]))
    /\ UNCHANGED <<db, inbox>>

WriteAssign(h) ==
    /\ proc[h].pc = "assign"
    /\ WriteRow(h, proc[h].row)

-----------------------------------------------------------------------------
(* Departments and the staff roster. *)

AnyCategoryFree(d, c) == TRUE

(* The unique index on (organization_id, category). *)
CategoryFree(d, c) == c = None \/ \A e \in Departments \ {d} : ~Claims(e, c)

CreateDepartment(h, d, c) ==
    /\ Accept(h)
    /\ deptState[d] = "unborn"
    /\ CategoryFree(d, c)
    /\ deptState' = [deptState EXCEPT ![d] = "live"]
    /\ category' = [category EXCEPT ![d] = c]
    /\ UNCHANGED <<tickets, latest, autoRuns, team, inbox, proc>>

(* The row is read, patched and later written whole: a rename carries the  *)
(* category that was read.                                                 *)
StartUpdateDepartment(h, d, c) ==
    /\ Accept(h)
    /\ Live(d)
    /\ c = category[d] \/ CategoryFree(d, c)
    /\ Become(h, OnDept("redept", d, c))
    /\ UNCHANGED <<db, inbox>>

WriteDepartment(h) ==
    /\ proc[h].pc = "redept"
    /\ LET d == proc[h].dept  c == proc[h].category IN
       \/ /\ Live(d) /\ CategoryFree(d, c)
          /\ category' = [category EXCEPT ![d] = c]
          /\ UNCHANGED <<tickets, latest, autoRuns, deptState, team>>
          /\ Succeed(h)
       \/ /\ ~(Live(d) /\ CategoryFree(d, c))
          /\ UNCHANGED db
          /\ Fail(h)

IsDeletable(d) == Live(d) /\ d # General

StartDeleteDepartment(h, d) ==
    /\ Accept(h)
    /\ IsDeletable(d)
    /\ Become(h, OnDept("reassign", d, None))
    /\ UNCHANGED <<db, inbox>>

ReassignTickets(h) ==
    /\ proc[h].pc = "reassign"
    /\ tickets' = [t \in Tickets |->
                     IF tickets[t] = None THEN None
                     ELSE IF tickets[t].department = proc[h].dept
                          THEN [tickets[t] EXCEPT !.department = General]
                          ELSE tickets[t]]
    /\ Become(h, [proc[h] EXCEPT !.pc = "drop"])
    /\ UNCHANGED <<latest, autoRuns, failed, deptState, category, team, inbox,
                   requests, crashes>>

(* No ticket row still names the department. *)
Unreferenced(d) ==
    \A t \in Tickets : tickets[t] # None => tickets[t].department # d

(* DELETE FROM departments: refused while a ticket points there; analyses  *)
(* lose the reference, the team loses its members.                         *)
DropDepartment(h) ==
    /\ proc[h].pc = "drop"
    /\ LET d == proc[h].dept IN
       \/ /\ Live(d) /\ Unreferenced(d)
          /\ deptState' = [deptState EXCEPT ![d] = "deleted"]
          /\ latest' = [t \in Tickets |->
                          IF latest[t] = None THEN None
                          ELSE IF latest[t].department = d
                               THEN [latest[t] EXCEPT !.department = None]
                               ELSE latest[t]]
          /\ team' = [s \in Staff |-> IF team[s] = d THEN None ELSE team[s]]
          /\ UNCHANGED <<tickets, autoRuns, category>>
          /\ Succeed(h)
       \/ /\ ~(Live(d) /\ Unreferenced(d))
          /\ UNCHANGED db
          /\ Fail(h)

AssignStaff(h, s, d) ==
    /\ Accept(h)
    /\ d # None => Live(d)
    /\ team' = [team EXCEPT ![s] = d]
    /\ UNCHANGED <<tickets, latest, autoRuns, deptState, category, inbox, proc>>

-----------------------------------------------------------------------------
(* A statement, the classifier or the request context fails: the use case  *)
(* returns the error and keeps what it already wrote.                      *)
Abort(p) ==
    /\ Faults
    /\ proc[p].pc \notin {"idle", "publish"}
    /\ UNCHANGED db
    /\ Fail(p)

(* A server dies: the local state of its goroutines is gone, and so is the *)
(* in-process channel.  Only with Kafka are there other servers.           *)
Crash ==
    /\ crashes < MaxCrashes
    /\ crashes' = crashes + 1
    /\ \E dead \in SUBSET Procs :
          /\ Kafka \/ dead = Procs
          /\ proc' = [p \in Procs |-> IF p \in dead THEN Idle ELSE proc[p]]
    /\ inbox' = IF Kafka THEN inbox ELSE {}
    /\ UNCHANGED <<db, failed, requests>>

Init ==
    /\ tickets = [t \in Tickets |-> None]
    /\ latest = [t \in Tickets |-> None]
    /\ autoRuns = [t \in Tickets |-> 0]
    /\ failed = {}
    /\ deptState = [d \in Departments |->
                       IF d = General \/ d \in DOMAIN Seeded THEN "live" ELSE "unborn"]
    /\ category = [d \in Departments |->
                      IF d \in DOMAIN Seeded THEN Seeded[d] ELSE None]
    /\ team = [s \in Staff |-> None]
    /\ inbox = {}
    /\ proc = [p \in Procs |-> Idle]
    /\ requests = 0
    /\ crashes = 0

Analysis(p) == Classify(p) \/ Store(p) \/ Apply(p)

ConsumerStep(w) ==
    \/ \E t \in Tickets : Consume(w, t) \/ SkipAnalyzed(w, t)
    \/ Load(w)
    \/ Analysis(w)

TicketRequest(h) ==
    \/ \E t \in Tickets :
          \/ \E c \in Customers : CreateTicket(h, t, c)
          \/ Rerun(h, t)
          \/ \E patch \in Patches : StartPatch(h, t, patch)
          \/ \E a \in Staff \cup {None} : StartAssign(h, t, a)
    \/ PublishCreated(h) \/ DropCreated(h)
    \/ ReadLatest(h) \/ WritePatch(h) \/ WriteAssign(h)
    \/ Analysis(h)

DepartmentRequest(h) ==
    \/ \E d \in Departments :
          \/ \E c \in Categories \cup {None} :
                CreateDepartment(h, d, c) \/ StartUpdateDepartment(h, d, c)
          \/ StartDeleteDepartment(h, d)
    \/ \E s \in Staff, d \in Departments \cup {None} : AssignStaff(h, s, d)
    \/ WriteDepartment(h) \/ ReassignTickets(h) \/ DropDepartment(h)

Next ==
    \/ \E w \in Consumers : ConsumerStep(w)
    \/ \E h \in Handlers : TicketRequest(h) \/ DepartmentRequest(h)
    \/ \E p \in Procs : Abort(p)
    \/ Crash

Spec == Init /\ [][Next]_vars

(* The dispatcher goroutine keeps running while it has work. *)
Fairness == \A w \in Consumers : WF_vars(ConsumerStep(w))
FairSpec == Spec /\ Fairness

-----------------------------------------------------------------------------
(* Properties. *)

(* Every variable has the shape of its table or struct, and a goroutine    *)
(* holds exactly the locals its next statement needs.                      *)
TypeOK ==
    /\ tickets \in [Tickets -> TicketRow \cup {None}]
    /\ latest \in [Tickets -> Prediction \cup {None}]
    /\ autoRuns \in [Tickets -> Nat]
    /\ failed \in SUBSET Tickets
    /\ deptState \in [Departments -> {"unborn", "live", "deleted"}]
    /\ category \in [Departments -> Categories \cup {None}]
    /\ team \in [Staff -> Departments \cup {None}]
    /\ inbox \in SUBSET Tickets
    /\ proc \in [Procs -> ProcState]
    /\ requests \in 0..MaxRequests
    /\ crashes \in 0..MaxCrashes

(* Whatever requests race with DeleteDepartment, no ticket, prediction or  *)
(* roster entry is left pointing at a department that is gone, and the     *)
(* default department is always there to fall back to.                     *)
NoDanglingDepartment ==
    /\ Live(General)
    /\ \A t \in Tickets :
          /\ tickets[t] # None => Live(tickets[t].department)
          /\ latest[t] # None => latest[t].department = None
                                 \/ Live(latest[t].department)
    /\ \A s \in Staff : team[s] = None \/ Live(team[s])

(* Two departments never answer for the same category, so mapCategory is   *)
(* deterministic although both writers only check before they write.       *)
RoutingDeterministic ==
    \A c \in Categories, d, e \in Departments :
        Claims(d, c) /\ Claims(e, c) => d = e

StampMatches(row) == row.resolvedAt <=> row.status = "resolved"

(* resolved_at is set exactly on resolved tickets, also when writers with  *)
(* stale copies overwrite one another's status.                            *)
ResolvedStampMatchesStatus ==
    \A t \in Tickets : tickets[t] # None => StampMatches(tickets[t])

Overridden(row) == row.priorityOverridden \/ row.departmentOverridden

(* An override flag is set only against a prediction: no flag on a ticket  *)
(* that has no analysis, which the accept rate would count.                *)
OverrideNeedsAnalysis ==
    \A t \in Tickets :
        tickets[t] # None => (Overridden(tickets[t]) => latest[t] # None)

(* The consumer writes at most one analysis per ticket. *)
AnalyzedOnce == \A t \in Tickets : autoRuns[t] <= 1

(* p is about to publish the event of ticket t, or consumes it and has     *)
(* not stored an analysis yet.                                             *)
Carries(p, t) ==
    /\ proc[p].ticket = t
    /\ \/ proc[p].pc = "publish"
       \/ p \in Consumers /\ proc[p].pc \in {"load", "classify", "store"}

(* On the in-process bus the event of a ticket is in one place only: with  *)
(* the handler that will publish it, in the channel, or with one consumer; *)
(* and as long as it is there the ticket has no automatic analysis.        *)
OneCarrier ==
    /\ \A t \in inbox, p \in Procs : ~Carries(p, t)
    /\ \A t \in Tickets, p, q \in Procs : Carries(p, t) /\ Carries(q, t) => p = q
    /\ \A t \in Tickets :
          tickets[t] = None \/ t \in inbox \/ (\E p \in Procs : Carries(p, t))
             => autoRuns[t] = 0

Quiet == \A p \in Procs : proc[p].pc = "idle"

(* Once everything has settled, an analyzed ticket carries the latest      *)
(* prediction in every field that is not marked as overridden.             *)
PredictionReachesTicket ==
    Quiet => \A t \in Tickets : tickets[t] # None /\ latest[t] # None =>
        /\ tickets[t].priorityOverridden \/ tickets[t].priority = latest[t].priority
        /\ \/ tickets[t].departmentOverridden
           \/ latest[t].department \in {None, tickets[t].department}

(* What makes the properties above inductive: queued events and running    *)
(* use cases name existing tickets, a stale copy of a row is as            *)
(* consistent as the row it was read from, and a department on its way     *)
(* out is not the default one.                                             *)
FrameSound(s) ==
    /\ s.ticket # None => tickets[s.ticket] # None
    /\ s.row # None => /\ StampMatches(s.row)
                       /\ Overridden(s.row) => latest[s.ticket] # None
    /\ s.pc = "patch" /\ s.pred # None => latest[s.ticket] # None
    /\ s.pc \in {"reassign", "drop"} => s.dept # General

LocalsSound ==
    /\ \A t \in inbox : tickets[t] # None
    /\ \A p \in Procs : FrameSound(proc[p])
    /\ \A w \in Consumers :
          proc[w].pc \in {"idle", "load", "classify", "store", "apply"}

(* The conjunction that every step preserves. *)
SafetyInv ==
    /\ TypeOK
    /\ LocalsSound
    /\ NoDanglingDepartment
    /\ RoutingDeterministic
    /\ ResolvedStampMatchesStatus
    /\ OverrideNeedsAnalysis

(* Process p finishes at statement s in this step. *)
Finishes(p, s) == proc[p].pc = s /\ proc'[p].pc = "idle"

(* Applying a prediction never changes a field that is marked as           *)
(* overridden at that moment, nor the mark.                                *)
HumanDecisionSurvives ==
    [][\A p \in Procs : Finishes(p, "apply") =>
          LET old == tickets[proc[p].ticket]  new == tickets'[proc[p].ticket] IN
          /\ old.priorityOverridden =>
                new.priorityOverridden /\ new.priority = old.priority
          /\ old.departmentOverridden =>
                new.departmentOverridden /\ new.department = old.department]_vars

(* A customer's patch reopens the ticket and changes nothing else. *)
CustomerOnlyReopens ==
    [][\A p \in Procs :
          Finishes(p, "patch") /\ proc[p].patch.by # None =>
          LET old == tickets[proc[p].ticket]  new == tickets'[proc[p].ticket] IN
          new # old => /\ IsResolved(old)
                       /\ new = [old EXCEPT !.status = "open", !.resolvedAt = FALSE]]_vars

(* Every delivered ticket.created event is dealt with: the ticket is       *)
(* analyzed or its failure is counted.                                     *)
DeliveredIsHandled ==
    \A t \in Tickets : (t \in inbox) ~> (latest[t] # None \/ t \in failed)

=============================================================================
