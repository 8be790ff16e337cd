-------------------------- MODULE TriageModeProofs --------------------------
(***************************************************************************)
(* What holds of the triage core in particular modes, for every number of  *)
(* tickets, departments, goroutines and requests.                          *)
(*                                                                         *)
(* On the in-process bus (Kafka = FALSE) no ticket is analyzed twice       *)
(* automatically, whatever fails.  The argument follows the one            *)
(* ticket.created event of a ticket: from the handler that inserted the    *)
(* row to the channel to one consumer, which gives it up when it stores    *)
(* the analysis.                                                           *)
(*                                                                         *)
(* With one use case after another (Overlap = FALSE) the copies of rows    *)
(* that use cases carry from their first statement to their last are       *)
(* fresh.  What a human decided then survives, and a customer only         *)
(* reopens, whatever fails or crashes; and when nothing fails, the latest  *)
(* prediction reaches the ticket.                                          *)
(***************************************************************************)
EXTENDS TriageProofs

-----------------------------------------------------------------------------
(* The in-process bus. *)

(* At most one analysis, and the event that leads to it in one place. *)
OnceInv == OneCarrier /\ AnalyzedOnce

(* A step that hands the event to nobody new and writes no analysis. *)
LEMMA NobodyNew ==
    ASSUME SafetyInv, OnceInv, inbox' \subseteq inbox, autoRuns' = autoRuns,
           \A t \in Tickets : tickets[t] # None => tickets'[t] # None,
           \A p \in Procs, t \in Tickets : Carries(p, t)' => Carries(p, t)
    PROVE  OnceInv'
<1>1. inbox \subseteq Tickets
  BY DEF SafetyInv, TypeOK
<1>2. \A t \in inbox', p \in Procs : ~Carries(p, t)'
  BY <1>1 DEF OnceInv, OneCarrier
<1>3. \A t \in Tickets, p, q \in Procs : Carries(p, t)' /\ Carries(q, t)' => p = q
  BY DEF OnceInv, OneCarrier
<1>4. \A t \in Tickets :
         tickets'[t] = None \/ t \in inbox' \/ (\E p \in Procs : Carries(p, t)')
            => autoRuns'[t] = 0
  BY DEF OnceInv, OneCarrier
<1>5. AnalyzedOnce'
  BY DEF OnceInv, AnalyzedOnce
<1> QED
  BY <1>2, <1>3, <1>4, <1>5 DEF OnceInv, OneCarrier

(* What Carries says after goroutine p moved to local state s. *)
LEMMA Moved ==
    ASSUME SafetyInv, NEW p \in Procs, NEW s, proc' = [proc EXCEPT ![p] = s]
    PROVE  /\ proc'[p] = s
           /\ \A q \in Procs \ {p}, t \in Tickets : Carries(q, t)' <=> Carries(q, t)
BY DEF SafetyInv, TypeOK, Carries

(* A step of one goroutine that does not pick an event up. *)
LEMMA QuietStep ==
    ASSUME SafetyInv, OnceInv, inbox' \subseteq inbox, autoRuns' = autoRuns,
           \A t \in Tickets : tickets[t] # None => tickets'[t] # None,
           NEW p \in Procs, NEW s, proc' = [proc EXCEPT ![p] = s],
           \/ s.pc \notin {"publish", "load", "classify", "store"}
           \/ p \notin Consumers /\ s.pc # "publish"
           \/ p \in Consumers /\ s.ticket = proc[p].ticket
              /\ proc[p].pc \in {"load", "classify", "store"}
    PROVE  OnceInv'
<1>1. proc'[p] = s
  BY Moved
<1>2. \A t \in Tickets : Carries(p, t)' => Carries(p, t)
  BY <1>1 DEF Carries
<1>3. \A q \in Procs, t \in Tickets : Carries(q, t)' => Carries(q, t)
  BY <1>2, Moved
<1> QED
  BY <1>3, NobodyNew

(* A use case ends, having written the row of a ticket or nothing. *)
LEMMA QuietEnd ==
    ASSUME SafetyInv, OnceInv, NEW p \in Procs, Succeed(p) \/ Fail(p),
           autoRuns' = autoRuns,
           \A t \in Tickets : tickets[t] # None => tickets'[t] # None
    PROVE  OnceInv'
<1>1. proc' = [proc EXCEPT ![p] = Idle] /\ inbox' \subseteq inbox
  BY DEF Succeed, Fail, Become, Ack
<1>2. Idle.pc = "idle"
  BY DEF Idle
<1> QED
  BY <1>1, <1>2, QuietStep

(* TicketRepo.Update, done or refused. *)
LEMMA QuietWrite ==
    ASSUME SafetyInv, OnceInv, NEW p \in Procs, NEW row \in TicketRow,
           WriteRow(p, row)
    PROVE  OnceInv'
<1>1. row # None
  BY TriageConstants
<1>2. /\ autoRuns' = autoRuns
      /\ \A t \in Tickets : tickets[t] # None => tickets'[t] # None
      /\ Succeed(p) \/ Fail(p)
  BY <1>1 DEF WriteRow, Respond, db, SafetyInv, TypeOK
<1> QED
  BY <1>2, QuietEnd

(* The event is created with the ticket and published once. *)
LEMMA OnceCreate ==
    ASSUME SafetyInv, OnceInv, NEW h \in Handlers,
           \/ \E t \in Tickets, c \in Customers : CreateTicket(h, t, c)
           \/ PublishCreated(h)
           \/ DropCreated(h)
    PROVE  OnceInv'
<1>0. h \in Procs
  BY DEF Procs
<1>1. ASSUME NEW t \in Tickets, NEW c \in Customers, CreateTicket(h, t, c)
      PROVE  OnceInv'
  <2> DEFINE s == OnTicket("publish", t, None)
  <2>1. /\ tickets[t] = None /\ tickets' = [tickets EXCEPT ![t] = NewTicket(c)]
        /\ proc' = [proc EXCEPT ![h] = s]
        /\ autoRuns' = autoRuns /\ inbox' = inbox
    BY <1>1 DEF CreateTicket, Become
  <2>2. s.pc = "publish" /\ s.ticket = t
    BY DEF OnTicket, Idle
  <2> HIDE DEF s
  <2>3. proc'[h] = s /\ \A q \in Procs \ {h}, u \in Tickets : Carries(q, u)' <=> Carries(q, u)
    BY <1>0, <2>1, Moved
  <2>4. \A u \in Tickets : Carries(h, u)' => u = t
    BY <2>2, <2>3 DEF Carries
  <2>5. t \notin inbox /\ \A q \in Procs : ~Carries(q, t)
    BY <2>1, TriageConstants DEF SafetyInv, LocalsSound, FrameSound, Carries
  <2>6. \A u \in Tickets : tickets[u] # None => tickets'[u] # None
    BY <2>1, NewTicketSound, TriageConstants DEF SafetyInv, TypeOK
  <2>7. autoRuns[t] = 0
    BY <2>1 DEF OnceInv, OneCarrier
  <2>8. inbox \subseteq Tickets
    BY DEF SafetyInv, TypeOK
  <2>9. \A u \in inbox', q \in Procs : ~Carries(q, u)'
    BY <2>1, <2>3, <2>4, <2>5, <2>8 DEF OnceInv, OneCarrier
  <2>10. \A u \in Tickets, q, r \in Procs : Carries(q, u)' /\ Carries(r, u)' => q = r
    BY <2>3, <2>4, <2>5 DEF OnceInv, OneCarrier
  <2>11. \A u \in Tickets :
           tickets'[u] = None \/ u \in inbox' \/ (\E q \in Procs : Carries(q, u)')
              => autoRuns'[u] = 0
    BY <2>1, <2>3, <2>4, <2>6, <2>7 DEF OnceInv, OneCarrier
  <2>12. AnalyzedOnce'
    BY <2>1 DEF OnceInv, AnalyzedOnce
  <2> QED
    BY <2>9, <2>10, <2>11, <2>12 DEF OnceInv, OneCarrier
<1>2. ASSUME PublishCreated(h) PROVE OnceInv'
  <2> DEFINE t == proc[h].ticket
  <2>1. /\ proc[h].pc = "publish" /\ proc' = [proc EXCEPT ![h] = Idle]
        /\ inbox' = inbox \cup {t} /\ tickets' = tickets /\ autoRuns' = autoRuns
    BY <1>2 DEF PublishCreated, Become, db
  <2>2. t \in Tickets /\ Carries(h, t)
    BY <1>0, <2>1, ProcFields DEF SafetyInv, TypeOK, Carries
  <2> HIDE DEF t
  <2>3. proc'[h] = Idle /\ \A q \in Procs \ {h}, u \in Tickets : Carries(q, u)' <=> Carries(q, u)
    BY <1>0, <2>1, Moved
  <2>4. \A u \in Tickets : ~Carries(h, u)'
    BY <2>3 DEF Carries, Idle
  <2>5. inbox \subseteq Tickets
    BY DEF SafetyInv, TypeOK
  <2>6. \A u \in inbox', q \in Procs : ~Carries(q, u)'
    BY <1>0, <2>1, <2>2, <2>3, <2>4, <2>5 DEF OnceInv, OneCarrier
  <2>7. \A u \in Tickets, q, r \in Procs : Carries(q, u)' /\ Carries(r, u)' => q = r
    BY <2>3, <2>4 DEF OnceInv, OneCarrier
  <2>8. \A u \in Tickets :
           tickets'[u] = None \/ u \in inbox' \/ (\E q \in Procs : Carries(q, u)')
              => autoRuns'[u] = 0
    BY <1>0, <2>1, <2>2, <2>3, <2>4 DEF OnceInv, OneCarrier
  <2>9. AnalyzedOnce'
    BY <2>1 DEF OnceInv, AnalyzedOnce
  <2> QED
    BY <2>6, <2>7, <2>8, <2>9 DEF OnceInv, OneCarrier
<1>3. ASSUME DropCreated(h) PROVE OnceInv'
  <2>1. /\ proc' = [proc EXCEPT ![h] = Idle] /\ inbox' = inbox
        /\ tickets' = tickets /\ autoRuns' = autoRuns
    BY <1>3 DEF DropCreated, Become, db
  <2>2. Idle.pc = "idle"
    BY DEF Idle
  <2> QED
    BY <1>0, <2>1, <2>2, QuietStep
<1> QED
  BY <1>1, <1>2, <1>3

(* The channel hands the event to one consumer and forgets it. *)
LEMMA OnceDelivery ==
    ASSUME SafetyInv, OnceInv, ~Kafka, NEW w \in Consumers,
           \/ \E t \in Tickets : Consume(w, t) \/ SkipAnalyzed(w, t)
           \/ Load(w)
    PROVE  OnceInv'
<1>0. w \in Procs
  BY DEF Procs
<1>1. ASSUME NEW t \in Tickets, Consume(w, t) PROVE OnceInv'
  <2> DEFINE s == OnTicket("load", t, None)
  <2>1. /\ t \in inbox /\ inbox' = inbox \ {t} /\ proc' = [proc EXCEPT ![w] = s]
        /\ tickets' = tickets /\ autoRuns' = autoRuns
    BY <1>1 DEF Consume, Become, db
  <2>2. s.pc = "load" /\ s.ticket = t
    BY DEF OnTicket, Idle
  <2> HIDE DEF s
  <2>3. proc'[w] = s /\ \A q \in Procs \ {w}, u \in Tickets : Carries(q, u)' <=> Carries(q, u)
    BY <1>0, <2>1, Moved
  <2>4. \A u \in Tickets : Carries(w, u)' => u = t
    BY <2>2, <2>3 DEF Carries
  <2>5. inbox \subseteq Tickets
    BY DEF SafetyInv, TypeOK
  <2>6. \A u \in inbox', q \in Procs : ~Carries(q, u)'
    BY <2>1, <2>3, <2>4, <2>5 DEF OnceInv, OneCarrier
  <2>7. \A u \in Tickets, q, r \in Procs : Carries(q, u)' /\ Carries(r, u)' => q = r
    BY <2>1, <2>3, <2>4 DEF OnceInv, OneCarrier
  <2>8. \A u \in Tickets :
           tickets'[u] = None \/ u \in inbox' \/ (\E q \in Procs : Carries(q, u)')
              => autoRuns'[u] = 0
    BY <2>1, <2>3, <2>4 DEF OnceInv, OneCarrier
  <2>9. AnalyzedOnce'
    BY <2>1 DEF OnceInv, AnalyzedOnce
  <2> QED
    BY <2>6, <2>7, <2>8, <2>9 DEF OnceInv, OneCarrier
<1>2. ASSUME NEW t \in Tickets, SkipAnalyzed(w, t) PROVE OnceInv'
  <2>1. proc' = proc /\ inbox' \subseteq inbox /\ tickets' = tickets /\ autoRuns' = autoRuns
    BY <1>2 DEF SkipAnalyzed, db
  <2> QED
    BY <2>1, NobodyNew DEF Carries
<1>3. ASSUME Load(w) PROVE OnceInv'
  <2> DEFINE s == OnTicket("classify", proc[w].ticket, tickets[proc[w].ticket])
  <2>1. /\ proc[w].pc = "load" /\ proc' = [proc EXCEPT ![w] = s] /\ inbox' = inbox
        /\ tickets' = tickets /\ autoRuns' = autoRuns
    BY <1>3 DEF Load, Become, db
  <2>2. s.ticket = proc[w].ticket
    BY DEF OnTicket, Idle
  <2> HIDE DEF s
  <2> QED
    BY <1>0, <2>1, <2>2, QuietStep
<1> QED
  BY <1>1, <1>2, <1>3

(* Storing the analysis uses the event up. *)
LEMMA OnceAnalysis ==
    ASSUME SafetyInv, OnceInv, NEW p \in Procs, Analysis(p)
    PROVE  OnceInv'
<1>0. proc[p] \in ProcState /\ FrameSound(proc[p])
  BY DEF SafetyInv, TypeOK, LocalsSound
<1>1. ASSUME Classify(p) PROVE OnceInv'
  <2>1. PICK v \in Priorities, c \in Categories :
           Become(p, [proc[p] EXCEPT
                        !.pc = "store",
                        !.pred = [priority |-> v, department |-> Routed(c),
                                  fallback |-> ~Claimed(c)]])
    BY <1>1 DEF Classify
  <2> DEFINE r == [priority |-> v, department |-> Routed(c), fallback |-> ~Claimed(c)]
             s == [proc[p] EXCEPT !.pc = "store", !.pred = r]
  <2>2. s.ticket = proc[p].ticket /\ s.pc = "store"
    BY <1>0 DEF ProcState, Frame
  <2>3. /\ proc[p].pc = "classify" /\ proc' = [proc EXCEPT ![p] = s]
        /\ inbox' = inbox /\ tickets' = tickets /\ autoRuns' = autoRuns
    BY <1>1, <2>1 DEF Classify, Become, db
  <2> HIDE DEF s
  <2> QED
    BY <2>2, <2>3, QuietStep
<1>2. ASSUME Store(p) PROVE OnceInv'
  <2> DEFINE s == [proc[p] EXCEPT !.pc = "apply"]
  <2>0. PICK t \in Tickets : proc[p].pc = "store" /\ t = proc[p].ticket
    BY <1>0, <1>2, ProcFields DEF Store
  <2>1. CASE ~Live(proc[p].pred.department)
    BY <1>2, <2>1, QuietEnd DEF Store, db
  <2>2. CASE Live(proc[p].pred.department)
    <3>1. /\ autoRuns' = IF p \in Consumers
                         THEN [autoRuns EXCEPT ![t] = @ + 1] ELSE autoRuns
          /\ proc' = [proc EXCEPT ![p] = s]
          /\ tickets' = tickets /\ inbox' = inbox
      BY <1>2, <2>0, <2>2 DEF Store, Become
    <3>2. s.pc = "apply"
      BY <1>0 DEF ProcState, Frame
    <3> HIDE DEF s
    <3>3. CASE p \notin Consumers
      BY <3>1, <3>2, <3>3, QuietStep
    <3>4. CASE p \in Consumers
      <4>1. Carries(p, t)
        BY <2>0, <3>4 DEF Carries
      <4>2. autoRuns[t] = 0 /\ t \notin inbox /\ tickets[t] # None
        BY <1>0, <2>0, <4>1, TriageConstants DEF OnceInv, OneCarrier, FrameSound
      <4>3. proc'[p] = s /\ \A q \in Procs \ {p}, u \in Tickets : Carries(q, u)' <=> Carries(q, u)
        BY <3>1, Moved
      <4>4. \A u \in Tickets : ~Carries(p, u)'
        BY <3>2, <4>3 DEF Carries
      <4>5. \A q \in Procs : ~Carries(q, t)'
        BY <2>0, <4>1, <4>3, <4>4 DEF OnceInv, OneCarrier
      <4>6. /\ autoRuns'[t] = 1
            /\ \A u \in Tickets \ {t} : autoRuns'[u] = autoRuns[u]
        BY <2>0, <3>1, <3>4, <4>2 DEF SafetyInv, TypeOK
      <4>7. \A u \in inbox', q \in Procs : ~Carries(q, u)'
        BY <3>1, <4>3, <4>4 DEF OnceInv, OneCarrier, SafetyInv, TypeOK
      <4>8. \A u \in Tickets, q, r \in Procs : Carries(q, u)' /\ Carries(r, u)' => q = r
        BY <4>3, <4>4 DEF OnceInv, OneCarrier
      <4>9. \A u \in Tickets :
               tickets'[u] = None \/ u \in inbox' \/ (\E q \in Procs : Carries(q, u)')
                  => autoRuns'[u] = 0
        BY <3>1, <4>2, <4>3, <4>4, <4>5, <4>6 DEF OnceInv, OneCarrier
      <4>10. AnalyzedOnce'
        BY <4>6 DEF OnceInv, AnalyzedOnce
      <4> QED
        BY <4>7, <4>8, <4>9, <4>10 DEF OnceInv, OneCarrier
    <3> QED
      BY <3>3, <3>4
  <2> QED
    BY <2>1, <2>2
<1>3. ASSUME Apply(p) PROVE OnceInv'
  <2> DEFINE new == ApplyPrediction(proc[p].row, proc[p].pred)
  <2>1. new \in TicketRow
    BY <1>0, <1>3, ProcFields, ApplySound DEF Apply
  <2>2. \/ WriteRow(p, new)
        \/ UNCHANGED db /\ (Succeed(p) \/ Fail(p))
    BY <1>3 DEF Apply, Respond
  <2> HIDE DEF new
  <2> QED
    BY <2>1, <2>2, QuietWrite, QuietEnd DEF db
<1> QED
  BY <1>1, <1>2, <1>3 DEF Analysis

(* No other request touches the event. *)
LEMMA OnceRequest ==
    ASSUME SafetyInv, OnceInv, NEW h \in Handlers,
           \/ \E t \in Tickets :
                 \/ Rerun(h, t)
                 \/ \E patch \in Patches : StartPatch(h, t, patch)
                 \/ \E a \in Staff \cup {None} : StartAssign(h, t, a)
           \/ ReadLatest(h) \/ WritePatch(h) \/ WriteAssign(h)
    PROVE  OnceInv'
<1>0. h \in Procs /\ h \notin Consumers /\ proc[h] \in ProcState
  BY TriageConstants DEF Procs, SafetyInv, TypeOK
<1>1. ASSUME NEW t \in Tickets, Rerun(h, t) PROVE OnceInv'
  <2>1. OnTicket("classify", t, tickets[t]).pc = "classify"
    BY DEF OnTicket, Idle
  <2> QED
    BY <1>0, <1>1, <2>1, QuietStep DEF Rerun, Become, db
<1>2. ASSUME NEW t \in Tickets, NEW patch \in Patches, StartPatch(h, t, patch)
      PROVE  OnceInv'
  <2>1. [OnTicket("latest", t, tickets[t]) EXCEPT !.patch = patch].pc = "latest"
    BY DEF OnTicket, Idle
  <2> QED
    BY <1>0, <1>2, <2>1, QuietStep DEF StartPatch, Become, db
<1>3. ASSUME NEW t \in Tickets, NEW a \in Staff \cup {None}, StartAssign(h, t, a)
      PROVE  OnceInv'
  <2>1. OnTicket("assign", t, [tickets[t] EXCEPT !.assignee = a]).pc = "assign"
    BY DEF OnTicket, Idle
  <2> QED
    BY <1>0, <1>3, <2>1, QuietStep DEF StartAssign, Become, db
<1>4. ASSUME ReadLatest(h) PROVE OnceInv'
  <2>1. [proc[h] EXCEPT !.pc = "patch", !.pred = latest[proc[h].ticket]].pc = "patch"
    BY <1>0 DEF ProcState, Frame
  <2> QED
    BY <1>0, <1>4, <2>1, QuietStep DEF ReadLatest, Become, db
<1>5. ASSUME WritePatch(h) PROVE OnceInv'
  <2>1. Patched(proc[h].row, proc[h].patch, proc[h].pred) \in TicketRow
    BY <1>0, <1>5, ProcFields, PatchedSound DEF WritePatch
  <2> QED
    BY <1>0, <1>5, <2>1, QuietWrite DEF WritePatch
<1>6. ASSUME WriteAssign(h) PROVE OnceInv'
  <2>1. proc[h].row \in TicketRow
    BY <1>0, <1>6, ProcFields DEF WriteAssign
  <2> QED
    BY <1>0, <1>6, <2>1, QuietWrite DEF WriteAssign
<1> QED
  BY <1>1, <1>2, <1>3, <1>4, <1>5, <1>6

(* Nor does the administration of departments. *)
LEMMA OnceDepartment ==
    ASSUME SafetyInv, OnceInv, NEW h \in Handlers, DepartmentRequest(h)
    PROVE  OnceInv'
<1>0. h \in Procs /\ h \notin Consumers /\ proc[h] \in ProcState
  BY TriageConstants DEF Procs, SafetyInv, TypeOK
<1>1. ASSUME NEW d \in Departments, NEW c \in Categories \cup {None},
             CreateDepartment(h, d, c)
      PROVE  OnceInv'
  BY <1>1, NobodyNew DEF CreateDepartment, Carries
<1>2. ASSUME NEW s \in Staff, NEW d \in Departments \cup {None}, AssignStaff(h, s, d)
      PROVE  OnceInv'
  BY <1>2, NobodyNew DEF AssignStaff, Carries
<1>3. ASSUME NEW d \in Departments, NEW c \in Categories \cup {None},
             StartUpdateDepartment(h, d, c)
      PROVE  OnceInv'
  <2>1. OnDept("redept", d, c).pc = "redept"
    BY DEF OnDept, Idle
  <2> QED
    BY <1>0, <1>3, <2>1, QuietStep DEF StartUpdateDepartment, Become, db
<1>4. ASSUME NEW d \in Departments, StartDeleteDepartment(h, d) PROVE OnceInv'
  <2>1. OnDept("reassign", d, None).pc = "reassign"
    BY DEF OnDept, Idle
  <2> QED
    BY <1>0, <1>4, <2>1, QuietStep DEF StartDeleteDepartment, Become, db
<1>5. ASSUME WriteDepartment(h) PROVE OnceInv'
  <2>1. /\ autoRuns' = autoRuns /\ tickets' = tickets
        /\ Succeed(h) \/ Fail(h)
    BY <1>5 DEF WriteDepartment, db
  <2> QED
    BY <1>0, <2>1, QuietEnd
<1>6. ASSUME ReassignTickets(h) PROVE OnceInv'
  <2>1. /\ autoRuns' = autoRuns /\ inbox' = inbox
        /\ proc' = [proc EXCEPT ![h] = [proc[h] EXCEPT !.pc = "drop"]]
    BY <1>6 DEF ReassignTickets, Become
  <2>2. [proc[h] EXCEPT !.pc = "drop"].pc = "drop"
    BY <1>0 DEF ProcState, Frame
  <2>3. ASSUME NEW t \in Tickets, tickets[t] # None PROVE tickets'[t] # None
    <3>1. tickets[t] \in TicketRow /\ [tickets[t] EXCEPT !.department = General] \in TicketRow
      BY <2>3, TriageConstants DEF SafetyInv, TypeOK, TicketRow
    <3> QED
      BY <1>6, <2>3, <3>1, TriageConstants DEF ReassignTickets
  <2> QED
    BY <1>0, <2>1, <2>2, <2>3, QuietStep
<1>7. ASSUME DropDepartment(h) PROVE OnceInv'
  <2>1. /\ autoRuns' = autoRuns /\ tickets' = tickets
        /\ Succeed(h) \/ Fail(h)
    BY <1>7 DEF DropDepartment, db
  <2> QED
    BY <1>0, <2>1, QuietEnd
<1> QED
  BY <1>1, <1>2, <1>3, <1>4, <1>5, <1>6, <1>7 DEF DepartmentRequest

(* Failures and crashes lose the event, they do not copy it. *)
LEMMA OnceFault ==
    ASSUME SafetyInv, OnceInv, (\E p \in Procs : Abort(p)) \/ Crash
    PROVE  OnceInv'
<1>1. ASSUME NEW p \in Procs, Abort(p) PROVE OnceInv'
  BY <1>1, QuietEnd DEF Abort, db
<1>2. ASSUME Crash PROVE OnceInv'
  <2>1. \A p \in Procs, t \in Tickets : Carries(p, t)' => Carries(p, t)
    BY <1>2 DEF Crash, Carries, Idle
  <2>2. inbox' \subseteq inbox /\ autoRuns' = autoRuns /\ tickets' = tickets
    BY <1>2 DEF Crash, db
  <2> QED
    BY <2>1, <2>2, NobodyNew
<1> QED
  BY <1>1, <1>2

(* At the start there is no event and no analysis. *)
LEMMA OnceInit == Init => OnceInv
BY DEF Init, OnceInv, OneCarrier, AnalyzedOnce, Carries, Idle, Procs

(* On the in-process bus every step keeps the event in one place. *)
LEMMA OnceStep ==
    ASSUME ~Kafka, SafetyInv, OnceInv, [Next]_vars
    PROVE  OnceInv'
<1>1. CASE UNCHANGED vars
  BY <1>1, NobodyNew DEF vars, Carries
<1>2. ASSUME NEW w \in Consumers, ConsumerStep(w) PROVE OnceInv'
  <2>1. w \in Procs
    BY DEF Procs
  <2> QED
    BY <1>2, <2>1, OnceDelivery, OnceAnalysis DEF ConsumerStep
<1>3. ASSUME NEW h \in Handlers, TicketRequest(h) PROVE OnceInv'
  <2>1. h \in Procs
    BY DEF Procs
  <2> QED
    BY <1>3, <2>1, OnceCreate, OnceRequest, OnceAnalysis DEF TicketRequest
<1> QED
  BY <1>1, <1>2, <1>3, OnceDepartment, OnceFault DEF Next

(* The in-process bus and the consumer together analyze a ticket at most   *)
(* once, even when HasAnalysis misreads a failing query as "no analysis".  *)
(* On Kafka this does not hold.                                            *)
THEOREM AnalyzedAtMostOnce == ASSUME ~Kafka PROVE Spec => []AnalyzedOnce
<1>1. OnceInv => AnalyzedOnce
  BY DEF OnceInv
<1>2. SafetyInv /\ OnceInv /\ [Next]_vars => OnceInv'
  BY OnceStep
<1> QED
  BY <1>1, <1>2, OnceInit, SafetyInvariant, PTL DEF Spec

(* The event of a ticket is never in two places at once. *)
THEOREM EventHasOneCarrier == ASSUME ~Kafka PROVE Spec => []OneCarrier
<1>1. OnceInv => OneCarrier
  BY DEF OnceInv
<1>2. SafetyInv /\ OnceInv /\ [Next]_vars => OnceInv'
  BY OnceStep
<1> QED
  BY <1>1, <1>2, OnceInit, SafetyInvariant, PTL DEF Spec

-----------------------------------------------------------------------------
(* One goroutine at work, with fresh copies. *)

(* Nobody but p is in the middle of a use case. *)
Alone(p) == \A q \in Procs : proc[q].pc = "idle" \/ q = p

(* The row that a use case has read is the row that is there. *)
FreshCopy(s, rows) ==
    /\ s.pc \in {"classify", "store", "apply", "latest", "patch"} => s.row = rows[s.ticket]
    /\ s.pc = "assign" =>
          \E a \in Staff \cup {None} : s.row = [rows[s.ticket] EXCEPT !.assignee = a]
    /\ s.pc \in {"latest", "patch"} => Allowed(s.row, s.patch)

(* The strengthening for the serial schedule. *)
SerialInv ==
    /\ \A p \in Procs : proc[p].pc = "idle" \/ Alone(p)
    /\ \A p \in Procs : FreshCopy(proc[p], tickets)

-----------------------------------------------------------------------------
(* Nothing fails: what was read, checked and decided still holds when it   *)
(* is acted on.                                                            *)

StillTrue(s) ==
    /\ s.pc \in {"store", "apply"} => Live(s.pred.department)
    /\ s.pc = "apply" => latest[s.ticket] = s.pred
    /\ s.pc = "patch" => s.pred = latest[s.ticket]
    /\ s.pc \in {"reassign", "drop"} => Live(s.dept)
    /\ s.pc = "drop" => Unreferenced(s.dept)

PriorityReached(t) ==
    tickets[t].priorityOverridden \/ tickets[t].priority = latest[t].priority
DepartmentReached(t) ==
    \/ tickets[t].departmentOverridden
    \/ latest[t].department \in {None, tickets[t].department}

Applying(t) == \E p \in Procs : proc[p].pc = "apply" /\ proc[p].ticket = t
Leaving(d) == \E p \in Procs : proc[p].pc = "drop" /\ proc[p].dept = d

(* The prediction is in the ticket, on its way there, or of a department   *)
(* that is about to go.                                                    *)
Reached(t) ==
    /\ tickets[t] # None
    /\ \/ Applying(t)
       \/ /\ PriorityReached(t)
          /\ DepartmentReached(t) \/ Leaving(latest[t].department)

(* The strengthening for the schedule without failures. *)
ReachInv ==
    /\ \A p \in Procs : StillTrue(proc[p])
    /\ \A t \in Tickets : latest[t] # None => Reached(t)

-----------------------------------------------------------------------------
(* The serial schedule. *)

(* A use case begins when no other is under way. *)
LEMMA FreeAlone ==
    ASSUME ~Overlap, NEW p \in Procs, Free(p)
    PROVE  Alone(p) /\ proc[p].pc = "idle"
  BY DEF Free, Alone

(* Whoever is in the middle of a use case is alone.                        *)
LEMMA BusyAlone ==
    ASSUME SerialInv, NEW p \in Procs, proc[p].pc # "idle"
    PROVE  Alone(p)
  BY DEF SerialInv

(* The one goroutine at work moves on to a local state with a fresh copy. *)
LEMMA SerialMove ==
    ASSUME TypeOK, NEW p \in Procs, Alone(p), NEW s, proc' = [proc EXCEPT ![p] = s],
           FreshCopy(s, tickets')
    PROVE  SerialInv'
<1>1. proc'[p] = s /\ \A q \in Procs \ {p} : proc'[q] = proc[q] /\ proc'[q].pc = "idle"
  BY DEF TypeOK, Alone
<1>2. \A q \in Procs : proc'[q].pc = "idle" \/ Alone(q)'
  BY <1>1 DEF Alone
<1>3. \A q \in Procs \ {p} : FreshCopy(proc'[q], tickets')
  BY <1>1 DEF FreshCopy
<1>4. FreshCopy(proc'[p], tickets')
  BY <1>1 DEF FreshCopy
<1> QED
  BY <1>2, <1>3, <1>4 DEF SerialInv

(* Most statements keep no copy that must be fresh. *)
LEMMA CopyFree ==
    ASSUME NEW s, s.pc \in {"idle", "publish", "load", "redept", "reassign", "drop"}, NEW rows
    PROVE  FreshCopy(s, rows)
  BY DEF FreshCopy

(* The one goroutine at work finishes.                                     *)
LEMMA SerialEnd ==
    ASSUME TypeOK, NEW p \in Procs, Alone(p), Become(p, Idle)
    PROVE  SerialInv'
<1>1. FreshCopy(Idle, tickets')
  BY DEF Idle, FreshCopy
<1> QED
  BY <1>1, SerialMove DEF Become

(* Nobody moves, and no row changes. *)
LEMMA SerialKept ==
    ASSUME SerialInv, UNCHANGED <<proc, tickets>>
    PROVE  SerialInv'
  BY DEF SerialInv, Alone, FreshCopy

(* TicketRepo.Update is the last statement of its use case.                *)
LEMMA WriteEnds ==
    ASSUME NEW p, NEW row, WriteRow(p, row)
    PROVE  Become(p, Idle)
  BY DEF WriteRow, Respond, Succeed, Fail

(* The steps of the analysis. *)
LEMMA SerialAnalysis ==
    ASSUME SafetyInv, SerialInv, NEW p \in Procs, Analysis(p)
    PROVE  SerialInv'
<1>1. TypeOK /\ proc[p].pc # "idle" /\ Alone(p)
  BY BusyAlone DEF SafetyInv, Analysis, Classify, Store, Apply
<1>2. FreshCopy(proc[p], tickets) /\ proc[p] \in ProcState
  BY <1>1 DEF SerialInv, TypeOK
<1>3. CASE Classify(p)
  <2>1. PICK v \in Priorities, c \in Categories :
           proc' = [proc EXCEPT ![p] = [proc[p] EXCEPT
                      !.pc = "store",
                      !.pred = [priority |-> v, department |-> Routed(c),
                                fallback |-> ~Claimed(c)]]]
    BY <1>3 DEF Classify, Become
  <2> DEFINE s == [proc[p] EXCEPT !.pc = "store",
                                  !.pred = [priority |-> v, department |-> Routed(c),
                                            fallback |-> ~Claimed(c)]]
  <2>2. s.pc = "store" /\ s.row = proc[p].row /\ s.ticket = proc[p].ticket
    BY <1>2 DEF ProcState, Frame
  <2>3. proc[p].pc = "classify" /\ tickets' = tickets
    BY <1>3 DEF Classify, db
  <2> HIDE DEF s
  <2>4. FreshCopy(s, tickets')
    BY <1>2, <2>2, <2>3 DEF FreshCopy
  <2> QED
    BY <1>1, <2>1, <2>4, SerialMove DEF s
<1>4. CASE Store(p) /\ ~Become(p, Idle)
  <2> DEFINE s == [proc[p] EXCEPT !.pc = "apply"]
  <2>1. proc' = [proc EXCEPT ![p] = s] /\ proc[p].pc = "store" /\ tickets' = tickets
    BY <1>4 DEF Store, Become, Fail
  <2>2. s.pc = "apply" /\ s.row = proc[p].row /\ s.ticket = proc[p].ticket
    BY <1>2 DEF ProcState, Frame
  <2> HIDE DEF s
  <2>3. FreshCopy(s, tickets')
    BY <1>2, <2>1, <2>2 DEF FreshCopy
  <2> QED
    BY <1>1, <2>1, <2>3, SerialMove
<1>5. CASE Apply(p)
  <2>1. Become(p, Idle)
    BY <1>5, WriteEnds DEF Apply, Respond, Succeed, Fail
  <2> QED
    BY <1>1, <2>1, SerialEnd
<1> QED
  BY <1>1, <1>3, <1>4, <1>5, SerialEnd DEF Analysis

(* Creation and delivery. *)
LEMMA SerialDelivery ==
    ASSUME ~Overlap, SafetyInv, SerialInv, NEW p \in Procs, NEW t \in Tickets,
           \/ \E c \in Customers : CreateTicket(p, t, c)
           \/ PublishCreated(p) \/ DropCreated(p)
           \/ Consume(p, t) \/ SkipAnalyzed(p, t) \/ Load(p)
    PROVE  SerialInv'
<1>1. TypeOK
  BY DEF SafetyInv
<1>2. CASE \E c \in Customers : CreateTicket(p, t, c)
  <2>1. Alone(p) /\ proc' = [proc EXCEPT ![p] = OnTicket("publish", t, None)]
    BY <1>2, FreeAlone DEF CreateTicket, Accept, Become
  <2>2. FreshCopy(OnTicket("publish", t, None), tickets')
    BY DEF FreshCopy, OnTicket, Idle
  <2> QED
    BY <1>1, <2>1, <2>2, SerialMove
<1>3. CASE PublishCreated(p) \/ DropCreated(p)
  <2>1. proc[p].pc # "idle" /\ Become(p, Idle)
    BY <1>3 DEF PublishCreated, DropCreated
  <2> QED
    BY <1>1, <2>1, BusyAlone, SerialEnd
<1>4. CASE Consume(p, t)
  <2>1. Alone(p) /\ proc' = [proc EXCEPT ![p] = OnTicket("load", t, None)]
    BY <1>4, FreeAlone DEF Consume, Become
  <2>2. FreshCopy(OnTicket("load", t, None), tickets')
    BY DEF FreshCopy, OnTicket, Idle
  <2> QED
    BY <1>1, <2>1, <2>2, SerialMove
<1>5. CASE SkipAnalyzed(p, t)
  BY <1>5, SerialKept DEF SkipAnalyzed, db
<1>6. CASE Load(p)
  <2> DEFINE u == proc[p].ticket
             s == OnTicket("classify", u, tickets[u])
  <2>1. /\ proc[p].pc # "idle" /\ proc' = [proc EXCEPT ![p] = s] /\ tickets' = tickets
    BY <1>6 DEF Load, Become, db
  <2>2. s.pc = "classify" /\ s.ticket = u /\ s.row = tickets[u]
    BY DEF OnTicket, Idle
  <2> HIDE DEF s, u
  <2>3. FreshCopy(s, tickets')
    BY <2>1, <2>2 DEF FreshCopy
  <2> QED
    BY <1>1, <2>1, <2>3, BusyAlone, SerialMove
<1> QED
  BY <1>2, <1>3, <1>4, <1>5, <1>6

(* The requests on a ticket. *)
LEMMA SerialRequest ==
    ASSUME ~Overlap, SafetyInv, SerialInv, NEW h \in Handlers, NEW t \in Tickets,
           \/ Rerun(h, t)
           \/ \E patch \in Patches : StartPatch(h, t, patch)
           \/ \E a \in Staff \cup {None} : StartAssign(h, t, a)
           \/ ReadLatest(h) \/ WritePatch(h) \/ WriteAssign(h)
    PROVE  SerialInv'
<1>1. TypeOK /\ h \in Procs
  BY DEF SafetyInv, Procs
<1>2. CASE Rerun(h, t)
  <2> DEFINE s == OnTicket("classify", t, tickets[t])
  <2>1. Alone(h) /\ proc' = [proc EXCEPT ![h] = s] /\ tickets' = tickets
    BY <1>1, <1>2, FreeAlone DEF Rerun, Accept, Become, db
  <2>2. s.pc = "classify" /\ s.ticket = t /\ s.row = tickets[t]
    BY DEF OnTicket, Idle
  <2> HIDE DEF s
  <2>3. FreshCopy(s, tickets')
    BY <2>1, <2>2 DEF FreshCopy
  <2> QED
    BY <1>1, <2>1, <2>3, SerialMove
<1>3. ASSUME NEW patch \in Patches, StartPatch(h, t, patch) PROVE SerialInv'
  <2> DEFINE s == [OnTicket("latest", t, tickets[t]) EXCEPT !.patch = patch]
  <2>1. /\ Alone(h) /\ proc' = [proc EXCEPT ![h] = s] /\ tickets' = tickets
        /\ Allowed(tickets[t], patch)
    BY <1>1, <1>3, FreeAlone DEF StartPatch, Accept, Become, db
  <2>2. s.pc = "latest" /\ s.ticket = t /\ s.row = tickets[t] /\ s.patch = patch
    BY DEF OnTicket, Idle
  <2> HIDE DEF s
  <2>3. FreshCopy(s, tickets')
    BY <2>1, <2>2 DEF FreshCopy
  <2> QED
    BY <1>1, <2>1, <2>3, SerialMove
<1>4. ASSUME NEW a \in Staff \cup {None}, StartAssign(h, t, a) PROVE SerialInv'
  <2> DEFINE s == OnTicket("assign", t, [tickets[t] EXCEPT !.assignee = a])
  <2>1. Alone(h) /\ proc' = [proc EXCEPT ![h] = s] /\ tickets' = tickets
    BY <1>1, <1>4, FreeAlone DEF StartAssign, Accept, Become, db
  <2>2. s.pc = "assign" /\ s.ticket = t /\ s.row = [tickets[t] EXCEPT !.assignee = a]
    BY DEF OnTicket, Idle
  <2> HIDE DEF s
  <2>3. FreshCopy(s, tickets')
    BY <2>1, <2>2 DEF FreshCopy
  <2> QED
    BY <1>1, <2>1, <2>3, SerialMove
<1>5. CASE ReadLatest(h)
  <2> DEFINE s == [proc[h] EXCEPT !.pc = "patch", !.pred = latest[proc[h].ticket]]
  <2>1. /\ proc[h].pc = "latest" /\ proc' = [proc EXCEPT ![h] = s] /\ tickets' = tickets
    BY <1>5 DEF ReadLatest, Become, db
  <2>2. FreshCopy(proc[h], tickets) /\ proc[h] \in ProcState /\ Alone(h)
    BY <1>1, <2>1, BusyAlone DEF SerialInv, TypeOK
  <2>3. /\ s.pc = "patch" /\ s.ticket = proc[h].ticket /\ s.row = proc[h].row
        /\ s.patch = proc[h].patch
    BY <2>2 DEF ProcState, Frame
  <2> HIDE DEF s
  <2>4. FreshCopy(s, tickets')
    BY <2>1, <2>2, <2>3 DEF FreshCopy
  <2> QED
    BY <1>1, <2>1, <2>2, <2>4, SerialMove
<1>6. CASE WritePatch(h) \/ WriteAssign(h)
  <2>1. proc[h].pc # "idle" /\ Become(h, Idle)
    BY <1>6, WriteEnds DEF WritePatch, WriteAssign
  <2> QED
    BY <1>1, <2>1, BusyAlone, SerialEnd
<1> QED
  BY <1>2, <1>3, <1>4, <1>5, <1>6

(* The requests on departments and the roster. *)
LEMMA SerialDepartment ==
    ASSUME ~Overlap, SafetyInv, SerialInv, NEW h \in Handlers, DepartmentRequest(h)
    PROVE  SerialInv'
<1>1. TypeOK /\ h \in Procs
  BY DEF SafetyInv, Procs
<1>2. CASE \E d \in Departments, c \in Categories \cup {None} : CreateDepartment(h, d, c)
  BY <1>2, SerialKept DEF CreateDepartment
<1>3. CASE \E s \in Staff, d \in Departments \cup {None} : AssignStaff(h, s, d)
  BY <1>3, SerialKept DEF AssignStaff
<1>4. ASSUME NEW d \in Departments, NEW c \in Categories \cup {None},
             StartUpdateDepartment(h, d, c)
      PROVE  SerialInv'
  <2>1. Alone(h) /\ proc' = [proc EXCEPT ![h] = OnDept("redept", d, c)]
    BY <1>1, <1>4, FreeAlone DEF StartUpdateDepartment, Accept, Become
  <2>2. FreshCopy(OnDept("redept", d, c), tickets')
    BY DEF FreshCopy, OnDept, Idle
  <2> QED
    BY <1>1, <2>1, <2>2, SerialMove
<1>5. ASSUME NEW d \in Departments, StartDeleteDepartment(h, d) PROVE SerialInv'
  <2>1. Alone(h) /\ proc' = [proc EXCEPT ![h] = OnDept("reassign", d, None)]
    BY <1>1, <1>5, FreeAlone DEF StartDeleteDepartment, Accept, Become
  <2>2. FreshCopy(OnDept("reassign", d, None), tickets')
    BY DEF FreshCopy, OnDept, Idle
  <2> QED
    BY <1>1, <2>1, <2>2, SerialMove
<1>6. CASE ReassignTickets(h)
  <2>1. proc[h].pc = "reassign" /\ proc' = [proc EXCEPT ![h] = [proc[h] EXCEPT !.pc = "drop"]]
    BY <1>6 DEF ReassignTickets, Become
  <2>2. FreshCopy([proc[h] EXCEPT !.pc = "drop"], tickets')
    <3> DEFINE s == [proc[h] EXCEPT !.pc = "drop"]
    <3>1. s.pc = "drop"
      BY <1>1 DEF TypeOK, ProcState, Frame
    <3> HIDE DEF s
    <3>2. FreshCopy(s, tickets')
      BY <3>1, CopyFree
    <3> QED
      BY <3>2 DEF s
  <2> QED
    BY <1>1, <2>1, <2>2, BusyAlone, SerialMove
<1>7. CASE WriteDepartment(h) \/ DropDepartment(h)
  <2>1. proc[h].pc # "idle" /\ Become(h, Idle)
    BY <1>7 DEF WriteDepartment, DropDepartment, Succeed, Fail
  <2> QED
    BY <1>1, <2>1, BusyAlone, SerialEnd
<1> QED
  BY <1>2, <1>3, <1>4, <1>5, <1>6, <1>7 DEF DepartmentRequest

(* A failing statement and a crash only end use cases.                     *)
LEMMA SerialFault ==
    ASSUME SafetyInv, SerialInv, (\E p \in Procs : Abort(p)) \/ Crash
    PROVE  SerialInv'
<1>1. TypeOK
  BY DEF SafetyInv
<1>2. ASSUME NEW p \in Procs, Abort(p) PROVE SerialInv'
  <2>1. proc[p].pc # "idle" /\ Become(p, Idle)
    BY <1>2 DEF Abort, Fail
  <2> QED
    BY <1>1, <2>1, BusyAlone, SerialEnd
<1>3. CASE Crash
  <2>1. tickets' = tickets /\ \A q \in Procs : proc'[q] \in {proc[q], Idle}
    BY <1>3 DEF Crash, db
  <2>2. Idle.pc = "idle"
    BY DEF Idle
  <2>3. \A q \in Procs : proc'[q].pc = "idle" \/ proc'[q] = proc[q]
    BY <2>1, <2>2
  <2>4. \A q \in Procs : proc'[q].pc = "idle" \/ Alone(q)'
    BY <2>3 DEF SerialInv, Alone
  <2>5. \A q \in Procs : FreshCopy(proc'[q], tickets')
    BY <2>1, <2>3, CopyFree DEF SerialInv
  <2> QED
    BY <2>4, <2>5 DEF SerialInv
<1> QED
  BY <1>2, <1>3

(* Nobody is at work at the start.                                         *)
LEMMA SerialInit == Init => SerialInv
<1>1. Idle.pc = "idle"
  BY DEF Idle
<1> QED
  BY <1>1 DEF Init, SerialInv, FreshCopy

(* The schedule stays serial, and the copies fresh, in every step.         *)
LEMMA SerialStep ==
    ASSUME ~Overlap, SafetyInv, SerialInv, [Next]_vars
    PROVE  SerialInv'
<1>1. CASE UNCHANGED vars
  BY <1>1, SerialKept DEF vars
<1>2. ASSUME NEW w \in Consumers, ConsumerStep(w) PROVE SerialInv'
  <2>1. w \in Procs
    BY DEF Procs
  <2>2. CASE Load(w)
    <3>1. proc[w].ticket \in Tickets
      BY <2>1, <2>2, ProcFields DEF SafetyInv, TypeOK, Load
    <3> QED
      BY <2>1, <2>2, <3>1, SerialDelivery
  <2> QED
    BY <1>2, <2>1, <2>2, SerialDelivery, SerialAnalysis DEF ConsumerStep
<1>3. ASSUME NEW h \in Handlers, TicketRequest(h) PROVE SerialInv'
  <2>1. h \in Procs
    BY DEF Procs
  <2>2. CASE PublishCreated(h) \/ DropCreated(h) \/ ReadLatest(h) \/ WritePatch(h) \/ WriteAssign(h)
    <3>1. proc[h].ticket \in Tickets
      BY <2>1, <2>2, ProcFields
         DEF SafetyInv, TypeOK, PublishCreated, DropCreated, ReadLatest, WritePatch, WriteAssign
    <3> QED
      BY <2>1, <2>2, <3>1, SerialDelivery, SerialRequest
  <2> QED
    BY <1>3, <2>1, <2>2, SerialDelivery, SerialRequest, SerialAnalysis DEF TicketRequest
<1> QED
  BY <1>1, <1>2, <1>3, SerialDepartment, SerialFault DEF Next

(* With use cases one after another, at most one goroutine is at work, and *)
(* the row it carries from its first statement is the row in the table.    *)
THEOREM UseCasesAreSerial == ASSUME ~Overlap PROVE Spec => []SerialInv
<1>1. SafetyInv /\ SerialInv /\ [Next]_vars => SerialInv'
  BY SerialStep
<1> QED
  BY <1>1, SerialInit, SafetyInvariant, PTL DEF Spec

-----------------------------------------------------------------------------
(* The decisions of people. *)

(* A step that ends the work of p, and what it did to the tickets. *)
LEMMA EndOf ==
    ASSUME SafetyInv, SerialInv, [Next]_vars, NEW p \in Procs,
           proc[p].pc \in {"apply", "patch"}, proc'[p].pc = "idle"
    PROVE  \/ tickets' = tickets
           \/ proc[p].pc = "apply"
              /\ tickets' = [tickets EXCEPT ![proc[p].ticket] =
                               ApplyPrediction(proc[p].row, proc[p].pred)]
           \/ proc[p].pc = "patch"
              /\ tickets' = [tickets EXCEPT ![proc[p].ticket] =
                               Patched(proc[p].row, proc[p].patch, proc[p].pred)]
<1>1. ASSUME NEW q \in Procs, NEW s, q # p, proc' = [proc EXCEPT ![q] = s]
      PROVE  FALSE
  BY <1>1 DEF SafetyInv, TypeOK
<1>2. ASSUME NEW q \in Procs, NEW row, WriteRow(q, row)
      PROVE  tickets' = tickets \/ tickets' = [tickets EXCEPT ![proc[q].ticket] = row]
  BY <1>2 DEF WriteRow, db
<1>3. ASSUME UNCHANGED vars PROVE tickets' = tickets
  BY <1>3 DEF vars
<1>4. ASSUME NEW q \in Procs, Analysis(q) PROVE tickets' = tickets \/ Apply(q)
  BY <1>4 DEF Analysis, Classify, Store, db
<1>5. ASSUME NEW q \in Procs, Apply(q), tickets' # tickets
      PROVE  tickets' = [tickets EXCEPT ![proc[q].ticket] =
                           ApplyPrediction(proc[q].row, proc[q].pred)] /\ proc[q].pc = "apply"
  BY <1>2, <1>5 DEF Apply, db
<1>6. ASSUME NEW q \in Procs, WritePatch(q), tickets' # tickets
      PROVE  tickets' = [tickets EXCEPT ![proc[q].ticket] =
                           Patched(proc[q].row, proc[q].patch, proc[q].pred)] /\ proc[q].pc = "patch"
  BY <1>2, <1>6 DEF WritePatch
<1>7. ASSUME NEW q \in Procs, Apply(q) \/ WritePatch(q) PROVE q = p
  <2>1. proc' = [proc EXCEPT ![q] = Idle]
    BY <1>7, WriteEnds DEF Apply, WritePatch, Respond, Succeed, Fail, Become
  <2> QED
    BY <1>1, <2>1
<1>8. ASSUME NEW w \in Consumers, ConsumerStep(w)
      PROVE  tickets' = tickets \/ Apply(w)
  BY <1>4, <1>8 DEF ConsumerStep, Consume, SkipAnalyzed, Load, db, Procs
<1>9. ASSUME NEW h \in Handlers, TicketRequest(h)
      PROVE  tickets' = tickets \/ Apply(h) \/ WritePatch(h)
  <2>1. h \in Procs
    BY DEF Procs
  <2>2. ~\E t \in Tickets, c \in Customers : CreateTicket(h, t, c)
    <3> SUFFICES ASSUME NEW t \in Tickets, NEW c \in Customers, CreateTicket(h, t, c)
                 PROVE  FALSE
      OBVIOUS
    <3>1. proc' = [proc EXCEPT ![h] = OnTicket("publish", t, None)] /\ proc[h].pc = "idle"
      BY DEF CreateTicket, Accept, Free, Become
    <3> QED
      BY <1>1, <2>1, <3>1
  <2>3. ~WriteAssign(h)
    <3> SUFFICES ASSUME WriteAssign(h) PROVE FALSE
      OBVIOUS
    <3>1. proc' = [proc EXCEPT ![h] = Idle] /\ proc[h].pc = "assign"
      BY WriteEnds DEF WriteAssign, Become
    <3> QED
      BY <1>1, <2>1, <3>1
  <2> QED
    BY <1>4, <1>9, <2>1, <2>2, <2>3
       DEF TicketRequest, Rerun, StartPatch, StartAssign, PublishCreated, DropCreated,
           ReadLatest, db
<1>10. ASSUME NEW h \in Handlers, DepartmentRequest(h) PROVE tickets' = tickets
  <2>1. h \in Procs
    BY DEF Procs
  <2>2. ~ReassignTickets(h)
    <3> SUFFICES ASSUME ReassignTickets(h) PROVE FALSE
      OBVIOUS
    <3>1. proc' = [proc EXCEPT ![h] = [proc[h] EXCEPT !.pc = "drop"]] /\ proc[h].pc = "reassign"
      BY DEF ReassignTickets, Become
    <3> QED
      BY <1>1, <2>1, <3>1
  <2> QED
    BY <1>10, <2>2 DEF DepartmentRequest, CreateDepartment, StartUpdateDepartment,
                       StartDeleteDepartment, AssignStaff, WriteDepartment, DropDepartment, db
<1>11. ASSUME (\E q \in Procs : Abort(q)) \/ Crash PROVE tickets' = tickets
  BY <1>11 DEF Abort, Crash, db
<1>12. \/ tickets' = tickets
       \/ \E q \in Procs : Apply(q) \/ WritePatch(q)
  <2>1. Consumers \subseteq Procs /\ Handlers \subseteq Procs
    BY DEF Procs
  <2>2. CASE Next
    <3>1. CASE \E w \in Consumers : ConsumerStep(w)
      BY <1>8, <2>1, <3>1
    <3>2. CASE \E h \in Handlers : TicketRequest(h) \/ DepartmentRequest(h)
      BY <1>9, <1>10, <2>1, <3>2
    <3> QED
      BY <1>11, <2>2, <3>1, <3>2 DEF Next
  <2> QED
    BY <1>3, <2>2
<1> QED
  BY <1>5, <1>6, <1>7, <1>12

(* ApplyPrediction spares what is overridden. *)
LEMMA ApplySpares ==
    ASSUME NEW row \in TicketRow, NEW pred \in Routing
    PROVE  LET new == ApplyPrediction(row, pred) IN
           /\ new.priorityOverridden = row.priorityOverridden
           /\ new.departmentOverridden = row.departmentOverridden
           /\ row.priorityOverridden => new.priority = row.priority
           /\ row.departmentOverridden => new.department = row.department
           /\ ~row.priorityOverridden => new.priority = pred.priority
           /\ ~row.departmentOverridden => new.department = pred.department
BY DEF ApplyPrediction, TicketRow, Routing

(* The step in which a prediction is applied, over a fresh copy.           *)
LEMMA DecisionStep ==
    ASSUME SafetyInv, SerialInv, [Next]_vars, NEW p \in Procs, Finishes(p, "apply")
    PROVE  LET old == tickets[proc[p].ticket]  new == tickets'[proc[p].ticket] IN
           /\ old.priorityOverridden =>
                 new.priorityOverridden /\ new.priority = old.priority
           /\ old.departmentOverridden =>
                 new.departmentOverridden /\ new.department = old.department
<1> DEFINE t == proc[p].ticket
           new == ApplyPrediction(proc[p].row, proc[p].pred)
<1>1. proc[p].pc = "apply" /\ proc'[p].pc = "idle"
  BY DEF Finishes
<1>2. tickets' = tickets \/ tickets' = [tickets EXCEPT ![t] = new]
  BY <1>1, EndOf
<1>3. t \in Tickets /\ proc[p].row \in TicketRow /\ proc[p].pred \in Routing
  BY <1>1, ProcFields DEF SafetyInv, TypeOK
<1>4. proc[p].row = tickets[t]
  BY <1>1 DEF SerialInv, FreshCopy
<1>5. CASE tickets' = tickets
  BY <1>5
<1>6. CASE tickets' = [tickets EXCEPT ![t] = new]
  <2>1. tickets'[t] = new
    BY <1>3, <1>6 DEF SafetyInv, TypeOK
  <2> QED
    BY <1>3, <1>4, <2>1, ApplySpares
<1> QED
  BY <1>2, <1>5, <1>6

(* With use cases one after another, a prediction never overrides what a   *)
(* human decided, whatever fails and wherever the server crashes.          *)
THEOREM OverridesSurvive == ASSUME ~Overlap PROVE Spec => HumanDecisionSurvives
<1>1. SafetyInv /\ SerialInv /\ [Next]_vars =>
         [\A p \in Procs : Finishes(p, "apply") =>
             LET old == tickets[proc[p].ticket]  new == tickets'[proc[p].ticket] IN
             /\ old.priorityOverridden =>
                   new.priorityOverridden /\ new.priority = old.priority
             /\ old.departmentOverridden =>
                   new.departmentOverridden /\ new.department = old.department]_vars
  BY DecisionStep
<1> QED
  BY <1>1, SafetyInvariant, UseCasesAreSerial, PTL DEF Spec, HumanDecisionSurvives

(* A patch that may come from a customer reopens and does nothing else. *)
LEMMA CustomerPatched ==
    ASSUME NEW row \in TicketRow, NEW patch \in Patches, NEW pred, Allowed(row, patch),
           patch.by # None
    PROVE  /\ IsResolved(row)
           /\ Patched(row, patch, pred) = [row EXCEPT !.status = "open", !.resolvedAt = FALSE]
<1>1. /\ patch.priority = None /\ patch.department = None /\ patch.status = "open"
      /\ IsResolved(row)
  BY DEF Allowed
<1>2. None # "open"
  BY TriageConstants DEF Statuses
<1>3. Patched(row, patch, pred) = SetStatus(row, "open")
  BY <1>1 DEF Patched, SetPriority, SetDepartment
<1>4. SetStatus(row, "open") = [row EXCEPT !.status = "open", !.resolvedAt = FALSE]
  BY <1>2 DEF SetStatus
<1> QED
  BY <1>1, <1>3, <1>4

(* The step in which a patch is written, over a fresh copy.                *)
LEMMA ReopenStep ==
    ASSUME SafetyInv, SerialInv, [Next]_vars, NEW p \in Procs, Finishes(p, "patch"),
           proc[p].patch.by # None
    PROVE  LET old == tickets[proc[p].ticket]  new == tickets'[proc[p].ticket] IN
           new # old => /\ IsResolved(old)
                        /\ new = [old EXCEPT !.status = "open", !.resolvedAt = FALSE]
<1> DEFINE t == proc[p].ticket
           new == Patched(proc[p].row, proc[p].patch, proc[p].pred)
<1>1. proc[p].pc = "patch" /\ proc'[p].pc = "idle"
  BY DEF Finishes
<1>2. tickets' = tickets \/ tickets' = [tickets EXCEPT ![t] = new]
  BY <1>1, EndOf
<1>3. t \in Tickets /\ proc[p].row \in TicketRow /\ proc[p].patch \in Patches
  BY <1>1, ProcFields DEF SafetyInv, TypeOK
<1>4. proc[p].row = tickets[t] /\ Allowed(proc[p].row, proc[p].patch)
  BY <1>1 DEF SerialInv, FreshCopy
<1>5. /\ IsResolved(tickets[t])
      /\ new = [tickets[t] EXCEPT !.status = "open", !.resolvedAt = FALSE]
  BY <1>3, <1>4, CustomerPatched
<1> HIDE DEF new
<1>6. tickets'[t] = tickets[t] \/ tickets'[t] = new
  BY <1>2, <1>3 DEF SafetyInv, TypeOK
<1> QED
  BY <1>5, <1>6

(* With use cases one after another, a customer's patch reopens a resolved *)
(* ticket or changes nothing.                                              *)
THEOREM CustomersOnlyReopen == ASSUME ~Overlap PROVE Spec => CustomerOnlyReopens
<1>1. SafetyInv /\ SerialInv /\ [Next]_vars =>
         [\A p \in Procs :
             Finishes(p, "patch") /\ proc[p].patch.by # None =>
             LET old == tickets[proc[p].ticket]  new == tickets'[proc[p].ticket] IN
             new # old => /\ IsResolved(old)
                          /\ new = [old EXCEPT !.status = "open", !.resolvedAt = FALSE]]_vars
  BY ReopenStep
<1> QED
  BY <1>1, SafetyInvariant, UseCasesAreSerial, PTL DEF Spec, CustomerOnlyReopens

-----------------------------------------------------------------------------
(* The way of a prediction. *)

(* The goroutine at work moves on. *)
LEMMA ReachMove ==
    ASSUME TypeOK, NEW p \in Procs, Alone(p), NEW s, proc' = [proc EXCEPT ![p] = s],
           StillTrue(proc[p])', \A t \in Tickets : latest'[t] # None => Reached(t)'
    PROVE  ReachInv'
<1>1. \A q \in Procs \ {p} : proc'[q].pc = "idle"
  BY DEF TypeOK, Alone
<1>2. \A q \in Procs \ {p} : StillTrue(proc[q])'
  BY <1>1 DEF StillTrue
<1> QED
  BY <1>2 DEF ReachInv

(* Another ticket, or the same one untouched, is where it was. *)
LEMMA ReachedKept ==
    ASSUME TypeOK, NEW p \in Procs, NEW s, proc' = [proc EXCEPT ![p] = s], NEW t \in Tickets,
           tickets'[t] = tickets[t], latest'[t] = latest[t], Reached(t),
           proc[p].pc = "apply" => proc[p].ticket # t,
           proc[p].pc # "drop"
    PROVE  Reached(t)'
<1>1. \A q \in Procs : q # p => proc'[q] = proc[q]
  BY DEF TypeOK
<1>2. Applying(t) => Applying(t)'
  BY <1>1 DEF Applying
<1>3. \A d : Leaving(d) => \E q \in Procs : proc'[q].pc = "drop" /\ proc'[q].dept = d
  BY <1>1 DEF Leaving
<1>5. Leaving(latest[t].department) => Leaving(latest[t].department)'
  BY <1>3 DEF Leaving
<1> QED
  BY <1>2, <1>5 DEF Reached, PriorityReached, DepartmentReached

(* A step between the first and the last statement that writes nothing. *)
LEMMA ReachLocal ==
    ASSUME TypeOK, ReachInv, NEW p \in Procs, Alone(p), NEW s,
           proc' = [proc EXCEPT ![p] = s], UNCHANGED <<tickets, latest>>,
           proc[p].pc \notin {"apply", "drop"}, StillTrue(proc[p])'
    PROVE  ReachInv'
<1>1. \A t \in Tickets : latest'[t] # None => Reached(t)'
  BY ReachedKept DEF ReachInv
<1> QED
  BY <1>1, ReachMove

(* A request of one statement that touches neither tickets nor analyses.   *)
LEMMA ReachSame ==
    ASSUME ReachInv, UNCHANGED <<tickets, latest, proc>>,
           \A p \in Procs : proc[p].pc = "idle"
    PROVE  ReachInv'
<1>1. \A p \in Procs : StillTrue(proc[p])'
  BY DEF StillTrue
<1>2. \A t \in Tickets : latest'[t] # None => Reached(t)'
  BY DEF ReachInv, Reached, PriorityReached, DepartmentReached, Applying, Leaving
<1> QED
  BY <1>1, <1>2 DEF ReachInv

(* Only one goroutine can be on the way with something. *)
LEMMA OnlyOne ==
    ASSUME NEW p \in Procs, Alone(p), NEW t, NEW d
    PROVE  /\ Applying(t) => proc[p].pc = "apply" /\ proc[p].ticket = t
           /\ Leaving(d) => proc[p].pc = "drop" /\ proc[p].dept = d
  BY DEF Alone, Applying, Leaving

(* The rows a use case writes when it holds the latest prediction. *)
LEMMA PatchReaches ==
    ASSUME NEW row \in TicketRow, NEW patch \in Patches, NEW pred \in Prediction,
           row.priorityOverridden \/ row.priority = pred.priority,
           row.departmentOverridden \/ pred.department \in {None, row.department}
    PROVE  LET new == Patched(row, patch, pred) IN
           /\ new.priorityOverridden \/ new.priority = pred.priority
           /\ new.departmentOverridden \/ pred.department \in {None, new.department}
<1> DEFINE r1 == SetPriority(row, patch.priority, pred)
           r2 == SetDepartment(r1, patch.department, pred)
           Good(r) == /\ r.priorityOverridden \/ r.priority = pred.priority
                      /\ r.departmentOverridden \/ pred.department \in {None, r.department}
<1>0. patch \in Patch /\ pred # None
  BY TriageConstants
<1>1. r1 \in TicketRow /\ Good(r1)
  BY <1>0 DEF SetPriority, TicketRow, Patch
<1> HIDE DEF r1
<1>2. r2 \in TicketRow /\ Good(r2)
  BY <1>0, <1>1 DEF SetDepartment, TicketRow, Patch
<1> HIDE DEF r2
<1>3. Good(SetStatus(r2, patch.status))
  BY <1>2 DEF SetStatus, TicketRow
<1> QED
  BY <1>3 DEF Patched, r1, r2

(* TicketRepo.Update of the one goroutine at work, done or refused, when   *)
(* what it writes carries the latest prediction.                           *)
LEMMA ReachWrite ==
    ASSUME SafetyInv, ReachInv, NEW p \in Procs, Alone(p), NEW row \in TicketRow,
           WriteRow(p, row), NEW t \in Tickets, proc[p].ticket = t,
           proc[p].pc \in {"apply", "patch", "assign"},
           proc[p].pc = "apply" => Live(row.department),
           latest[t] # None =>
              /\ row.priorityOverridden \/ row.priority = latest[t].priority
              /\ row.departmentOverridden \/ latest[t].department \in {None, row.department}
    PROVE  ReachInv'
<1>1. TypeOK /\ latest' = latest /\ proc' = [proc EXCEPT ![p] = Idle]
  BY WriteEnds DEF SafetyInv, WriteRow, db, Become
<1>2. proc'[p].pc = "idle"
  BY <1>1 DEF TypeOK, Idle
<1>3. StillTrue(proc[p])'
  BY <1>2 DEF StillTrue
<1>4. \/ tickets' = tickets /\ proc[p].pc # "apply"
      \/ tickets' = [tickets EXCEPT ![t] = row]
  BY DEF WriteRow, db
<1>5. ASSUME NEW u \in Tickets, latest'[u] # None PROVE Reached(u)'
  <2>1. Reached(u)
    BY <1>1, <1>5 DEF ReachInv
  <2>2. CASE u # t \/ (tickets' = tickets /\ proc[p].pc # "apply")
    <3>1. tickets'[u] = tickets[u]
      BY <1>4, <2>2 DEF SafetyInv, TypeOK
    <3> QED
      BY <1>1, <2>1, <2>2, <3>1, ReachedKept
  <2>3. CASE u = t /\ tickets' = [tickets EXCEPT ![t] = row]
    <3>1. tickets'[u] = row /\ row # None
      BY <2>3, TriageConstants DEF SafetyInv, TypeOK
    <3> QED
      BY <1>1, <1>5, <2>3, <3>1 DEF Reached, PriorityReached, DepartmentReached
  <2> QED
    BY <1>4, <2>2, <2>3
<1> QED
  BY <1>1, <1>3, <1>5, ReachMove

(* The prediction is stored, and applied to a fresh copy.                  *)
LEMMA ReachAnalysis ==
    ASSUME SafetyInv, SerialInv, ReachInv, NEW p \in Procs, Analysis(p)
    PROVE  ReachInv'
<1>1. TypeOK /\ proc[p].pc # "idle" /\ Alone(p)
  BY BusyAlone DEF SafetyInv, Analysis, Classify, Store, Apply
<1>2. /\ FreshCopy(proc[p], tickets) /\ StillTrue(proc[p]) /\ FrameSound(proc[p])
      /\ proc[p] \in ProcState
  BY <1>1 DEF SerialInv, ReachInv, SafetyInv, LocalsSound, TypeOK
<1>3. CASE Classify(p)
  <2>1. PICK v \in Priorities, c \in Categories :
           proc' = [proc EXCEPT ![p] = [proc[p] EXCEPT
                      !.pc = "store",
                      !.pred = [priority |-> v, department |-> Routed(c),
                                fallback |-> ~Claimed(c)]]]
    BY <1>3 DEF Classify, Become
  <2>2. proc'[p].pc = "store" /\ proc'[p].pred.department = Routed(c)
    BY <1>1, <1>2, <2>1 DEF TypeOK, ProcState, Frame
  <2>3. Live(Routed(c)) /\ UNCHANGED <<tickets, latest, deptState>> /\ proc[p].pc = "classify"
    BY <1>3, RoutedLive DEF SafetyInv, NoDanglingDepartment, Classify, db
  <2>4. StillTrue(proc[p])'
    BY <2>2, <2>3 DEF StillTrue, Live
  <2> QED
    BY <1>1, <2>1, <2>3, <2>4, ReachLocal
<1>4. CASE Store(p)
  <2> DEFINE t == proc[p].ticket
             r == proc[p].pred
  <2>1. /\ proc[p].pc = "store" /\ Live(r.department)
        /\ t \in Tickets /\ tickets[t] # None /\ r \in Routing
    BY <1>2, <1>4, ProcFields, TriageConstants DEF Store, StillTrue, FrameSound
  <2>2. /\ latest' = [latest EXCEPT ![t] = r] /\ UNCHANGED <<tickets, deptState>>
        /\ proc' = [proc EXCEPT ![p] = [proc[p] EXCEPT !.pc = "apply"]]
    BY <1>4, <2>1 DEF Store, Become
  <2>3. proc'[p].pc = "apply" /\ proc'[p].ticket = t /\ proc'[p].pred = r
    BY <1>1, <1>2, <2>2 DEF TypeOK, ProcState, Frame
  <2> HIDE DEF t, r
  <2>4. latest'[t] = r
    BY <1>1, <2>1, <2>2 DEF TypeOK
  <2>5. StillTrue(proc[p])'
    BY <2>1, <2>2, <2>3, <2>4 DEF StillTrue, Live
  <2>6. ASSUME NEW u \in Tickets, latest'[u] # None PROVE Reached(u)'
    <3>1. CASE u = t
      BY <2>1, <2>2, <2>3, <3>1 DEF Reached, Applying
    <3>2. CASE u # t
      <4>1. latest'[u] = latest[u] /\ tickets'[u] = tickets[u] /\ Reached(u)
        BY <1>1, <2>2, <2>6, <3>2 DEF TypeOK, ReachInv
      <4> QED
        BY <1>1, <2>1, <2>2, <4>1, ReachedKept
    <3> QED
      BY <3>1, <3>2
  <2> QED
    BY <1>1, <2>2, <2>5, <2>6, ReachMove
<1>5. CASE Apply(p)
  <2> DEFINE t == proc[p].ticket
             r == proc[p].pred
             row == proc[p].row
             new == ApplyPrediction(row, r)
  <2>1. /\ proc[p].pc = "apply" /\ Live(r.department) /\ latest[t] = r /\ row = tickets[t]
        /\ t \in Tickets /\ tickets[t] # None /\ r \in Routing /\ row \in TicketRow
    BY <1>2, <1>5, ProcFields, TriageConstants DEF Apply, StillTrue, FreshCopy, FrameSound
  <2>2. new \in TicketRow
    BY <2>1, ApplySound
  <2>3. /\ new.priorityOverridden \/ new.priority = r.priority
        /\ new.departmentOverridden \/ new.department = r.department
        /\ new.department \in {row.department, r.department}
    BY <2>1 DEF ApplyPrediction, TicketRow, Routing
  <2>4. Live(row.department)
    BY <2>1 DEF SafetyInv, NoDanglingDepartment
  <2>5. Live(new.department)
    BY <2>1, <2>3, <2>4
  <2>6. CASE WriteRow(p, new)
    BY <1>1, <2>1, <2>2, <2>3, <2>5, <2>6, ReachWrite
  <2>7. CASE new = row /\ UNCHANGED db /\ Respond(p)
    <3>1. /\ UNCHANGED <<tickets, latest, deptState>> /\ proc' = [proc EXCEPT ![p] = Idle]
      BY <2>7 DEF db, Respond, Succeed, Fail, Become
    <3>2. proc'[p].pc = "idle"
      BY <1>1, <3>1 DEF TypeOK, Idle
    <3>3. StillTrue(proc[p])'
      BY <3>2 DEF StillTrue
    <3>4. ASSUME NEW u \in Tickets, latest'[u] # None PROVE Reached(u)'
      <4>1. CASE u = t
        BY <2>1, <2>3, <2>7, <3>1, <4>1 DEF Reached, PriorityReached, DepartmentReached
      <4>2. CASE u # t
        <5>1. Reached(u) /\ tickets'[u] = tickets[u] /\ latest'[u] = latest[u]
          BY <3>1, <3>4 DEF ReachInv
        <5> QED
          BY <1>1, <2>1, <3>1, <4>2, <5>1, ReachedKept
      <4> QED
        BY <4>1, <4>2
    <3> QED
      BY <1>1, <3>1, <3>3, <3>4, ReachMove
  <2> QED
    BY <1>5, <2>6, <2>7 DEF Apply
<1> QED
  BY <1>3, <1>4, <1>5 DEF Analysis

(* Most statements carry nothing that must still be true. *)
LEMMA StillFree ==
    ASSUME NEW s,
           s.pc \in {"idle", "publish", "load", "classify", "latest", "assign", "redept"}
    PROVE  StillTrue(s)
  BY DEF StillTrue

(* Nobody is at work when a use case starts. *)
LEMMA ReachStart ==
    ASSUME TypeOK, ReachInv, NEW p \in Procs, Alone(p), proc[p].pc = "idle",
           NEW s, proc' = [proc EXCEPT ![p] = s], UNCHANGED <<tickets, latest, deptState>>,
           \/ s.pc \in {"load", "classify", "latest", "assign", "redept"}
           \/ s.pc = "reassign" /\ Live(s.dept)
    PROVE  ReachInv'
<1>1. proc'[p] = s
  BY DEF TypeOK
<1>2. StillTrue(proc[p])'
  BY <1>1 DEF StillTrue, Live
<1> QED
  BY <1>2, ReachLocal

(* A new ticket has no prediction, and a delivered event changes nothing.  *)
LEMMA ReachDelivery ==
    ASSUME ~Overlap, SafetyInv, SerialInv, ReachInv, NEW p \in Procs, NEW t \in Tickets,
           \/ \E c \in Customers : CreateTicket(p, t, c)
           \/ PublishCreated(p) \/ DropCreated(p)
           \/ Consume(p, t) \/ SkipAnalyzed(p, t) \/ Load(p)
    PROVE  ReachInv'
<1>1. TypeOK
  BY DEF SafetyInv
<1>2. CASE \E c \in Customers : CreateTicket(p, t, c)
  <2> DEFINE s == OnTicket("publish", t, None)
  <2>1. PICK c \in Customers : CreateTicket(p, t, c)
    BY <1>2
  <2>2. /\ Alone(p) /\ proc[p].pc = "idle" /\ proc' = [proc EXCEPT ![p] = s]
        /\ tickets[t] = None /\ tickets' = [tickets EXCEPT ![t] = NewTicket(c)]
        /\ latest' = latest
    BY <2>1, FreeAlone DEF CreateTicket, Accept, Become
  <2>3. s.pc = "publish"
    BY DEF OnTicket, Idle
  <2> HIDE DEF s
  <2>4. proc'[p] = s
    BY <1>1, <2>2 DEF TypeOK
  <2>5. StillTrue(proc[p])'
    BY <2>3, <2>4 DEF StillTrue
  <2>6. ASSUME NEW u \in Tickets, latest'[u] # None PROVE Reached(u)'
    <3>1. Reached(u) /\ u # t
      BY <2>2, <2>6 DEF ReachInv, Reached
    <3>2. tickets'[u] = tickets[u] /\ latest'[u] = latest[u]
      BY <1>1, <2>2, <3>1 DEF TypeOK
    <3> QED
      BY <1>1, <2>2, <3>1, <3>2, ReachedKept
  <2> QED
    BY <1>1, <2>2, <2>5, <2>6, ReachMove
<1>3. CASE PublishCreated(p) \/ DropCreated(p)
  <2>1. /\ proc[p].pc = "publish" /\ proc' = [proc EXCEPT ![p] = Idle]
        /\ UNCHANGED <<tickets, latest>>
    BY <1>3 DEF PublishCreated, DropCreated, Become, db
  <2>2. proc'[p].pc = "idle"
    BY <1>1, <2>1 DEF TypeOK, Idle
  <2>3. StillTrue(proc[p])'
    BY <2>2 DEF StillTrue
  <2> QED
    BY <1>1, <2>1, <2>3, BusyAlone, ReachLocal
<1>4. CASE Consume(p, t)
  <2> DEFINE s == OnTicket("load", t, None)
  <2>1. /\ Alone(p) /\ proc[p].pc = "idle" /\ proc' = [proc EXCEPT ![p] = s]
        /\ UNCHANGED <<tickets, latest, deptState>>
    BY <1>4, FreeAlone DEF Consume, Become, db
  <2>2. s.pc = "load"
    BY DEF OnTicket, Idle
  <2> HIDE DEF s
  <2> QED
    BY <1>1, <2>1, <2>2, ReachStart
<1>5. CASE SkipAnalyzed(p, t)
  BY <1>5, ReachSame DEF SkipAnalyzed, db, Free
<1>6. CASE Load(p)
  <2> DEFINE s == OnTicket("classify", proc[p].ticket, tickets[proc[p].ticket])
  <2>1. /\ proc[p].pc = "load" /\ proc' = [proc EXCEPT ![p] = s]
        /\ UNCHANGED <<tickets, latest, deptState>>
    BY <1>6 DEF Load, Become, db
  <2>2. s.pc = "classify"
    BY DEF OnTicket, Idle
  <2> HIDE DEF s
  <2>3. proc'[p].pc = "classify"
    BY <1>1, <2>1, <2>2 DEF TypeOK
  <2>4. StillTrue(proc[p])'
    BY <2>3 DEF StillTrue
  <2> QED
    BY <1>1, <2>1, <2>4, BusyAlone, ReachLocal
<1> QED
  BY <1>2, <1>3, <1>4, <1>5, <1>6

(* A patch and an assignment write fresh rows back. *)
LEMMA ReachTicketWrite ==
    ASSUME SafetyInv, SerialInv, ReachInv, NEW h \in Procs, WritePatch(h) \/ WriteAssign(h)
    PROVE  ReachInv'
<1> DEFINE t == proc[h].ticket
           row == proc[h].row
<1>1. TypeOK /\ proc[h].pc \in {"patch", "assign"} /\ Alone(h)
  BY BusyAlone DEF SafetyInv, WritePatch, WriteAssign
<1>2. /\ FreshCopy(proc[h], tickets) /\ StillTrue(proc[h]) /\ FrameSound(proc[h])
      /\ proc[h] \in ProcState
  BY <1>1 DEF SerialInv, ReachInv, SafetyInv, LocalsSound, TypeOK
<1>3. t \in Tickets /\ row \in TicketRow /\ tickets[t] # None
  BY <1>1, <1>2, ProcFields, TriageConstants DEF FrameSound
<1>4. tickets[t] \in TicketRow /\ latest[t] \in Prediction \cup {None}
  BY <1>1, <1>3 DEF TypeOK
<1>5. latest[t] # None => PriorityReached(t) /\ DepartmentReached(t)
  BY <1>1, <1>3, OnlyOne DEF ReachInv, Reached
<1>6. CASE WritePatch(h)
  <2> DEFINE new == Patched(row, proc[h].patch, proc[h].pred)
  <2>1. /\ proc[h].pc = "patch" /\ row = tickets[t] /\ proc[h].pred = latest[t]
        /\ proc[h].patch \in Patches /\ WriteRow(h, new)
    BY <1>2, <1>6, ProcFields DEF WritePatch, FreshCopy, StillTrue
  <2>2. new \in TicketRow
    BY <1>3, <1>4, <2>1, PatchedSound
  <2>3. latest[t] # None =>
           /\ new.priorityOverridden \/ new.priority = latest[t].priority
           /\ new.departmentOverridden \/ latest[t].department \in {None, new.department}
    BY <1>3, <1>4, <1>5, <2>1, PatchReaches DEF PriorityReached, DepartmentReached
  <2> HIDE DEF new, t, row
  <2> QED
    BY <1>1, <1>3, <2>1, <2>2, <2>3, ReachWrite DEF t
<1>7. CASE WriteAssign(h)
  <2>1. proc[h].pc = "assign" /\ WriteRow(h, row)
    BY <1>7 DEF WriteAssign
  <2>2. PICK a \in Staff \cup {None} : row = [tickets[t] EXCEPT !.assignee = a]
    BY <1>2, <2>1 DEF FreshCopy
  <2>3. /\ row.priority = tickets[t].priority /\ row.department = tickets[t].department
        /\ row.priorityOverridden = tickets[t].priorityOverridden
        /\ row.departmentOverridden = tickets[t].departmentOverridden
    BY <1>4, <2>2 DEF TicketRow
  <2>4. latest[t] # None =>
           /\ row.priorityOverridden \/ row.priority = latest[t].priority
           /\ row.departmentOverridden \/ latest[t].department \in {None, row.department}
    BY <1>5, <2>3 DEF PriorityReached, DepartmentReached
  <2> HIDE DEF t, row
  <2> QED
    BY <1>1, <1>3, <2>1, <2>4, ReachWrite DEF t
<1> QED
  BY <1>6, <1>7

(* The requests on a ticket.                                               *)
LEMMA ReachRequest ==
    ASSUME ~Overlap, SafetyInv, SerialInv, ReachInv, NEW h \in Handlers, NEW t \in Tickets,
           \/ Rerun(h, t)
           \/ \E patch \in Patches : StartPatch(h, t, patch)
           \/ \E a \in Staff \cup {None} : StartAssign(h, t, a)
           \/ ReadLatest(h) \/ WritePatch(h) \/ WriteAssign(h)
    PROVE  ReachInv'
<1>1. TypeOK /\ h \in Procs
  BY DEF SafetyInv, Procs
<1>2. CASE Rerun(h, t)
  <2> DEFINE s == OnTicket("classify", t, tickets[t])
  <2>1. /\ Alone(h) /\ proc[h].pc = "idle" /\ proc' = [proc EXCEPT ![h] = s]
        /\ UNCHANGED <<tickets, latest, deptState>>
    BY <1>1, <1>2, FreeAlone DEF Rerun, Accept, Become, db
  <2>2. s.pc = "classify"
    BY DEF OnTicket, Idle
  <2> HIDE DEF s
  <2> QED
    BY <1>1, <2>1, <2>2, ReachStart
<1>3. ASSUME NEW patch \in Patches, StartPatch(h, t, patch) PROVE ReachInv'
  <2> DEFINE s == [OnTicket("latest", t, tickets[t]) EXCEPT !.patch = patch]
  <2>1. /\ Alone(h) /\ proc[h].pc = "idle" /\ proc' = [proc EXCEPT ![h] = s]
        /\ UNCHANGED <<tickets, latest, deptState>>
    BY <1>1, <1>3, FreeAlone DEF StartPatch, Accept, Become, db
  <2>2. s.pc = "latest"
    BY DEF OnTicket, Idle
  <2> HIDE DEF s
  <2> QED
    BY <1>1, <2>1, <2>2, ReachStart
<1>4. ASSUME NEW a \in Staff \cup {None}, StartAssign(h, t, a) PROVE ReachInv'
  <2> DEFINE s == OnTicket("assign", t, [tickets[t] EXCEPT !.assignee = a])
  <2>1. /\ Alone(h) /\ proc[h].pc = "idle" /\ proc' = [proc EXCEPT ![h] = s]
        /\ UNCHANGED <<tickets, latest, deptState>>
    BY <1>1, <1>4, FreeAlone DEF StartAssign, Accept, Become, db
  <2>2. s.pc = "assign"
    BY DEF OnTicket, Idle
  <2> HIDE DEF s
  <2> QED
    BY <1>1, <2>1, <2>2, ReachStart
<1>5. CASE ReadLatest(h)
  <2> DEFINE s == [proc[h] EXCEPT !.pc = "patch", !.pred = latest[proc[h].ticket]]
  <2>1. /\ proc[h].pc = "latest" /\ proc' = [proc EXCEPT ![h] = s]
        /\ UNCHANGED <<tickets, latest>>
    BY <1>5 DEF ReadLatest, Become, db
  <2>2. proc[h] \in ProcState /\ Alone(h)
    BY <1>1, <2>1, BusyAlone DEF TypeOK
  <2>3. s.pc = "patch" /\ s.ticket = proc[h].ticket /\ s.pred = latest[proc[h].ticket]
    BY <2>2 DEF ProcState, Frame
  <2> HIDE DEF s
  <2>4. proc'[h] = s
    BY <1>1, <2>1 DEF TypeOK
  <2>5. StillTrue(proc[h])'
    BY <2>1, <2>3, <2>4 DEF StillTrue
  <2> QED
    BY <1>1, <2>1, <2>2, <2>5, ReachLocal
<1>6. CASE WritePatch(h) \/ WriteAssign(h)
  BY <1>1, <1>6, ReachTicketWrite
<1> QED
  BY <1>2, <1>3, <1>4, <1>5, <1>6

(* The tickets leave the department before it goes, and their predictions  *)
(* are those of a department that is about to go.                          *)
LEMMA ReachReassign ==
    ASSUME SafetyInv, SerialInv, ReachInv, NEW h \in Procs, ReassignTickets(h)
    PROVE  ReachInv'
<1> DEFINE s == [proc[h] EXCEPT !.pc = "drop"]
           Regrouped(t) == [tickets[t] EXCEPT !.department = General]
<1>1. TypeOK /\ proc[h].pc = "reassign" /\ Alone(h)
  BY BusyAlone DEF SafetyInv, ReassignTickets
<1>2. StillTrue(proc[h]) /\ FrameSound(proc[h]) /\ proc[h] \in ProcState
  BY <1>1 DEF ReachInv, SafetyInv, LocalsSound, TypeOK
<1>3. PICK d \in Departments : d = proc[h].dept /\ Live(d) /\ d # General
  BY <1>1, <1>2, ProcFields DEF StillTrue, FrameSound
<1>4. s.pc = "drop" /\ s.dept = d
  BY <1>2, <1>3 DEF ProcState, Frame
<1>5. /\ proc' = [proc EXCEPT ![h] = s] /\ latest' = latest /\ deptState' = deptState
      /\ \A t \in Tickets : tickets'[t] = IF tickets[t] = None THEN None
                                          ELSE IF tickets[t].department = d
                                          THEN Regrouped(t) ELSE tickets[t]
  BY <1>3 DEF ReassignTickets, Become
<1> HIDE DEF s
<1>6. proc'[h] = s
  BY <1>1, <1>5 DEF TypeOK
<1>7. \A t \in Tickets : tickets[t] # None =>
         /\ Regrouped(t) # None /\ Regrouped(t).department = General
         /\ Regrouped(t).priority = tickets[t].priority
         /\ Regrouped(t).priorityOverridden = tickets[t].priorityOverridden
         /\ Regrouped(t).departmentOverridden = tickets[t].departmentOverridden
  <2>1. ASSUME NEW row \in TicketRow
        PROVE  LET new == [row EXCEPT !.department = General] IN
               /\ new \in TicketRow /\ new.department = General
               /\ new.priority = row.priority
               /\ new.priorityOverridden = row.priorityOverridden
               /\ new.departmentOverridden = row.departmentOverridden
    BY TriageConstants DEF TicketRow
  <2>2. \A t \in Tickets : tickets[t] # None => tickets[t] \in TicketRow
    BY <1>1 DEF TypeOK
  <2> QED
    BY <2>1, <2>2, TriageConstants
<1> HIDE DEF Regrouped
<1>8. Unreferenced(d)'
  <2> SUFFICES ASSUME NEW t \in Tickets, tickets'[t] # None
               PROVE  tickets'[t].department # d
    BY DEF Unreferenced
  <2> QED
    BY <1>3, <1>5, <1>7
<1>9. StillTrue(proc[h])'
  BY <1>3, <1>4, <1>5, <1>6, <1>8 DEF StillTrue, Live
<1>10. Leaving(d)'
  BY <1>4, <1>6 DEF Leaving
<1>11. ASSUME NEW t \in Tickets, latest'[t] # None PROVE Reached(t)'
  <2>1. tickets[t] # None /\ PriorityReached(t) /\ DepartmentReached(t)
    BY <1>1, <1>5, <1>11, OnlyOne DEF ReachInv, Reached
  <2>2. CASE tickets[t].department # d
    BY <1>5, <2>1, <2>2 DEF Reached, PriorityReached, DepartmentReached
  <2>3. CASE tickets[t].department = d
    <3>1. tickets'[t] = Regrouped(t) /\ latest'[t] = latest[t]
      BY <1>5, <2>1, <2>3
    <3>2. tickets'[t] # None /\ PriorityReached(t)'
      BY <1>7, <2>1, <3>1 DEF PriorityReached
    <3>3. \/ tickets'[t].departmentOverridden
          \/ latest'[t].department = None
          \/ latest'[t].department = d
      BY <1>7, <2>1, <2>3, <3>1 DEF DepartmentReached
    <3> QED
      BY <1>10, <3>2, <3>3 DEF Reached, DepartmentReached
  <2> QED
    BY <2>2, <2>3
<1> QED
  BY <1>1, <1>5, <1>9, <1>11, ReachMove

(* The department goes, and with it the predictions that named it. *)
LEMMA ReachDrop ==
    ASSUME SafetyInv, SerialInv, ReachInv, NEW h \in Procs, DropDepartment(h)
    PROVE  ReachInv'
<1> DEFINE d == proc[h].dept
           Orphan(t) == [latest[t] EXCEPT !.department = None]
<1>1. TypeOK /\ proc[h].pc = "drop" /\ Alone(h)
  BY BusyAlone DEF SafetyInv, DropDepartment
<1>2. Live(d) /\ Unreferenced(d)
  BY <1>1 DEF ReachInv, StillTrue
<1>3. /\ proc' = [proc EXCEPT ![h] = Idle] /\ tickets' = tickets
      /\ \A t \in Tickets : latest'[t] = IF latest[t] = None THEN None
                                         ELSE IF latest[t].department = d
                                         THEN Orphan(t) ELSE latest[t]
  BY <1>2 DEF DropDepartment, Succeed, Become
<1>4. proc'[h].pc = "idle"
  BY <1>1, <1>3 DEF TypeOK, Idle
<1>5. StillTrue(proc[h])'
  BY <1>4 DEF StillTrue
<1>6. \A t \in Tickets : latest[t] # None =>
         Orphan(t).department = None /\ Orphan(t).priority = latest[t].priority
  BY <1>1 DEF TypeOK, Prediction
<1> HIDE DEF Orphan
<1>7. ASSUME NEW t \in Tickets, latest'[t] # None PROVE Reached(t)'
  <2>1. latest[t] # None
    BY <1>3, <1>7
  <2>2. /\ tickets[t] # None /\ PriorityReached(t)
        /\ DepartmentReached(t) \/ latest[t].department = d
    BY <1>1, <2>1, OnlyOne DEF ReachInv, Reached
  <2>3. CASE latest[t].department = d
    BY <1>3, <1>6, <2>1, <2>2, <2>3 DEF Reached, PriorityReached, DepartmentReached
  <2>4. CASE latest[t].department # d
    BY <1>3, <2>1, <2>2, <2>4 DEF Reached, PriorityReached, DepartmentReached
  <2> QED
    BY <2>3, <2>4
<1> QED
  BY <1>1, <1>3, <1>5, <1>7, ReachMove

(* The requests on departments and the roster.                             *)
LEMMA ReachDepartment ==
    ASSUME ~Overlap, SafetyInv, SerialInv, ReachInv, NEW h \in Handlers, DepartmentRequest(h)
    PROVE  ReachInv'
<1>1. TypeOK /\ h \in Procs
  BY DEF SafetyInv, Procs
<1>2. CASE \E d \in Departments, c \in Categories \cup {None} : CreateDepartment(h, d, c)
  BY <1>2, ReachSame DEF CreateDepartment, Accept, Free
<1>3. CASE \E s \in Staff, d \in Departments \cup {None} : AssignStaff(h, s, d)
  BY <1>3, ReachSame DEF AssignStaff, Accept, Free
<1>4. ASSUME NEW d \in Departments, NEW c \in Categories \cup {None},
             StartUpdateDepartment(h, d, c)
      PROVE  ReachInv'
  <2> DEFINE s == OnDept("redept", d, c)
  <2>1. /\ Alone(h) /\ proc[h].pc = "idle" /\ proc' = [proc EXCEPT ![h] = s]
        /\ UNCHANGED <<tickets, latest, deptState>>
    BY <1>1, <1>4, FreeAlone DEF StartUpdateDepartment, Accept, Become, db
  <2>2. s.pc = "redept"
    BY DEF OnDept, Idle
  <2> HIDE DEF s
  <2> QED
    BY <1>1, <2>1, <2>2, ReachStart
<1>5. ASSUME NEW d \in Departments, StartDeleteDepartment(h, d) PROVE ReachInv'
  <2> DEFINE s == OnDept("reassign", d, None)
  <2>1. /\ Alone(h) /\ proc[h].pc = "idle" /\ proc' = [proc EXCEPT ![h] = s]
        /\ UNCHANGED <<tickets, latest, deptState>> /\ Live(d)
    BY <1>1, <1>5, FreeAlone DEF StartDeleteDepartment, Accept, Become, db, IsDeletable
  <2>2. s.pc = "reassign" /\ s.dept = d
    BY DEF OnDept, Idle
  <2> HIDE DEF s
  <2> QED
    BY <1>1, <2>1, <2>2, ReachStart
<1>6. CASE WriteDepartment(h)
  <2>1. /\ proc[h].pc = "redept" /\ proc' = [proc EXCEPT ![h] = Idle]
        /\ UNCHANGED <<tickets, latest>>
    BY <1>6 DEF WriteDepartment, Succeed, Fail, Become, db
  <2>2. proc'[h].pc = "idle"
    BY <1>1, <2>1 DEF TypeOK, Idle
  <2>3. StillTrue(proc[h])'
    BY <2>2 DEF StillTrue
  <2> QED
    BY <1>1, <2>1, <2>3, BusyAlone, ReachLocal
<1> QED
  BY <1>1, <1>2, <1>3, <1>4, <1>5, <1>6, ReachReassign, ReachDrop DEF DepartmentRequest

(* No ticket has a prediction at the start.                                *)
LEMMA ReachInit == Init => ReachInv
BY StillFree DEF Init, ReachInv, Idle

(* Every step keeps the predictions reached or on their way.               *)
LEMMA ReachStep ==
    ASSUME ~Overlap, ~Faults, MaxCrashes = 0, SafetyInv, SerialInv, ReachInv, [Next]_vars
    PROVE  ReachInv'
<1>1. CASE UNCHANGED vars
  <2>1. \A p \in Procs : StillTrue(proc[p])'
    BY <1>1 DEF ReachInv, StillTrue, Live, Unreferenced, vars
  <2>2. \A t \in Tickets : latest'[t] # None => Reached(t)'
    BY <1>1 DEF ReachInv, Reached, PriorityReached, DepartmentReached, Applying, Leaving, vars
  <2> QED
    BY <2>1, <2>2 DEF ReachInv
<1>2. ASSUME NEW w \in Consumers, ConsumerStep(w) PROVE ReachInv'
  <2>1. w \in Procs
    BY DEF Procs
  <2>2. CASE Load(w)
    <3>1. proc[w].ticket \in Tickets
      BY <2>1, <2>2, ProcFields DEF SafetyInv, TypeOK, Load
    <3> QED
      BY <2>1, <2>2, <3>1, ReachDelivery
  <2> QED
    BY <1>2, <2>1, <2>2, ReachDelivery, ReachAnalysis DEF ConsumerStep
<1>3. ASSUME NEW h \in Handlers, TicketRequest(h) PROVE ReachInv'
  <2>1. h \in Procs
    BY DEF Procs
  <2>2. CASE PublishCreated(h) \/ DropCreated(h) \/ ReadLatest(h) \/ WritePatch(h) \/ WriteAssign(h)
    <3>1. proc[h].ticket \in Tickets
      BY <2>1, <2>2, ProcFields
         DEF SafetyInv, TypeOK, PublishCreated, DropCreated, ReadLatest, WritePatch, WriteAssign
    <3> QED
      BY <2>1, <2>2, <3>1, ReachDelivery, ReachRequest
  <2> QED
    BY <1>3, <2>1, <2>2, ReachDelivery, ReachRequest, ReachAnalysis DEF TicketRequest
<1>4. ASSUME NEW h \in Handlers, DepartmentRequest(h) PROVE ReachInv'
  BY <1>4, ReachDepartment
<1>5. ~Crash /\ \A p \in Procs : ~Abort(p)
  BY DEF Crash, Abort, SafetyInv, TypeOK
<1> QED
  BY <1>1, <1>2, <1>3, <1>4, <1>5 DEF Next

(* With use cases one after another and nothing failing, the latest        *)
(* prediction is in the ticket once everything has settled.                *)
THEOREM PredictionsReach ==
    ASSUME ~Overlap, ~Faults, MaxCrashes = 0 PROVE Spec => []PredictionReachesTicket
<1>1. SafetyInv /\ SerialInv /\ ReachInv /\ [Next]_vars => ReachInv'
  BY ReachStep
<1>2. ReachInv => PredictionReachesTicket
  BY DEF ReachInv, Reached, PriorityReached, DepartmentReached, Applying, Leaving,
         PredictionReachesTicket, Quiet
<1> QED
  BY <1>1, <1>2, ReachInit, SafetyInvariant, UseCasesAreSerial, PTL DEF Spec
=============================================================================
