---------------------------- MODULE TriageProofs ----------------------------
(***************************************************************************)
(* Safety of the triage core for every number of tickets, departments,     *)
(* staff, goroutines and requests, with or without faults and crashes, on  *)
(* either bus.                                                             *)
(***************************************************************************)
EXTENDS Triage, TLAPS

-----------------------------------------------------------------------------
(* Local states. *)

(* A goroutine that finished a use case holds nothing. *)
LEMMA IdleTyped == Idle \in ProcState
BY DEF Idle, ProcState, Frame

(* The local states the use cases on a ticket go through are well formed. *)
LEMMA OnTicketTyped ==
    ASSUME NEW t \in Tickets
    PROVE  /\ \A pc \in {"publish", "load"} : OnTicket(pc, t, None) \in ProcState
           /\ \A pc \in {"classify", "assign"}, row \in TicketRow :
                 OnTicket(pc, t, row) \in ProcState
           /\ \A row \in TicketRow, patch \in Patches :
                 [OnTicket("latest", t, row) EXCEPT !.patch = patch] \in ProcState
BY DEF OnTicket, Idle, ProcState, Frame

(* So are those of the use cases on a department. *)
LEMMA OnDeptTyped ==
    ASSUME NEW d \in Departments
    PROVE  /\ OnDept("reassign", d, None) \in ProcState
           /\ \A c \in Categories \cup {None} : OnDept("redept", d, c) \in ProcState
BY DEF OnDept, Idle, ProcState, Frame

(* What a goroutine holds, by the statement it is about to execute. *)
LEMMA ProcFields ==
    ASSUME NEW s \in ProcState
    PROVE  /\ s.pc \in {"publish", "load"} => s.ticket \in Tickets /\ s.row = None
           /\ s.pc \in {"classify", "assign", "store", "apply", "latest", "patch"}
                 => s.ticket \in Tickets /\ s.row \in TicketRow
           /\ s.pc \in {"store", "apply"} => s.pred \in Routing
           /\ s.pc \in {"latest", "patch"} => s.patch \in Patches
           /\ s.pc = "patch" => s.pred \in Prediction \cup {None}
           /\ s.pc \in {"redept", "reassign", "drop"} => s.dept \in Departments
           /\ s.pc = "redept" => s.category \in Categories \cup {None}
           /\ s.ticket \in Tickets \cup {None}
           /\ s.row \in TicketRow \cup {None}
           /\ s.row # None => s.ticket \in Tickets
           /\ s.pc \in {"idle", "redept", "reassign", "drop"} => s.ticket = None /\ s.row = None
BY TriageConstants DEF ProcState, Frame

(* The steps inside a use case keep its local state well formed. *)
LEMMA ProcSteps ==
    ASSUME NEW s \in ProcState
    PROVE  /\ s.pc = "classify" => \A r \in Routing :
                 [s EXCEPT !.pc = "store", !.pred = r] \in ProcState
           /\ s.pc = "store" => [s EXCEPT !.pc = "apply"] \in ProcState
           /\ s.pc = "latest" => \A r \in Prediction \cup {None} :
                 [s EXCEPT !.pc = "patch", !.pred = r] \in ProcState
           /\ s.pc = "reassign" => [s EXCEPT !.pc = "drop"] \in ProcState
BY DEF ProcState, Frame

-----------------------------------------------------------------------------
(* Row arithmetic. *)

(* A new ticket is a row, unresolved and not overridden. *)
LEMMA NewTicketSound ==
    ASSUME NEW c \in Customers
    PROVE  /\ NewTicket(c) \in TicketRow
           /\ StampMatches(NewTicket(c)) /\ ~Overridden(NewTicket(c))
           /\ NewTicket(c).department = General
BY TriageConstants DEF NewTicket, TicketRow, Statuses, StampMatches, Overridden

(* A patch keeps a row well formed and its stamp in step with its status,  *)
(* and raises a flag only when it was given a prediction to compare with.  *)
LEMMA PatchedSound ==
    ASSUME NEW row \in TicketRow, NEW patch \in Patches,
           NEW pred \in Prediction \cup {None}
    PROVE  /\ Patched(row, patch, pred) \in TicketRow
           /\ StampMatches(row) => StampMatches(Patched(row, patch, pred))
           /\ Overridden(Patched(row, patch, pred)) => Overridden(row) \/ pred # None
<1> DEFINE r1 == SetPriority(row, patch.priority, pred)
           r2 == SetDepartment(r1, patch.department, pred)
<1> patch \in Patch
  BY TriageConstants
<1>1. /\ r1 \in TicketRow
      /\ StampMatches(row) => StampMatches(r1)
      /\ Overridden(r1) => Overridden(row) \/ pred # None
  BY DEF SetPriority, TicketRow, Patch, StampMatches, Overridden
<1> HIDE DEF r1
<1>2. /\ r2 \in TicketRow
      /\ StampMatches(r1) => StampMatches(r2)
      /\ Overridden(r2) => Overridden(r1) \/ pred # None
  BY <1>1 DEF SetDepartment, TicketRow, Patch, StampMatches, Overridden
<1> HIDE DEF r2
<1>3. /\ SetStatus(r2, patch.status) \in TicketRow
      /\ StampMatches(r2) => StampMatches(SetStatus(r2, patch.status))
      /\ Overridden(SetStatus(r2, patch.status)) => Overridden(r2)
  BY <1>2 DEF SetStatus, TicketRow, Patch, StampMatches, Overridden
<1> QED
  BY <1>1, <1>2, <1>3 DEF Patched, r1, r2

(* Applying a prediction changes neither the status nor the flags. *)
LEMMA ApplySound ==
    ASSUME NEW row \in TicketRow, NEW pred \in Routing
    PROVE  /\ ApplyPrediction(row, pred) \in TicketRow
           /\ StampMatches(row) => StampMatches(ApplyPrediction(row, pred))
           /\ Overridden(ApplyPrediction(row, pred)) <=> Overridden(row)
BY DEF ApplyPrediction, TicketRow, Routing, StampMatches, Overridden

(* mapCategory returns a department that exists. *)
LEMMA RoutedLive ==
    ASSUME NEW c \in Categories, Live(General)
    PROVE  Routed(c) \in Departments /\ Live(Routed(c))
BY TriageConstants DEF Routed, Claimed, Claims

-----------------------------------------------------------------------------
(* Steps by the kind of change they make. *)

(* A step that moves one goroutine to a sound local state and leaves the   *)
(* tables alone.                                                           *)
LEMMA LocalStep ==
    ASSUME SafetyInv, NEW p \in Procs, NEW s \in ProcState, FrameSound(s),
           Become(p, s), UNCHANGED db,
           p \in Consumers =>
              s.pc \in {"idle", "load", "classify", "store", "apply"},
           inbox' \in SUBSET Tickets, \A t \in inbox' : tickets[t] # None,
           failed' \in SUBSET Tickets,
           requests' \in 0..MaxRequests, crashes' \in 0..MaxCrashes
    PROVE  SafetyInv'
<1>1. tickets' = tickets /\ latest' = latest /\ autoRuns' = autoRuns
      /\ deptState' = deptState /\ category' = category /\ team' = team
  BY DEF db
<1>2. proc' = [proc EXCEPT ![p] = s]
  BY DEF Become
<1>3. TypeOK'
  BY <1>1, <1>2 DEF SafetyInv, TypeOK
<1>4. \A q \in Procs : FrameSound(proc'[q])
  BY <1>2 DEF SafetyInv, LocalsSound, TypeOK
<1>5. LocalsSound'
  <2>1. \A q \in Procs : FrameSound(proc[q])'
    BY <1>1, <1>4 DEF FrameSound
  <2>2. \A w \in Consumers :
           proc'[w].pc \in {"idle", "load", "classify", "store", "apply"}
    BY <1>2 DEF SafetyInv, LocalsSound, TypeOK, Procs
  <2> QED
    BY <1>1, <2>1, <2>2 DEF LocalsSound
<1>6. NoDanglingDepartment' /\ RoutingDeterministic'
      /\ ResolvedStampMatchesStatus' /\ OverrideNeedsAnalysis'
  BY <1>1 DEF SafetyInv, NoDanglingDepartment, RoutingDeterministic, Live, Claims,
              ResolvedStampMatchesStatus, OverrideNeedsAnalysis
<1> QED
  BY <1>3, <1>5, <1>6 DEF SafetyInv

(* An idle local state is sound. *)
LEMMA IdleSound == FrameSound(Idle)
BY DEF FrameSound, Idle

(* The inbox after a use case ends holds only events it held before. *)
LEMMA AckShrinks ==
    ASSUME SafetyInv, NEW p \in Procs, Ack(p)
    PROVE  inbox' \in SUBSET Tickets /\ \A t \in inbox' : tickets[t] # None
BY DEF Ack, SafetyInv, TypeOK, LocalsSound

(* A failure counts a ticket: only consumers count, and they work on one. *)
LEMMA FailedTyped ==
    ASSUME SafetyInv, NEW p \in Procs, proc[p].pc # "idle", Fail(p)
    PROVE  failed' \in SUBSET Tickets
<1>1. proc[p] \in ProcState
  BY DEF SafetyInv, TypeOK
<1>2. p \in Consumers => proc[p].ticket \in Tickets
  BY <1>1, ProcFields DEF SafetyInv, LocalsSound
<1> QED
  BY <1>2 DEF Fail, SafetyInv, TypeOK

(* A use case that ends without having written in this step. *)
LEMMA EndStep ==
    ASSUME SafetyInv, NEW p \in Procs, UNCHANGED db,
           \/ Succeed(p)
           \/ proc[p].pc # "idle" /\ Fail(p)
    PROVE  SafetyInv'
<1>1. Become(p, Idle) /\ Ack(p)
      /\ UNCHANGED <<requests, crashes>> /\ failed' \in SUBSET Tickets
  BY FailedTyped DEF Succeed, Fail, SafetyInv, TypeOK
<1>2. requests' \in 0..MaxRequests /\ crashes' \in 0..MaxCrashes
  BY <1>1 DEF SafetyInv, TypeOK
<1>3. Idle.pc = "idle"
  BY DEF Idle
<1> QED
  BY <1>1, <1>2, <1>3, LocalStep, IdleTyped, IdleSound, AckShrinks

(* TicketRepo.Update of a sound row, or its refusal. *)
LEMMA WriteStep ==
    ASSUME SafetyInv, NEW p \in Procs, proc[p].pc # "idle", NEW row \in TicketRow,
           proc[p].ticket \in Tickets, StampMatches(row),
           Overridden(row) => latest[proc[p].ticket] # None,
           WriteRow(p, row)
    PROVE  SafetyInv'
<1>1. CASE ~Live(row.department)
  BY <1>1, EndStep DEF WriteRow
<1>2. CASE Live(row.department)
  <2>1. /\ tickets' = [tickets EXCEPT ![proc[p].ticket] = row]
        /\ latest' = latest /\ autoRuns' = autoRuns /\ deptState' = deptState
        /\ category' = category /\ team' = team /\ Respond(p)
    BY <1>2 DEF WriteRow
  <2>2. /\ proc' = [proc EXCEPT ![p] = Idle] /\ Ack(p)
        /\ failed' \in SUBSET Tickets /\ requests' = requests /\ crashes' = crashes
    BY <2>1, FailedTyped DEF Respond, Succeed, Fail, Become, SafetyInv, TypeOK
  <2>3. inbox' \in SUBSET Tickets /\ \A t \in inbox' : tickets[t] # None
    BY <2>2, AckShrinks
  <2>4. TypeOK'
    BY <2>1, <2>2, <2>3, IdleTyped DEF SafetyInv, TypeOK
  <2>5. row # None
    BY TriageConstants
  <2>6. \A t \in Tickets : tickets[t] # None => tickets'[t] # None
    BY <2>1, <2>5 DEF SafetyInv, TypeOK
  <2>7. LocalsSound'
    <3>1. \A q \in Procs : FrameSound(proc'[q]) /\ proc'[q] \in ProcState
      BY <2>2, IdleSound, IdleTyped DEF SafetyInv, LocalsSound, TypeOK
    <3>2. \A q \in Procs : FrameSound(proc[q])'
      BY <2>1, <2>6, <3>1, ProcFields DEF FrameSound
    <3>3. \A w \in Consumers :
             proc'[w].pc \in {"idle", "load", "classify", "store", "apply"}
      BY <2>2 DEF SafetyInv, LocalsSound, TypeOK, Procs, Idle
    <3> QED
      BY <2>3, <2>6, <3>2, <3>3 DEF LocalsSound
  <2>8. NoDanglingDepartment' /\ RoutingDeterministic'
    BY <1>2, <2>1, <2>5 DEF SafetyInv, TypeOK, NoDanglingDepartment,
                            RoutingDeterministic, Live, Claims
  <2>9. ResolvedStampMatchesStatus' /\ OverrideNeedsAnalysis'
    BY <2>1, <2>5 DEF SafetyInv, TypeOK, ResolvedStampMatchesStatus,
                      OverrideNeedsAnalysis
  <2> QED
    BY <2>4, <2>7, <2>8, <2>9 DEF SafetyInv
<1> QED
  BY <1>1, <1>2

-----------------------------------------------------------------------------
(* One lemma per group of actions. *)

(* Accepting a request keeps the counters in range. *)
LEMMA AcceptBounds ==
    ASSUME SafetyInv, NEW h \in Handlers, Accept(h)
    PROVE  /\ h \in Procs /\ h \notin Consumers /\ proc[h].pc = "idle"
           /\ requests' \in 0..MaxRequests /\ crashes' \in 0..MaxCrashes
           /\ failed' \in SUBSET Tickets /\ crashes' = crashes /\ failed' = failed
BY TriageConstants DEF Accept, Free, Procs, SafetyInv, TypeOK

(* CreateTicket and the publication of its event. *)
LEMMA CreateSteps ==
    ASSUME SafetyInv, NEW h \in Handlers,
           \/ \E t \in Tickets, c \in Customers : CreateTicket(h, t, c)
           \/ PublishCreated(h)
           \/ DropCreated(h)
    PROVE  SafetyInv'
<1>1. ASSUME NEW t \in Tickets, NEW c \in Customers, CreateTicket(h, t, c)
      PROVE  SafetyInv'
  <2> DEFINE s == OnTicket("publish", t, None)
  <2>1. /\ tickets[t] = None
        /\ tickets' = [tickets EXCEPT ![t] = NewTicket(c)]
        /\ proc' = [proc EXCEPT ![h] = s]
        /\ latest' = latest /\ autoRuns' = autoRuns /\ deptState' = deptState
        /\ category' = category /\ team' = team /\ inbox' = inbox
    BY <1>1 DEF CreateTicket, Become
  <2>2. /\ h \in Procs /\ h \notin Consumers
        /\ requests' \in 0..MaxRequests /\ crashes' \in 0..MaxCrashes
        /\ failed' = failed
    BY <1>1, AcceptBounds DEF CreateTicket
  <2>3. s \in ProcState /\ s.ticket = t /\ s.row = None /\ s.pc = "publish"
    BY OnTicketTyped DEF OnTicket, Idle
  <2> HIDE DEF s
  <2>4. NewTicket(c) \in TicketRow /\ NewTicket(c) # None
    BY NewTicketSound, TriageConstants
  <2>5. TypeOK'
    BY <2>1, <2>2, <2>3, <2>4 DEF SafetyInv, TypeOK
  <2>6. \A u \in Tickets : tickets[u] # None => tickets'[u] # None
    BY <2>1, <2>4 DEF SafetyInv, TypeOK
  <2>7. tickets'[t] # None
    BY <2>1, <2>4 DEF SafetyInv, TypeOK
  <2>8. LocalsSound'
    <3>1. ASSUME NEW q \in Procs PROVE FrameSound(proc[q])'
      <4>1. CASE q = h
        BY <4>1, <2>1, <2>2, <2>3, <2>7 DEF FrameSound, SafetyInv, TypeOK
      <4>2. CASE q # h
        <5>1. proc'[q] = proc[q] /\ FrameSound(proc[q]) /\ proc[q] \in ProcState
          BY <4>2, <2>1 DEF SafetyInv, LocalsSound, TypeOK
        <5> QED
          BY <5>1, <2>1, <2>6, ProcFields DEF FrameSound
      <4> QED BY <4>1, <4>2
    <3>2. \A w \in Consumers :
             proc'[w].pc \in {"idle", "load", "classify", "store", "apply"}
      BY <2>1, <2>2 DEF SafetyInv, LocalsSound, TypeOK, Procs
    <3> QED
      BY <2>1, <2>6, <3>1, <3>2 DEF LocalsSound, SafetyInv, TypeOK
  <2>9. NoDanglingDepartment' /\ RoutingDeterministic'
    BY <2>1, <2>4, NewTicketSound DEF SafetyInv, TypeOK, NoDanglingDepartment,
                            RoutingDeterministic, Live, Claims
  <2>10. ResolvedStampMatchesStatus' /\ OverrideNeedsAnalysis'
    BY <2>1, <2>4, NewTicketSound DEF SafetyInv, TypeOK, ResolvedStampMatchesStatus,
                      OverrideNeedsAnalysis
  <2> QED
    BY <2>5, <2>8, <2>9, <2>10 DEF SafetyInv
<1>2. ASSUME PublishCreated(h) \/ DropCreated(h)
      PROVE  SafetyInv'
  <2>1. /\ Become(h, Idle) /\ UNCHANGED db /\ failed' = failed
        /\ requests' = requests /\ crashes' = crashes
        /\ inbox' \subseteq inbox \cup {proc[h].ticket}
        /\ proc[h].pc = "publish" /\ h \in Procs
    BY <1>2 DEF PublishCreated, DropCreated, Procs
  <2>2. proc[h].ticket \in Tickets /\ proc[h].ticket # None
    BY <2>1, ProcFields, TriageConstants DEF SafetyInv, TypeOK
  <2>3. inbox' \in SUBSET Tickets /\ \A t \in inbox' : tickets[t] # None
    BY <2>1, <2>2 DEF SafetyInv, TypeOK, LocalsSound, FrameSound
  <2>4. /\ failed' \in SUBSET Tickets
        /\ requests' \in 0..MaxRequests /\ crashes' \in 0..MaxCrashes
    BY <2>1 DEF SafetyInv, TypeOK
  <2>5. Idle.pc = "idle"
    BY DEF Idle
  <2> QED
    BY <2>1, <2>3, <2>4, <2>5, LocalStep, IdleTyped, IdleSound
<1> QED
  BY <1>1, <1>2

(* A goroutine that copies the current row starts from a sound copy. *)
LEMMA CopySound ==
    ASSUME SafetyInv, NEW t \in Tickets, tickets[t] # None, NEW s \in ProcState,
           s.ticket = t, s.pc \notin {"patch", "reassign", "drop"},
           s.row # None => /\ StampMatches(s.row) <=> StampMatches(tickets[t])
                           /\ Overridden(s.row) => Overridden(tickets[t])
    PROVE  FrameSound(s)
BY DEF SafetyInv, ResolvedStampMatchesStatus, OverrideNeedsAnalysis, FrameSound

(* A step that starts or continues a use case on ticket t. *)
LEMMA TicketStep ==
    ASSUME SafetyInv, NEW p \in Procs, NEW t \in Tickets, tickets[t] # None,
           NEW s \in ProcState, s.ticket = t, FrameSound(s), Become(p, s),
           UNCHANGED db, inbox' \subseteq inbox,
           p \in Consumers => s.pc \in {"load", "classify", "store", "apply"},
           failed' = failed, crashes' = crashes, requests' \in 0..MaxRequests
    PROVE  SafetyInv'
<1>1. /\ inbox' \in SUBSET Tickets /\ \A u \in inbox' : tickets[u] # None
      /\ failed' \in SUBSET Tickets /\ crashes' \in 0..MaxCrashes
  BY DEF SafetyInv, TypeOK, LocalsSound
<1> QED
  BY <1>1, LocalStep

(* The delivery of ticket.created and the first read of the use case. *)
LEMMA DeliverySteps ==
    ASSUME SafetyInv, NEW w \in Consumers,
           \/ \E t \in Tickets : Consume(w, t) \/ SkipAnalyzed(w, t)
           \/ Load(w)
    PROVE  SafetyInv'
<1> w \in Procs
  BY DEF Procs
<1>1. ASSUME NEW t \in Tickets, Consume(w, t) PROVE SafetyInv'
  <2> DEFINE s == OnTicket("load", t, None)
  <2>1. s \in ProcState /\ s.ticket = t /\ s.row = None /\ s.pc = "load"
    BY OnTicketTyped DEF OnTicket, Idle
  <2> HIDE DEF s
  <2>2. /\ Become(w, s) /\ UNCHANGED db /\ inbox' \subseteq inbox /\ t \in inbox
        /\ failed' = failed /\ crashes' = crashes /\ requests' = requests
    BY <1>1 DEF Consume, s
  <2>3. tickets[t] # None /\ requests' \in 0..MaxRequests
    BY <2>2 DEF SafetyInv, LocalsSound, TypeOK
  <2> QED
    BY <2>1, <2>2, <2>3, CopySound, TicketStep
<1>2. ASSUME NEW t \in Tickets, SkipAnalyzed(w, t) PROVE SafetyInv'
  <2>1. /\ UNCHANGED <<db, failed, proc, requests, crashes>>
        /\ inbox' \subseteq inbox
    BY <1>2 DEF SkipAnalyzed
  <2>2. proc[w] \in ProcState /\ Become(w, proc[w]) /\ FrameSound(proc[w])
    BY <2>1 DEF Become, SafetyInv, TypeOK, LocalsSound
  <2>3. proc[w].pc \in {"idle", "load", "classify", "store", "apply"}
    BY DEF SafetyInv, LocalsSound
  <2>4. /\ inbox' \in SUBSET Tickets /\ \A u \in inbox' : tickets[u] # None
        /\ failed' \in SUBSET Tickets /\ requests' \in 0..MaxRequests
        /\ crashes' \in 0..MaxCrashes
    BY <2>1 DEF SafetyInv, TypeOK, LocalsSound
  <2> QED
    BY <2>1, <2>2, <2>3, <2>4, LocalStep
<1>3. ASSUME Load(w) PROVE SafetyInv'
  <2> DEFINE t == proc[w].ticket
             s == OnTicket("classify", t, tickets[t])
  <2>1. proc[w] \in ProcState /\ proc[w].pc = "load" /\ FrameSound(proc[w])
    BY <1>3 DEF Load, SafetyInv, TypeOK, LocalsSound
  <2>2. t \in Tickets /\ t # None
    BY <2>1, ProcFields, TriageConstants
  <2>3. tickets[t] # None /\ tickets[t] \in TicketRow
    BY <2>1, <2>2 DEF FrameSound, SafetyInv, TypeOK
  <2>4. /\ Become(w, s) /\ UNCHANGED db /\ inbox' = inbox
        /\ failed' = failed /\ crashes' = crashes /\ requests' = requests
    BY <1>3 DEF Load
  <2>5. s \in ProcState /\ s.ticket = t /\ s.row = tickets[t] /\ s.pc = "classify"
    BY <2>2, <2>3, OnTicketTyped DEF OnTicket, Idle
  <2>6. requests' \in 0..MaxRequests
    BY <2>4 DEF SafetyInv, TypeOK
  <2> HIDE DEF t, s
  <2> QED
    BY <2>2, <2>3, <2>4, <2>5, <2>6, CopySound, TicketStep
<1> QED
  BY <1>1, <1>2, <1>3

(* Classification, and the write of its result. *)
LEMMA AnalysisSteps ==
    ASSUME SafetyInv, NEW p \in Procs, Analysis(p)
    PROVE  SafetyInv'
<1> DEFINE t == proc[p].ticket
<1>0. proc[p] \in ProcState /\ FrameSound(proc[p])
  BY DEF SafetyInv, TypeOK, LocalsSound
<1>1. /\ proc[p].pc \in {"classify", "store", "apply"}
      /\ t \in Tickets /\ t # None /\ tickets[t] # None
      /\ proc[p].row \in TicketRow /\ proc[p].row # None
      /\ proc[p].pc \in {"store", "apply"} => proc[p].pred \in Routing
  <2>1. proc[p].pc \in {"classify", "store", "apply"}
    BY DEF Analysis, Classify, Store, Apply
  <2>2. t \in Tickets /\ proc[p].row \in TicketRow
        /\ (proc[p].pc \in {"store", "apply"} => proc[p].pred \in Routing)
    BY <1>0, <2>1, ProcFields
  <2> QED
    BY <1>0, <2>1, <2>2, TriageConstants DEF FrameSound
<1>2. ASSUME Classify(p) PROVE SafetyInv'
  <2>1. PICK v \in Priorities, c \in Categories :
           Become(p, [proc[p] EXCEPT
                        !.pc = "store",
                        !.pred = [priority |-> v, department |-> Routed(c),
                                  fallback |-> ~Claimed(c)]])
    BY <1>2 DEF Classify
  <2> DEFINE r == [priority |-> v, department |-> Routed(c), fallback |-> ~Claimed(c)]
             s == [proc[p] EXCEPT !.pc = "store", !.pred = r]
  <2>2. r \in Routing
    BY RoutedLive DEF Routing, SafetyInv, NoDanglingDepartment, Claimed
  <2>3. proc[p].pc = "classify"
    BY <1>2 DEF Classify
  <2>4. s \in ProcState
    BY <1>0, <2>2, <2>3, ProcSteps
  <2>5. s.ticket = t /\ s.row = proc[p].row /\ s.pc = "store"
    BY <1>0 DEF ProcState, Frame
  <2>6. FrameSound(s)
    BY <1>0, <1>1, <2>5 DEF FrameSound
  <2>7. /\ UNCHANGED db /\ inbox' = inbox /\ failed' = failed
        /\ crashes' = crashes /\ requests' \in 0..MaxRequests
    BY <1>2 DEF Classify, SafetyInv, TypeOK
  <2>8. Become(p, s)
    BY <2>1
  <2> HIDE DEF s, t
  <2> QED
    BY <1>1, <2>4, <2>5, <2>6, <2>7, <2>8, TicketStep
<1>3. ASSUME Store(p) PROVE SafetyInv'
  <2> DEFINE s == [proc[p] EXCEPT !.pc = "apply"]
             r == proc[p].pred
  <2>0. proc[p].pc = "store"
    BY <1>3 DEF Store
  <2>1. CASE ~Live(r.department)
    BY <1>3, <2>0, <2>1, EndStep DEF Store
  <2>2. CASE Live(r.department)
    <3>1. /\ latest' = [latest EXCEPT ![t] = r]
          /\ autoRuns' = IF p \in Consumers
                         THEN [autoRuns EXCEPT ![t] = @ + 1] ELSE autoRuns
          /\ proc' = [proc EXCEPT ![p] = s]
          /\ tickets' = tickets /\ failed' = failed /\ deptState' = deptState
          /\ category' = category /\ team' = team /\ inbox' = inbox
          /\ requests' = requests /\ crashes' = crashes
      BY <1>3, <2>2 DEF Store, Become
    <3>2. s \in ProcState
      BY <1>0, <2>0, ProcSteps
    <3>3. s.ticket = t /\ s.row = proc[p].row /\ s.pc = "apply"
      BY <1>0 DEF ProcState, Frame
    <3>4. r \in Routing /\ r \in Prediction /\ r # None
      <4>1. r \in Routing
        BY <1>1, <2>0
      <4>2. r \in Prediction
        BY <4>1 DEF Routing, Prediction
      <4> QED
        BY <4>1, <4>2, TriageConstants
    <3>5. TypeOK'
      BY <1>1, <3>1, <3>2, <3>4 DEF SafetyInv, TypeOK
    <3>6. \A u \in Tickets : latest[u] # None => latest'[u] # None
      BY <1>1, <3>1, <3>4 DEF SafetyInv, TypeOK
    <3>7. LocalsSound'
      <4>1. ASSUME NEW q \in Procs PROVE FrameSound(proc[q])'
        <5>1. CASE q = p
          <6>1. proc'[q] = s
            BY <5>1, <3>1 DEF SafetyInv, TypeOK
          <6>2. latest'[t] # None
            BY <1>1, <3>1, <3>4 DEF SafetyInv, TypeOK
          <6> QED
            BY <6>1, <6>2, <1>0, <1>1, <3>1, <3>3 DEF FrameSound
        <5>2. CASE q # p
          <6>1. proc'[q] = proc[q] /\ FrameSound(proc[q]) /\ proc[q] \in ProcState
            BY <5>2, <3>1 DEF SafetyInv, LocalsSound, TypeOK
          <6>2. /\ proc[q].row # None => proc[q].ticket \in Tickets
                /\ proc[q].pc = "patch" => proc[q].ticket \in Tickets
            BY <6>1, ProcFields
          <6> QED
            BY <6>1, <6>2, <3>1, <3>6 DEF FrameSound
        <5> QED BY <5>1, <5>2
      <4>2. \A w \in Consumers :
               proc'[w].pc \in {"idle", "load", "classify", "store", "apply"}
        BY <3>1, <3>3 DEF SafetyInv, LocalsSound, TypeOK, Procs
      <4> QED
        BY <3>1, <4>1, <4>2 DEF LocalsSound, SafetyInv
    <3>8. NoDanglingDepartment' /\ RoutingDeterministic'
      BY <2>2, <3>1, <3>4 DEF SafetyInv, TypeOK, NoDanglingDepartment,
                              RoutingDeterministic, Live, Claims
    <3>9. ResolvedStampMatchesStatus' /\ OverrideNeedsAnalysis'
      BY <3>1, <3>6 DEF SafetyInv, ResolvedStampMatchesStatus, OverrideNeedsAnalysis
    <3> QED
      BY <3>5, <3>7, <3>8, <3>9 DEF SafetyInv
  <2> QED
    BY <2>1, <2>2
<1>4. ASSUME Apply(p) PROVE SafetyInv'
  <2> DEFINE new == ApplyPrediction(proc[p].row, proc[p].pred)
  <2>1. proc[p].pc = "apply" /\ proc[p].pred \in Routing
    BY <1>1, <1>4 DEF Apply
  <2>2. \/ WriteRow(p, new)
        \/ UNCHANGED db /\ (Succeed(p) \/ Fail(p))
    BY <1>4 DEF Apply, Respond
  <2>3. /\ new \in TicketRow
        /\ StampMatches(new)
        /\ Overridden(new) => latest[t] # None
    BY <1>0, <1>1, <2>1, ApplySound DEF FrameSound
  <2> HIDE DEF new
  <2> QED
    BY <1>1, <2>1, <2>2, <2>3, WriteStep, EndStep
<1> QED
  BY <1>2, <1>3, <1>4 DEF Analysis

(* Requests that start from a copy of the current row, and their writes. *)
LEMMA RequestSteps ==
    ASSUME SafetyInv, NEW h \in Handlers,
           \/ \E t \in Tickets :
                 \/ Rerun(h, t)
                 \/ \E patch \in Patches : StartPatch(h, t, patch)
                 \/ \E a \in Staff \cup {None} : StartAssign(h, t, a)
           \/ ReadLatest(h) \/ WritePatch(h) \/ WriteAssign(h)
    PROVE  SafetyInv'
<1>0. h \in Procs /\ h \notin Consumers /\ proc[h] \in ProcState /\ FrameSound(proc[h])
  BY TriageConstants DEF Procs, SafetyInv, TypeOK, LocalsSound
<1>1. ASSUME NEW t \in Tickets, Rerun(h, t) PROVE SafetyInv'
  <2> DEFINE s == OnTicket("classify", t, tickets[t])
  <2>1. /\ tickets[t] # None /\ tickets[t] \in TicketRow
        /\ Become(h, s) /\ UNCHANGED db /\ inbox' = inbox
        /\ failed' = failed /\ crashes' = crashes /\ requests' \in 0..MaxRequests
    BY <1>1, AcceptBounds DEF Rerun, SafetyInv, TypeOK
  <2>2. s \in ProcState /\ s.ticket = t /\ s.row = tickets[t] /\ s.pc = "classify"
    BY <2>1, OnTicketTyped DEF OnTicket, Idle
  <2> HIDE DEF s
  <2> QED
    BY <1>0, <2>1, <2>2, CopySound, TicketStep
<1>2. ASSUME NEW t \in Tickets, NEW patch \in Patches, StartPatch(h, t, patch)
      PROVE  SafetyInv'
  <2> DEFINE s == [OnTicket("latest", t, tickets[t]) EXCEPT !.patch = patch]
  <2>1. /\ tickets[t] # None /\ tickets[t] \in TicketRow
        /\ Become(h, s) /\ UNCHANGED db /\ inbox' = inbox
        /\ failed' = failed /\ crashes' = crashes /\ requests' \in 0..MaxRequests
    BY <1>2, AcceptBounds DEF StartPatch, SafetyInv, TypeOK
  <2>2. s \in ProcState /\ s.ticket = t /\ s.row = tickets[t] /\ s.pc = "latest"
    BY <2>1, OnTicketTyped DEF OnTicket, Idle
  <2> HIDE DEF s
  <2> QED
    BY <1>0, <2>1, <2>2, CopySound, TicketStep
<1>3. ASSUME NEW t \in Tickets, NEW a \in Staff \cup {None}, StartAssign(h, t, a)
      PROVE  SafetyInv'
  <2> DEFINE row == [tickets[t] EXCEPT !.assignee = a]
             s == OnTicket("assign", t, row)
  <2>1. /\ tickets[t] # None /\ tickets[t] \in TicketRow
        /\ Become(h, s) /\ UNCHANGED db /\ inbox' = inbox
        /\ failed' = failed /\ crashes' = crashes /\ requests' \in 0..MaxRequests
    BY <1>3, AcceptBounds DEF StartAssign, SafetyInv, TypeOK
  <2>2. /\ row \in TicketRow
        /\ StampMatches(row) <=> StampMatches(tickets[t])
        /\ Overridden(row) <=> Overridden(tickets[t])
    BY <2>1 DEF TicketRow, StampMatches, Overridden
  <2> HIDE DEF row
  <2>3. s \in ProcState /\ s.ticket = t /\ s.row = row /\ s.pc = "assign"
    BY <2>2, OnTicketTyped DEF OnTicket, Idle
  <2> HIDE DEF s
  <2> QED
    BY <1>0, <2>1, <2>2, <2>3, CopySound, TicketStep
<1>4. ASSUME ReadLatest(h) PROVE SafetyInv'
  <2> DEFINE t == proc[h].ticket
             s == [proc[h] EXCEPT !.pc = "patch", !.pred = latest[t]]
  <2>1. /\ proc[h].pc = "latest" /\ Become(h, s) /\ UNCHANGED db /\ inbox' = inbox
        /\ failed' = failed /\ crashes' = crashes /\ requests' \in 0..MaxRequests
    BY <1>4 DEF ReadLatest, SafetyInv, TypeOK
  <2>2. t \in Tickets /\ t # None /\ latest[t] \in Prediction \cup {None}
    BY <1>0, <2>1, ProcFields, TriageConstants DEF SafetyInv, TypeOK
  <2>3. s \in ProcState
    BY <1>0, <2>1, <2>2, ProcSteps
  <2>4. s.ticket = t /\ s.row = proc[h].row /\ s.pc = "patch" /\ s.pred = latest[t]
    BY <1>0 DEF ProcState, Frame
  <2>5. FrameSound(s) /\ tickets[t] # None
    BY <1>0, <2>1, <2>2, <2>4 DEF FrameSound
  <2> HIDE DEF s, t
  <2> QED
    BY <1>0, <2>1, <2>2, <2>3, <2>4, <2>5, TicketStep
<1>5. ASSUME WritePatch(h) PROVE SafetyInv'
  <2> DEFINE new == Patched(proc[h].row, proc[h].patch, proc[h].pred)
  <2>1. proc[h].pc = "patch" /\ WriteRow(h, new)
    BY <1>5 DEF WritePatch
  <2>2. /\ proc[h].row \in TicketRow /\ proc[h].row # None /\ proc[h].ticket \in Tickets
        /\ proc[h].patch \in Patches /\ proc[h].pred \in Prediction \cup {None}
    BY <1>0, <2>1, ProcFields, TriageConstants
  <2>3. /\ new \in TicketRow
        /\ StampMatches(new)
        /\ Overridden(new) => latest[proc[h].ticket] # None
    BY <1>0, <2>1, <2>2, PatchedSound DEF FrameSound
  <2> HIDE DEF new
  <2> QED
    BY <1>0, <2>1, <2>2, <2>3, WriteStep
<1>6. ASSUME WriteAssign(h) PROVE SafetyInv'
  <2>1. proc[h].pc = "assign" /\ WriteRow(h, proc[h].row)
    BY <1>6 DEF WriteAssign
  <2>2. /\ proc[h].row \in TicketRow /\ proc[h].row # None /\ proc[h].ticket \in Tickets
    BY <1>0, <2>1, ProcFields, TriageConstants
  <2>3. /\ StampMatches(proc[h].row)
        /\ Overridden(proc[h].row) => latest[proc[h].ticket] # None
    BY <1>0, <2>2 DEF FrameSound
  <2> QED
    BY <1>0, <2>1, <2>2, <2>3, WriteStep
<1> QED
  BY <1>1, <1>2, <1>3, <1>4, <1>5, <1>6

(* The frame of a goroutine does not depend on departments or the roster,  *)
(* only on which tickets exist and which have an analysis.                 *)
LEMMA LocalsKept ==
    ASSUME SafetyInv, inbox' \subseteq inbox,
           \A t \in Tickets : tickets[t] # None => tickets'[t] # None,
           \A t \in Tickets : latest[t] # None => latest'[t] # None,
           NEW p \in Procs, NEW s \in ProcState, p \notin Consumers,
           s.ticket = None, s.row = None, s.pc # "patch",
           s.pc \in {"reassign", "drop"} => s.dept # General,
           proc' = [proc EXCEPT ![p] = s]
    PROVE  LocalsSound'
<1>1. ASSUME NEW q \in Procs PROVE FrameSound(proc[q])'
  <2>1. CASE q = p
    <3>1. proc'[q] = s
      BY <2>1 DEF SafetyInv, TypeOK
    <3> QED
      BY <3>1 DEF FrameSound
  <2>2. CASE q # p
    <3>1. proc'[q] = proc[q] /\ FrameSound(proc[q]) /\ proc[q] \in ProcState
      BY <2>2 DEF SafetyInv, LocalsSound, TypeOK
    <3>2. /\ proc[q].ticket # None => proc[q].ticket \in Tickets
          /\ proc[q].row # None => proc[q].ticket \in Tickets
          /\ proc[q].pc = "patch" => proc[q].ticket \in Tickets
      BY <3>1, ProcFields
    <3> QED
      BY <3>1, <3>2 DEF FrameSound
  <2> QED BY <2>1, <2>2
<1>2. \A w \in Consumers :
         proc'[w].pc \in {"idle", "load", "classify", "store", "apply"}
  BY DEF SafetyInv, LocalsSound, TypeOK, Procs
<1> QED
  BY <1>1, <1>2 DEF LocalsSound, SafetyInv, TypeOK

(* Creating and renaming departments, and the roster. *)
LEMMA DepartmentSteps ==
    ASSUME SafetyInv, NEW h \in Handlers,
           \/ \E d \in Departments, c \in Categories \cup {None} :
                 CreateDepartment(h, d, c) \/ StartUpdateDepartment(h, d, c)
           \/ WriteDepartment(h)
           \/ \E s \in Staff, d \in Departments \cup {None} : AssignStaff(h, s, d)
    PROVE  SafetyInv'
<1>0. h \in Procs /\ h \notin Consumers /\ proc[h] \in ProcState /\ FrameSound(proc[h])
  BY TriageConstants DEF Procs, SafetyInv, TypeOK, LocalsSound
<1>1. ASSUME NEW d \in Departments, NEW c \in Categories \cup {None},
             CreateDepartment(h, d, c)
      PROVE  SafetyInv'
  <2>1. /\ deptState[d] = "unborn" /\ CategoryFree(d, c)
        /\ deptState' = [deptState EXCEPT ![d] = "live"]
        /\ category' = [category EXCEPT ![d] = c]
        /\ tickets' = tickets /\ latest' = latest /\ autoRuns' = autoRuns
        /\ team' = team /\ inbox' = inbox /\ proc' = proc
    BY <1>1 DEF CreateDepartment
  <2>2. TypeOK'
    BY <1>1, <2>1, AcceptBounds DEF SafetyInv, TypeOK, CreateDepartment
  <2>3. LocalsSound'
    BY <2>1 DEF SafetyInv, LocalsSound, FrameSound
  <2>4. NoDanglingDepartment'
    BY <2>1 DEF SafetyInv, TypeOK, NoDanglingDepartment, Live
  <2>5. RoutingDeterministic'
    BY <2>1, TriageConstants DEF SafetyInv, TypeOK, RoutingDeterministic, Live, Claims, CategoryFree
  <2>6. ResolvedStampMatchesStatus' /\ OverrideNeedsAnalysis'
    BY <2>1 DEF SafetyInv, ResolvedStampMatchesStatus, OverrideNeedsAnalysis
  <2> QED
    BY <2>2, <2>3, <2>4, <2>5, <2>6 DEF SafetyInv
<1>2. ASSUME NEW d \in Departments, NEW c \in Categories \cup {None},
             StartUpdateDepartment(h, d, c)
      PROVE  SafetyInv'
  <2> DEFINE s == OnDept("redept", d, c)
  <2>1. /\ Become(h, s) /\ UNCHANGED db /\ inbox' = inbox
        /\ failed' \in SUBSET Tickets /\ requests' \in 0..MaxRequests
        /\ crashes' \in 0..MaxCrashes
    BY <1>2, AcceptBounds DEF StartUpdateDepartment
  <2>2. s \in ProcState /\ FrameSound(s)
    BY OnDeptTyped DEF OnDept, Idle, FrameSound
  <2>3. inbox' \in SUBSET Tickets /\ \A t \in inbox' : tickets[t] # None
    BY <2>1 DEF SafetyInv, TypeOK, LocalsSound
  <2> HIDE DEF s
  <2> QED
    BY <1>0, <2>1, <2>2, <2>3, LocalStep
<1>3. ASSUME WriteDepartment(h) PROVE SafetyInv'
  <2> DEFINE d == proc[h].dept
             c == proc[h].category
  <2>0. proc[h].pc = "redept"
    BY <1>3 DEF WriteDepartment
  <2>1. CASE ~(Live(d) /\ CategoryFree(d, c))
    BY <1>0, <1>3, <2>0, <2>1, EndStep DEF WriteDepartment
  <2>2. CASE Live(d) /\ CategoryFree(d, c)
    <3>1. /\ category' = [category EXCEPT ![d] = c]
          /\ tickets' = tickets /\ latest' = latest /\ autoRuns' = autoRuns
          /\ deptState' = deptState /\ team' = team /\ Succeed(h)
      BY <1>3, <2>2 DEF WriteDepartment
    <3>2. d \in Departments /\ c \in Categories \cup {None}
      BY <1>0, <2>0, ProcFields
    <3>3. /\ proc' = [proc EXCEPT ![h] = Idle] /\ inbox' = inbox /\ failed' = failed
          /\ requests' = requests /\ crashes' = crashes
      BY <1>0, <3>1 DEF Succeed, Become, Ack
    <3>4. TypeOK'
      BY <3>1, <3>2, <3>3, IdleTyped DEF SafetyInv, TypeOK
    <3>5. LocalsSound'
      <4>1. /\ Idle.ticket = None /\ Idle.row = None /\ Idle.pc # "patch"
            /\ Idle.pc \notin {"reassign", "drop"}
        BY DEF Idle
      <4> QED
        BY <1>0, <3>1, <3>3, <4>1, IdleTyped, LocalsKept
    <3>6. NoDanglingDepartment'
      BY <3>1 DEF SafetyInv, NoDanglingDepartment, Live
    <3>7. RoutingDeterministic'
      BY <2>2, <3>1, <3>2, TriageConstants
      DEF SafetyInv, TypeOK, RoutingDeterministic, Live, Claims, CategoryFree
    <3>8. ResolvedStampMatchesStatus' /\ OverrideNeedsAnalysis'
      BY <3>1 DEF SafetyInv, ResolvedStampMatchesStatus, OverrideNeedsAnalysis
    <3> QED
      BY <3>4, <3>5, <3>6, <3>7, <3>8 DEF SafetyInv
  <2> QED
    BY <2>1, <2>2
<1>4. ASSUME NEW s \in Staff, NEW d \in Departments \cup {None}, AssignStaff(h, s, d)
      PROVE  SafetyInv'
  <2>1. /\ team' = [team EXCEPT ![s] = d] /\ (d # None => Live(d))
        /\ tickets' = tickets /\ latest' = latest /\ autoRuns' = autoRuns
        /\ deptState' = deptState /\ category' = category
        /\ inbox' = inbox /\ proc' = proc
    BY <1>4 DEF AssignStaff
  <2>2. TypeOK'
    BY <1>4, <2>1, AcceptBounds DEF SafetyInv, TypeOK, AssignStaff
  <2>3. LocalsSound'
    BY <2>1 DEF SafetyInv, LocalsSound, FrameSound
  <2>4. NoDanglingDepartment' /\ RoutingDeterministic'
    BY <2>1 DEF SafetyInv, TypeOK, NoDanglingDepartment, RoutingDeterministic, Live, Claims
  <2>5. ResolvedStampMatchesStatus' /\ OverrideNeedsAnalysis'
    BY <2>1 DEF SafetyInv, ResolvedStampMatchesStatus, OverrideNeedsAnalysis
  <2> QED
    BY <2>2, <2>3, <2>4, <2>5 DEF SafetyInv
<1> QED
  BY <1>1, <1>2, <1>3, <1>4

(* Deleting a department: its tickets move to the default one, then the    *)
(* row goes, unless a ticket arrived there in between.                     *)
LEMMA DeleteSteps ==
    ASSUME SafetyInv, NEW h \in Handlers,
           \/ \E d \in Departments : StartDeleteDepartment(h, d)
           \/ ReassignTickets(h)
           \/ DropDepartment(h)
    PROVE  SafetyInv'
<1>0. h \in Procs /\ h \notin Consumers /\ proc[h] \in ProcState /\ FrameSound(proc[h])
  BY TriageConstants DEF Procs, SafetyInv, TypeOK, LocalsSound
<1>1. ASSUME NEW d \in Departments, StartDeleteDepartment(h, d) PROVE SafetyInv'
  <2> DEFINE s == OnDept("reassign", d, None)
  <2>1. /\ Become(h, s) /\ UNCHANGED db /\ inbox' = inbox /\ d # General
        /\ failed' \in SUBSET Tickets /\ requests' \in 0..MaxRequests
        /\ crashes' \in 0..MaxCrashes
    BY <1>1, AcceptBounds DEF StartDeleteDepartment, IsDeletable
  <2>2. s \in ProcState /\ FrameSound(s)
    BY <2>1, OnDeptTyped DEF OnDept, Idle, FrameSound
  <2>3. inbox' \in SUBSET Tickets /\ \A t \in inbox' : tickets[t] # None
    BY <2>1 DEF SafetyInv, TypeOK, LocalsSound
  <2> HIDE DEF s
  <2> QED
    BY <1>0, <2>1, <2>2, <2>3, LocalStep
<1>2. ASSUME ReassignTickets(h) PROVE SafetyInv'
  <2> DEFINE s == [proc[h] EXCEPT !.pc = "drop"]
  <2>1. /\ proc[h].pc = "reassign" /\ proc' = [proc EXCEPT ![h] = s]
        /\ latest' = latest /\ autoRuns' = autoRuns /\ failed' = failed
        /\ deptState' = deptState /\ category' = category /\ team' = team
        /\ inbox' = inbox /\ requests' = requests /\ crashes' = crashes
    BY <1>2 DEF ReassignTickets, Become
  <2>2. tickets' = [t \in Tickets |->
                      IF tickets[t] = None THEN None
                      ELSE IF tickets[t].department = proc[h].dept
                           THEN [tickets[t] EXCEPT !.department = General]
                           ELSE tickets[t]]
    BY <1>2 DEF ReassignTickets
  <2>3. ASSUME NEW t \in Tickets
        PROVE  /\ tickets[t] = None => tickets'[t] = None
               /\ tickets[t] # None =>
                     /\ tickets'[t] \in TicketRow /\ tickets'[t] # None
                     /\ StampMatches(tickets'[t]) <=> StampMatches(tickets[t])
                     /\ Overridden(tickets'[t]) <=> Overridden(tickets[t])
                     /\ tickets'[t].department \in {General, tickets[t].department}
    <3>1. tickets[t] # None => tickets[t] \in TicketRow
      BY DEF SafetyInv, TypeOK
    <3>2. tickets[t] # None =>
             /\ tickets'[t] \in TicketRow
             /\ StampMatches(tickets'[t]) <=> StampMatches(tickets[t])
             /\ Overridden(tickets'[t]) <=> Overridden(tickets[t])
             /\ tickets'[t].department \in {General, tickets[t].department}
      BY <2>2, <3>1, TriageConstants DEF TicketRow, StampMatches, Overridden
    <3> QED
      BY <2>2, <3>2, TriageConstants
  <2>4. s \in ProcState
    BY <1>0, <2>1, ProcSteps
  <2>5. s.ticket = None /\ s.row = None /\ s.pc = "drop" /\ s.dept # General
    <3>1. s.ticket = proc[h].ticket /\ s.row = proc[h].row /\ s.dept = proc[h].dept
          /\ s.pc = "drop"
      BY <1>0 DEF ProcState, Frame
    <3> QED
      BY <1>0, <2>1, <3>1, ProcFields DEF FrameSound
  <2> HIDE DEF s
  <2>6. TypeOK'
    <3>1. tickets' \in [Tickets -> TicketRow \cup {None}]
      BY <2>2, <2>3
    <3> QED
      BY <2>1, <2>4, <3>1 DEF SafetyInv, TypeOK
  <2>7. LocalsSound'
    BY <1>0, <2>1, <2>3, <2>4, <2>5, LocalsKept
  <2>8. NoDanglingDepartment' /\ RoutingDeterministic'
    BY <2>1, <2>3 DEF SafetyInv, NoDanglingDepartment, RoutingDeterministic, Live, Claims
  <2>9. ResolvedStampMatchesStatus' /\ OverrideNeedsAnalysis'
    BY <2>1, <2>3 DEF SafetyInv, ResolvedStampMatchesStatus, OverrideNeedsAnalysis
  <2> QED
    BY <2>6, <2>7, <2>8, <2>9 DEF SafetyInv
<1>3. ASSUME DropDepartment(h) PROVE SafetyInv'
  <2> DEFINE d == proc[h].dept
  <2>0. proc[h].pc = "drop" /\ d \in Departments /\ d # General
    BY <1>0, <1>3, ProcFields DEF DropDepartment, FrameSound
  <2>1. CASE ~(Live(d) /\ Unreferenced(d))
    BY <1>0, <1>3, <2>0, <2>1, EndStep DEF DropDepartment
  <2>2. CASE Live(d) /\ Unreferenced(d)
    <3>1. /\ deptState' = [deptState EXCEPT ![d] = "deleted"]
          /\ latest' = [t \in Tickets |->
                          IF latest[t] = None THEN None
                          ELSE IF latest[t].department = d
                               THEN [latest[t] EXCEPT !.department = None]
                               ELSE latest[t]]
          /\ team' = [s \in Staff |-> IF team[s] = d THEN None ELSE team[s]]
          /\ tickets' = tickets /\ autoRuns' = autoRuns /\ category' = category
          /\ Succeed(h)
      BY <1>3, <2>2 DEF DropDepartment
    <3>2. /\ proc' = [proc EXCEPT ![h] = Idle] /\ inbox' = inbox /\ failed' = failed
          /\ requests' = requests /\ crashes' = crashes
      BY <1>0, <3>1 DEF Succeed, Become, Ack
    <3>3. ASSUME NEW t \in Tickets
          PROVE  /\ latest[t] = None => latest'[t] = None
                 /\ latest[t] # None =>
                       /\ latest'[t] \in Prediction /\ latest'[t] # None
                       /\ \/ latest'[t].department = None
                          \/ /\ latest'[t].department = latest[t].department
                             /\ latest[t].department # d
      <4>1. latest[t] # None => latest[t] \in Prediction
        BY DEF SafetyInv, TypeOK
      <4>2. latest[t] # None =>
              /\ latest'[t] \in Prediction
              /\ \/ latest'[t].department = None
                 \/ /\ latest'[t].department = latest[t].department
                    /\ latest[t].department # d
        BY <3>1, <4>1 DEF Prediction
      <4> QED
        BY <3>1, <4>2, TriageConstants
    <3>4. TypeOK'
      <4>1. latest' \in [Tickets -> Prediction \cup {None}]
        BY <3>1, <3>3
      <4>2. team' \in [Staff -> Departments \cup {None}]
        BY <3>1 DEF SafetyInv, TypeOK
      <4> QED
        BY <2>0, <3>1, <3>2, <4>1, <4>2, IdleTyped DEF SafetyInv, TypeOK
    <3>5. LocalsSound'
      <4>1. /\ Idle.ticket = None /\ Idle.row = None /\ Idle.pc # "patch"
            /\ Idle.pc \notin {"reassign", "drop"}
        BY DEF Idle
      <4> QED
        BY <1>0, <3>1, <3>2, <3>3, <4>1, IdleTyped, LocalsKept
    <3>6. NoDanglingDepartment'
      <4>1. \A e \in Departments : e # d => (Live(e)' <=> Live(e))
        BY <3>1 DEF SafetyInv, TypeOK, Live
      <4>2. Live(General)'
        BY <2>0, <4>1, TriageConstants DEF SafetyInv, NoDanglingDepartment
      <4>3. ASSUME NEW t \in Tickets, tickets[t] # None
            PROVE  Live(tickets[t].department)'
        <5>1. tickets[t].department \in Departments /\ tickets[t].department # d
          BY <2>2, <4>3 DEF Unreferenced, SafetyInv, TypeOK, TicketRow
        <5> QED
          BY <3>1, <4>1, <4>3, <5>1 DEF SafetyInv, NoDanglingDepartment, Live
      <4>4. ASSUME NEW t \in Tickets, latest'[t] # None
            PROVE  latest'[t].department = None \/ Live(latest[t].department)'
        <5>1. latest[t] # None /\ latest[t] \in Prediction
          BY <3>3, <4>4 DEF SafetyInv, TypeOK
        <5>2. latest[t].department = None \/ latest[t].department \in Departments
          BY <5>1 DEF Prediction
        <5> QED
          BY <3>3, <4>1, <5>1, <5>2 DEF SafetyInv, NoDanglingDepartment, Live
      <4>5. ASSUME NEW s \in Staff
            PROVE  team'[s] = None \/ Live(team[s])'
        BY <3>1, <4>1 DEF SafetyInv, TypeOK, NoDanglingDepartment, Live
      <4> QED
        BY <3>1, <4>2, <4>3, <4>4, <4>5 DEF NoDanglingDepartment, Live
    <3>7. RoutingDeterministic'
      BY <2>0, <3>1 DEF SafetyInv, TypeOK, RoutingDeterministic, Live, Claims
    <3>8. ResolvedStampMatchesStatus' /\ OverrideNeedsAnalysis'
      BY <3>1, <3>3 DEF SafetyInv, ResolvedStampMatchesStatus, OverrideNeedsAnalysis
    <3> QED
      BY <3>4, <3>5, <3>6, <3>7, <3>8 DEF SafetyInv
  <2> QED
    BY <2>1, <2>2
<1> QED
  BY <1>1, <1>2, <1>3

(* A failing statement, and the death of the server. *)
LEMMA FaultSteps ==
    ASSUME SafetyInv, (\E p \in Procs : Abort(p)) \/ Crash
    PROVE  SafetyInv'
<1>1. ASSUME NEW p \in Procs, Abort(p) PROVE SafetyInv'
  BY <1>1, EndStep DEF Abort
<1>2. ASSUME Crash PROVE SafetyInv'
  <2>0. PICK dead \in SUBSET Procs :
           proc' = [p \in Procs |-> IF p \in dead THEN Idle ELSE proc[p]]
    BY <1>2 DEF Crash
  <2>1. /\ inbox' \subseteq inbox
        /\ crashes' = crashes + 1 /\ crashes < MaxCrashes
        /\ failed' = failed /\ requests' = requests
        /\ tickets' = tickets /\ latest' = latest /\ autoRuns' = autoRuns
        /\ deptState' = deptState /\ category' = category /\ team' = team
    BY <1>2 DEF Crash, db
  <2>2. TypeOK'
    BY <2>0, <2>1, IdleTyped, TriageConstants DEF SafetyInv, TypeOK
  <2>3. LocalsSound'
    <3>1. \A p \in Procs : FrameSound(proc'[p])
      BY <2>0, IdleSound DEF SafetyInv, LocalsSound
    <3>2. \A p \in Procs : FrameSound(proc[p])'
      BY <2>1, <3>1 DEF FrameSound
    <3>3. \A w \in Consumers :
             proc'[w].pc \in {"idle", "load", "classify", "store", "apply"}
      BY <2>0 DEF Idle, Procs, SafetyInv, LocalsSound
    <3> QED
      BY <2>1, <3>2, <3>3 DEF SafetyInv, LocalsSound
  <2>4. NoDanglingDepartment' /\ RoutingDeterministic'
        /\ ResolvedStampMatchesStatus' /\ OverrideNeedsAnalysis'
    BY <2>1 DEF SafetyInv, NoDanglingDepartment, RoutingDeterministic, Live, Claims,
                ResolvedStampMatchesStatus, OverrideNeedsAnalysis
  <2> QED
    BY <2>2, <2>3, <2>4 DEF SafetyInv
<1> QED
  BY <1>1, <1>2

-----------------------------------------------------------------------------
(* The invariant. *)

(* A freshly seeded organization satisfies the invariant. *)
LEMMA SafetyInit == Init => SafetyInv
<1> SUFFICES ASSUME Init PROVE SafetyInv
  OBVIOUS
<1>1. TypeOK
  BY TriageConstants, IdleTyped DEF Init, TypeOK
<1>2. LocalsSound
  BY IdleSound DEF Init, LocalsSound, Procs, Idle
<1>3. NoDanglingDepartment
  BY TriageConstants DEF Init, NoDanglingDepartment, Live
<1>4. RoutingDeterministic
  BY TriageConstants DEF Init, RoutingDeterministic, Live, Claims
<1>5. ResolvedStampMatchesStatus /\ OverrideNeedsAnalysis
  BY DEF Init, ResolvedStampMatchesStatus, OverrideNeedsAnalysis
<1> QED
  BY <1>1, <1>2, <1>3, <1>4, <1>5 DEF SafetyInv

(* Every step of every goroutine, failure and crash included, keeps it. *)
LEMMA SafetyStep == SafetyInv /\ [Next]_vars => SafetyInv'
<1> SUFFICES ASSUME SafetyInv, [Next]_vars PROVE SafetyInv'
  OBVIOUS
<1>1. CASE UNCHANGED vars
  BY <1>1 DEF vars, SafetyInv, TypeOK, LocalsSound, FrameSound, NoDanglingDepartment,
              RoutingDeterministic, Live, Claims, ResolvedStampMatchesStatus,
              OverrideNeedsAnalysis
<1>2. ASSUME NEW w \in Consumers, ConsumerStep(w) PROVE SafetyInv'
  <2>1. w \in Procs
    BY DEF Procs
  <2> QED
    BY <1>2, <2>1, DeliverySteps, AnalysisSteps DEF ConsumerStep
<1>3. ASSUME NEW h \in Handlers, TicketRequest(h) PROVE SafetyInv'
  <2>1. h \in Procs
    BY DEF Procs
  <2> QED
    BY <1>3, <2>1, CreateSteps, RequestSteps, AnalysisSteps DEF TicketRequest
<1>4. ASSUME NEW h \in Handlers, DepartmentRequest(h) PROVE SafetyInv'
  BY <1>4, DepartmentSteps, DeleteSteps DEF DepartmentRequest
<1>5. ASSUME (\E p \in Procs : Abort(p)) \/ Crash PROVE SafetyInv'
  BY <1>5, FaultSteps
<1> QED
  BY <1>1, <1>2, <1>3, <1>4, <1>5 DEF Next

(* SafetyInv is an invariant of the triage core. *)
THEOREM SafetyInvariant == Spec => []SafetyInv
BY SafetyInit, SafetyStep, PTL DEF Spec

(* Every table row and every goroutine's locals are well formed. *)
THEOREM TypeCorrect == Spec => []TypeOK
<1>1. SafetyInv => TypeOK
  BY DEF SafetyInv
<1> QED
  BY <1>1, SafetyInvariant, PTL

(* However DeleteDepartment races with analyses, patches and assignments,  *)
(* no ticket, prediction or roster entry names a department that is gone.  *)
THEOREM DepartmentIntegrity == Spec => []NoDanglingDepartment
<1>1. SafetyInv => NoDanglingDepartment
  BY DEF SafetyInv
<1> QED
  BY <1>1, SafetyInvariant, PTL

(* mapCategory has at most one department to choose, although both writers *)
(* of departments.category check before they write.                        *)
THEOREM DeterministicRouting == Spec => []RoutingDeterministic
<1>1. SafetyInv => RoutingDeterministic
  BY DEF SafetyInv
<1> QED
  BY <1>1, SafetyInvariant, PTL

(* resolved_at agrees with the status whatever stale rows are written.     *)
THEOREM ResolvedStamp == Spec => []ResolvedStampMatchesStatus
<1>1. SafetyInv => ResolvedStampMatchesStatus
  BY DEF SafetyInv
<1> QED
  BY <1>1, SafetyInvariant, PTL

(* No ticket carries an override flag without an analysis it overrides.    *)
THEOREM OverridesHaveAnalysis == Spec => []OverrideNeedsAnalysis
<1>1. SafetyInv => OverrideNeedsAnalysis
  BY DEF SafetyInv
<1> QED
  BY <1>1, SafetyInvariant, PTL
=============================================================================
