--------------------------- MODULE EventBusProofs ---------------------------
(***************************************************************************)
(* The in-process bus for every number of requests, buffer and number of   *)
(* classifier attempts, with and without a shutdown.                       *)
(***************************************************************************)
EXTENDS EventBus, SequenceTheorems, TLAPS

(* In the middle of a classification the dispatcher has a ticket in hand. *)
TicketInHand ==
    at \in {"classify", "store", "publish", "waiting"} => IsCreated(disp)

(* While the dispatcher waits for room there is none: nobody takes. *)
WaitingIsFull == at = "waiting" => ~Room

(* The attempts are counted from the call of the classifier. *)
FreshAttempts == at \in {"idle", "handle"} => attempt = 0

Inv ==
    /\ TypeOK /\ FreshAttempts /\ TicketInHand
    /\ WaitingIsFull /\ QueueLaw /\ EarlyFailureIsCancelled

-----------------------------------------------------------------------------
(* Appending to the last part of a concatenation appends to the whole. *)
LEMMA AppendSecond ==
    ASSUME NEW h \in Seq(Event), NEW c \in Seq(Event), NEW e \in Event
    PROVE  Append(h \o c, e) = h \o Append(c, e)
  OBVIOUS

(* The same for the three parts of the queue law. *)
LEMMA AppendLast ==
    ASSUME NEW h \in Seq(Event), NEW i \in Seq(Event), NEW c \in Seq(Event), NEW e \in Event
    PROVE  Append(h \o i \o c, e) = h \o i \o Append(c, e)
  <1>1. h \o i \in Seq(Event)
    BY ConcatProperties
  <1> QED
    BY <1>1, AppendSecond, Zenon

(* Taking the head of the queue in hand changes nothing of the whole. *)
LEMMA TakeHead ==
    ASSUME NEW h \in Seq(Event), NEW c \in Seq(Event), c # <<>>
    PROVE  /\ Head(c) \in Event /\ Tail(c) \in Seq(Event)
           /\ Len(Tail(c)) = Len(c) - 1
           /\ h \o <<>> \o c = h \o <<Head(c)>> \o Tail(c)
  OBVIOUS

(* Nor does putting the event in hand to the handled ones. *)
LEMMA PutAway ==
    ASSUME NEW h \in Seq(Event), NEW c \in Seq(Event), NEW e \in Event
    PROVE  h \o <<e>> \o c = Append(h, e) \o <<>> \o c
  OBVIOUS

(* What a call of Publish does to the queue: it takes the event, drops it, *)
(* or has not decided.                                                     *)
LEMMA PublishKeepsQueue ==
    ASSUME Inv, NEW e \in Event, UNCHANGED <<disp, handled>>,
           Put(e) \/ GiveUp(e) \/ UNCHANGED <<ch, accepted, dropped>>
    PROVE  /\ QueueLaw'
           /\ ch' \in Seq(Event) /\ Len(ch') <= BufferSize /\ Len(ch') >= Len(ch)
           /\ accepted' \in Seq(Event)
           /\ dropped' \subseteq Event
  <1>1. CASE Put(e)
    <2>1. /\ ch' = Append(ch, e) /\ accepted' = Append(accepted, e) /\ dropped' = dropped
          /\ Len(ch) < BufferSize
      BY <1>1 DEF Put, Room
    <2>2. InHand \in Seq(Event) /\ InHand' = InHand
      BY DEF InHand, Inv, TypeOK
    <2>3. QueueLaw'
      <3>1. accepted = handled \o InHand \o ch
        BY DEF Inv, QueueLaw
      <3>2. handled \in Seq(Event) /\ ch \in Seq(Event)
        BY DEF Inv, TypeOK
      <3>3. Append(handled \o InHand \o ch, e) = handled \o InHand \o Append(ch, e)
        BY <3>2, <2>2, AppendLast, Zenon
      <3> QED
        BY <2>1, <2>2, <3>1, <3>3 DEF QueueLaw
    <2>4. ch' \in Seq(Event) /\ Len(ch') = Len(ch) + 1 /\ accepted' \in Seq(Event)
      BY <2>1, AppendProperties DEF Inv, TypeOK
    <2> QED
      BY <2>1, <2>3, <2>4, EventBusConstants DEF Inv, TypeOK
  <1>2. CASE GiveUp(e) \/ UNCHANGED <<ch, accepted, dropped>>
    <2>1. UNCHANGED <<ch, accepted, disp, handled>> /\ dropped' \subseteq Event
      BY <1>2 DEF GiveUp, Inv, TypeOK
    <2>2. Len(ch) \in Nat
      BY LenProperties DEF Inv, TypeOK
    <2> QED
      BY <2>1, <2>2 DEF Inv, TypeOK, QueueLaw, InHand
  <1> QED
    BY <1>1, <1>2

(* A step that leaves queue, dispatcher and failures alone and ends no     *)
(* request's life keeps the invariant.                                     *)
LEMMA OtherVariables ==
    ASSUME Inv,
           UNCHANGED <<ch, disp, at, attempt, accepted, handled, dropped, classified, failed,
                       crashed>>,
           phase' \in [Requests -> {"new", "running", "waiting", "returned", "panicked",
                                    "ended"}],
           \A r \in Requests : phase[r] = "ended" => phase'[r] = "ended",
           stopping' \in BOOLEAN, closed' \in BOOLEAN, done' \in BOOLEAN
    PROVE  Inv'
  <1>1. TypeOK'
    BY DEF Inv, TypeOK
  <1>2. FreshAttempts' /\ TicketInHand' /\ WaitingIsFull' /\ QueueLaw'
    BY DEF Inv, FreshAttempts, TicketInHand, IsCreated, WaitingIsFull, Room, QueueLaw, InHand
  <1>3. EarlyFailureIsCancelled'
    BY EventBusConstants DEF Inv, TypeOK, EarlyFailureIsCancelled
  <1> QED
    BY <1>1, <1>2, <1>3 DEF Inv

(* A classification that fails keeps it. *)
LEMMA FailKeeps ==
    ASSUME Inv, NEW answered \in BOOLEAN, Fail(answered), at # "idle", IsCreated(disp),
           attempt \in 1..(Attempts - 1) /\ ~answered => Cancelled(disp),
           UNCHANGED <<phase, stopping, closed>>
    PROVE  Inv'
  <1>1. /\ failed' = failed \cup {[req |-> disp.req, tries |-> attempt, answered |-> answered]}
        /\ at' = "return"
        /\ UNCHANGED <<disp, ch, accepted, dropped, handled, classified, attempt, done, crashed>>
    BY DEF Fail, bus
  <1>2. disp.req \in Creates
    BY DEF IsCreated
  <1>3. TypeOK'
    BY <1>1, <1>2 DEF Inv, TypeOK
  <1>4. FreshAttempts' /\ TicketInHand' /\ WaitingIsFull' /\ QueueLaw'
    BY <1>1 DEF Inv, FreshAttempts, TicketInHand, WaitingIsFull, QueueLaw, InHand
  <1>5. EarlyFailureIsCancelled'
    BY <1>1 DEF Inv, EarlyFailureIsCancelled, CutShort, Cancelled
  <1> QED
    BY <1>3, <1>4, <1>5 DEF Inv

-----------------------------------------------------------------------------
(* The invariant holds when the bus is made. *)
LEMMA InitInv == Init => Inv
  <1> SUFFICES ASSUME Init PROVE Inv
    OBVIOUS
  <1>1. TypeOK
    <2>1. ch \in Seq(Event) /\ Len(ch) <= BufferSize
      BY EventBusConstants DEF Init
    <2>2. attempt \in 0..Attempts
      BY EventBusConstants DEF Init
    <2>3. handled \in Seq(Event) /\ accepted \in Seq(Event)
      BY DEF Init
    <2> QED
      BY <2>1, <2>2, <2>3 DEF Init, TypeOK
  <1>2. FreshAttempts /\ TicketInHand /\ WaitingIsFull /\ EarlyFailureIsCancelled
    BY DEF Init, FreshAttempts, TicketInHand, WaitingIsFull, EarlyFailureIsCancelled
  <1>3. QueueLaw
    BY DEF Init, QueueLaw, InHand
  <1> QED
    BY <1>1, <1>2, <1>3 DEF Inv

(* Every step of a request keeps it. *)
LEMMA RequestStep ==
    ASSUME Inv, NEW r \in Requests, Begin(r) \/ Publish(r) \/ End(r)
    PROVE  Inv'
  <1>1. CASE Begin(r)
    BY <1>1, OtherVariables DEF Begin, server, Inv, TypeOK
  <1>2. CASE End(r)
    BY <1>2, OtherVariables DEF End, server, Inv, TypeOK
  <1>3. CASE Publish(r)
    <2> DEFINE e == Created(r)
    <2>1. /\ UNCHANGED <<disp, at, attempt, handled, classified, failed, stopping, closed, done,
                         crashed>>
          /\ Put(e) \/ GiveUp(e) \/ UNCHANGED <<ch, accepted, dropped>>
          /\ phase[r] \in {"running", "waiting"}
          /\ phase' \in [Requests -> {"new", "running", "waiting", "returned", "panicked",
                                      "ended"}]
          /\ \A q \in Requests \ {r} : phase'[q] = phase[q]
      BY <1>3 DEF Publish, PublishStep, server, Inv, TypeOK
    <2>2. e \in Event
      BY DEF Created, Event
    <2> HIDE DEF e
    <2>3. /\ QueueLaw'
          /\ ch' \in Seq(Event) /\ Len(ch') <= BufferSize /\ Len(ch') >= Len(ch)
          /\ accepted' \in Seq(Event)
          /\ dropped' \subseteq Event
      BY <2>1, <2>2, PublishKeepsQueue
    <2>4. TypeOK'
      BY <2>1, <2>3 DEF Inv, TypeOK
    <2>5. FreshAttempts' /\ TicketInHand' /\ WaitingIsFull'
      <3>1. Len(ch) \in Nat /\ Len(ch') \in Nat
        BY <2>3, LenProperties DEF Inv, TypeOK
      <3> QED
        BY <2>1, <2>3, <3>1, EventBusConstants
           DEF Inv, FreshAttempts, TicketInHand, IsCreated, WaitingIsFull, Room
    <2>6. EarlyFailureIsCancelled'
      BY <2>1, EventBusConstants DEF Inv, TypeOK, EarlyFailureIsCancelled
    <2> QED
      BY <2>3, <2>4, <2>5, <2>6 DEF Inv
  <1> QED
    BY <1>1, <1>2, <1>3

(* Every step of the dispatcher keeps it. *)
LEMMA DispatchStep ==
    ASSUME Inv, Dispatch
    PROVE  Inv'
  <1>1. UNCHANGED <<phase, stopping, closed>>
    BY DEF Dispatch
  <1>2. CASE Take
    <2>1. /\ disp = None /\ ch # <<>>
          /\ disp' = Head(ch) /\ ch' = Tail(ch) /\ at' = "handle"
          /\ UNCHANGED <<accepted, handled, dropped, classified, failed, attempt, done, crashed>>
      BY <1>2 DEF Take, work
    <2>2. handled \in Seq(Event) /\ ch \in Seq(Event)
      BY DEF Inv, TypeOK
    <2>3. /\ Head(ch) \in Event /\ Tail(ch) \in Seq(Event)
          /\ Len(Tail(ch)) = Len(ch) - 1
          /\ handled \o <<>> \o ch = handled \o <<Head(ch)>> \o Tail(ch)
      BY <2>1, <2>2, TakeHead, Zenon
    <2>4. Head(ch) # None
      BY <2>3, EventBusConstants DEF Event
    <2>5. QueueLaw'
      <3>1. InHand = <<>> /\ InHand' = <<Head(ch)>>
        BY <2>1, <2>4 DEF InHand
      <3>2. accepted = handled \o <<>> \o ch
        BY <3>1 DEF Inv, QueueLaw
      <3>3. accepted' = accepted /\ handled' = handled
        BY <2>1
      <3> QED
        BY <2>1, <2>3, <3>1, <3>2, <3>3, Zenon DEF QueueLaw
    <2>6. TypeOK'
      <3>1. Len(ch') <= BufferSize
        BY <2>1, <2>2, <2>3, LenProperties, EventBusConstants DEF Inv, TypeOK
      <3> QED
        BY <1>1, <2>1, <2>3, <2>4, <3>1 DEF Inv, TypeOK
    <2>7. FreshAttempts' /\ TicketInHand' /\ WaitingIsFull' /\ EarlyFailureIsCancelled'
      <3>1. attempt = 0
        BY <2>1 DEF Inv, TypeOK, FreshAttempts
      <3> QED
        BY <1>1, <2>1, <3>1 DEF Inv, FreshAttempts, TicketInHand, WaitingIsFull,
           EarlyFailureIsCancelled
    <2> QED
      BY <2>5, <2>6, <2>7 DEF Inv
  <1>3. CASE Pass
    BY <1>1, <1>3 DEF Pass, bus, work, Inv, TypeOK, FreshAttempts, TicketInHand, WaitingIsFull,
       QueueLaw, InHand, EarlyFailureIsCancelled
  <1>4. CASE Load
    <2>1. CASE Fail(FALSE)
      <3>1. at = "handle" /\ IsCreated(disp) /\ attempt = 0
        BY <1>4 DEF Load, Inv, FreshAttempts
      <3>2. attempt \notin 1..(Attempts - 1)
        BY <3>1, EventBusConstants
      <3> QED
        BY <1>1, <2>1, <3>1, <3>2, FailKeeps
    <2>2. CASE ~Fail(FALSE)
      <3>1. /\ at = "handle" /\ IsCreated(disp) /\ at' = "classify" /\ attempt' = 1
            /\ UNCHANGED <<disp, ch, accepted, dropped, handled, classified, failed, done,
                           crashed>>
        BY <1>4, <2>2 DEF Load, bus
      <3>2. TypeOK'
        BY <1>1, <3>1, EventBusConstants DEF Inv, TypeOK
      <3> QED
        BY <1>1, <3>1, <3>2 DEF Inv, FreshAttempts, TicketInHand, IsCreated, WaitingIsFull,
           QueueLaw, InHand, EarlyFailureIsCancelled
    <2> QED
      BY <2>1, <2>2
  <1>5. CASE Classify
    <2>1. at = "classify" /\ IsCreated(disp)
      BY <1>5 DEF Classify, Inv, TicketInHand
    <2>2. \/ (Cancelled(disp) \/ attempt = Attempts) /\ Fail(FALSE)
          \/ /\ at' \in {"classify", "store"}
             /\ attempt' \in 0..Attempts
             /\ UNCHANGED <<disp, ch, accepted, dropped, handled, classified, failed, done,
                            crashed>>
      <3>1. attempt \in 0..Attempts /\ (attempt < Attempts => attempt + 1 \in 0..Attempts)
        BY EventBusConstants DEF Inv, TypeOK
      <3>2. CASE Answered
        BY <2>1, <3>1, <3>2 DEF Answered, bus, work
      <3>3. CASE Retry
        BY <2>1, <3>1, <3>3 DEF Retry, bus
      <3>4. CASE Exhaust
        BY <2>1, <3>1, <3>4 DEF Exhaust, bus, work
      <3> QED
        BY <1>5, <3>2, <3>3, <3>4 DEF Classify
    <2>3. CASE (Cancelled(disp) \/ attempt = Attempts) /\ Fail(FALSE)
      <3>1. attempt \in 1..(Attempts - 1) => Cancelled(disp)
        BY <2>3, EventBusConstants
      <3> QED
        BY <1>1, <2>1, <2>3, <3>1, FailKeeps
    <2>4. CASE /\ at' \in {"classify", "store"}
               /\ attempt' \in 0..Attempts
               /\ UNCHANGED <<disp, ch, accepted, dropped, handled, classified, failed, done,
                              crashed>>
      BY <1>1, <2>1, <2>4 DEF Inv, TypeOK, FreshAttempts, TicketInHand, IsCreated, WaitingIsFull, QueueLaw,
         InHand, EarlyFailureIsCancelled
    <2> QED
      BY <2>2, <2>3, <2>4
  <1>6. CASE Store
    <2>1. at = "store" /\ IsCreated(disp)
      BY <1>6 DEF Store, Inv, TicketInHand
    <2>2. CASE Fail(TRUE)
      BY <1>1, <2>1, <2>2, FailKeeps
    <2>3. CASE ~Fail(TRUE)
      BY <1>1, <1>6, <2>1, <2>3 DEF Store, bus, Inv, TypeOK, FreshAttempts, TicketInHand, IsCreated,
         WaitingIsFull, QueueLaw, InHand, EarlyFailureIsCancelled
    <2> QED
      BY <2>2, <2>3
  <1>7. CASE PublishCompleted
    <2> DEFINE e == Completed(disp.req)
    <2>1. /\ at \in {"publish", "waiting"} /\ IsCreated(disp) /\ disp # None
          /\ UNCHANGED <<disp, handled, classified, failed, attempt, done>>
      BY <1>7 DEF PublishCompleted, work, Inv, TypeOK, TicketInHand
    <2>2. e \in Event
      BY <2>1 DEF Completed, Event, Inv, TypeOK
    <2>3. /\ Put(e) \/ GiveUp(e) \/ UNCHANGED <<ch, accepted, dropped>>
          /\ \/ at' = "return"
             \/ at' = "waiting" /\ ~Room /\ UNCHANGED ch
             \/ at' = at /\ UNCHANGED ch
          /\ crashed' = crashed \/ crashed' = TRUE
      BY <1>7 DEF PublishCompleted, Full, bus
    <2> HIDE DEF e
    <2>4. /\ QueueLaw'
          /\ ch' \in Seq(Event) /\ Len(ch') <= BufferSize /\ Len(ch') >= Len(ch)
          /\ accepted' \in Seq(Event)
          /\ dropped' \subseteq Event
      BY <2>1, <2>2, <2>3, PublishKeepsQueue
    <2>5. TypeOK'
      BY <1>1, <2>1, <2>3, <2>4 DEF Inv, TypeOK
    <2>6. FreshAttempts' /\ TicketInHand' /\ WaitingIsFull' /\ EarlyFailureIsCancelled'
      BY <1>1, <2>1, <2>3 DEF Inv, FreshAttempts, TicketInHand, IsCreated, WaitingIsFull, Room,
         EarlyFailureIsCancelled
    <2> QED
      BY <2>4, <2>5, <2>6 DEF Inv
  <1>8. CASE Return
    <2>1. /\ at = "return" /\ handled' = Append(handled, disp)
          /\ disp' = None /\ at' = "idle" /\ attempt' = 0
          /\ UNCHANGED <<ch, accepted, dropped, classified, failed, done, crashed>>
      BY <1>8 DEF Return, bus
    <2>2. disp \in Event /\ disp # None /\ handled \in Seq(Event) /\ ch \in Seq(Event)
      BY <2>1 DEF Inv, TypeOK
    <2>3. QueueLaw'
      <3>1. InHand = <<disp>> /\ InHand' = <<>>
        BY <2>1, <2>2 DEF InHand
      <3>2. accepted = handled \o <<disp>> \o ch
        BY <3>1 DEF Inv, QueueLaw
      <3>3. handled \o <<disp>> \o ch = Append(handled, disp) \o <<>> \o ch
        BY <2>2, PutAway, Zenon
      <3> QED
        BY <2>1, <3>1, <3>2, <3>3 DEF QueueLaw
    <2>4. TypeOK'
      <3>1. handled' \in Seq(Event)
        BY <2>1, <2>2, AppendProperties
      <3> QED
        BY <1>1, <2>1, <3>1, EventBusConstants DEF Inv, TypeOK
    <2>5. FreshAttempts' /\ TicketInHand' /\ WaitingIsFull' /\ EarlyFailureIsCancelled'
      BY <1>1, <2>1 DEF Inv, FreshAttempts, TicketInHand, WaitingIsFull, EarlyFailureIsCancelled
    <2> QED
      BY <2>3, <2>4, <2>5 DEF Inv
  <1>9. CASE Exit
    BY <1>1, <1>9, OtherVariables DEF Exit, bus, work, Inv, TypeOK
  <1> QED
    BY <1>2, <1>3, <1>4, <1>5, <1>6, <1>7, <1>8, <1>9 DEF Dispatch

(* Every step keeps it. *)
LEMMA NextInv == Inv /\ [Next]_vars => Inv'
  <1> SUFFICES ASSUME Inv, [Next]_vars PROVE Inv'
    OBVIOUS
  <1>1. CASE Stop \/ Close
    BY <1>1, OtherVariables DEF Stop, Close, Inv, TypeOK
  <1>2. CASE UNCHANGED vars
    BY <1>2, OtherVariables DEF vars, Inv, TypeOK
  <1> QED
    BY <1>1, <1>2, RequestStep, DispatchStep DEF Next

-----------------------------------------------------------------------------
(* The invariant of the bus holds in every reachable state. *)
THEOREM BusInvariant == Spec => []Inv
  BY InitInv, NextInv, PTL DEF Spec

(* The channel of inprocess.go never exceeds its capacity, and the state   *)
(* stays well formed.                                                      *)
THEOREM BusTypeCorrect == Spec => []TypeOK
  BY BusInvariant, PTL DEF Inv

(* What Publish accepted is handled once and in order, whatever fills the  *)
(* buffer and whenever Close comes.                                        *)
THEOREM AcceptedInOrder == Spec => []QueueLaw
  BY BusInvariant, PTL DEF Inv

(* A classification that gave up before its last attempt belongs to a      *)
(* request that is over: nothing else cuts the retries of client.go short. *)
THEOREM OnlyCancellationCutsShort == Spec => []EarlyFailureIsCancelled
  BY BusInvariant, PTL DEF Inv

(* The five seconds the dispatcher waits for room in its own channel are   *)
(* always lost, and so is the event, for every buffer size.                *)
THEOREM DispatcherWaitsInVain == Spec => SelfPublishWaitsInVain
  <1>1. Inv /\ [Next]_vars =>
          [at = "waiting" /\ at' # "waiting" => Completed(disp.req) \in dropped']_vars
    <2> SUFFICES ASSUME Inv, Next, at = "waiting", at' # "waiting"
                 PROVE  Completed(disp.req) \in dropped'
      OBVIOUS
    <2>1. ~Room /\ disp # None
      BY DEF Inv, WaitingIsFull, TypeOK
    <2>2. Dispatch
      BY DEF Next, Begin, Publish, End, Stop, Close
    <2>3. PublishCompleted
      BY <2>1, <2>2 DEF Dispatch, Take, Pass, Load, Classify, Store, Return, Exit
    <2>4. GiveUp(Completed(disp.req))
      BY <2>1, <2>3 DEF PublishCompleted, Put
    <2> QED
      BY <2>4 DEF GiveUp
  <1> QED
    BY <1>1, BusInvariant, PTL DEF Spec, SelfPublishWaitsInVain

-----------------------------------------------------------------------------
(* One outcome per ticket.  A request publishes once, so that no event of  *)
(* a request is accepted twice; an outcome belongs to an event that was    *)
(* handled or is in hand, past the point where it is decided; and the      *)
(* dispatcher does not return from a ticket without one.                   *)

Undecided(r) == phase[r] \in {"new", "running", "waiting"}

PublishedOnce ==
    /\ \A r \in Requests : Undecided(r) => ~Holds(accepted, Created(r))
    /\ \A i, j \in 1..Len(accepted) :
          accepted[i] = accepted[j] /\ accepted[i].kind = "request" => i = j

OutcomeIsEarned ==
    /\ \A r \in classified : \/ Holds(handled, Created(r))
                             \/ disp = Created(r) /\ at \in {"publish", "waiting", "return"}
    /\ \A f \in failed : \/ Holds(handled, Created(f.req))
                         \/ disp = Created(f.req) /\ at = "return"

HasOutcome(r) == r \in classified \/ \E f \in failed : f.req = r

OutcomeBeforeReturn ==
    /\ at \in {"publish", "waiting"} => disp.req \in classified
    /\ at = "return" /\ IsCreated(disp) => HasOutcome(disp.req)

OutcomeInv == PublishedOnce /\ OutcomeIsEarned /\ OutcomeBeforeReturn /\ OneOutcome

(* What a sequence holds after an append. *)
LEMMA HoldsAppend ==
    ASSUME NEW s \in Seq(Event), NEW x \in Event, NEW e
    PROVE  Holds(Append(s, x), e) <=> Holds(s, e) \/ e = x
  <1>1. /\ Len(Append(s, x)) = Len(s) + 1 /\ Len(s) \in Nat
        /\ Append(s, x)[Len(s) + 1] = x
        /\ \A i \in 1..Len(s) : Append(s, x)[i] = s[i]
    BY AppendProperties, LenProperties
  <1> QED
    BY <1>1 DEF Holds

(* An event of a request that is in hand has not been handled before. *)
LEMMA InHandIsNew ==
    ASSUME Inv, PublishedOnce, disp # None, disp.kind = "request"
    PROVE  ~Holds(handled, disp)
  <1> DEFINE n == Len(handled)
  <1>1. handled \in Seq(Event) /\ ch \in Seq(Event) /\ disp \in Event /\ n \in Nat
    BY LenProperties DEF Inv, TypeOK
  <1>2. accepted = handled \o <<disp>> \o ch
    BY DEF Inv, QueueLaw, InHand
  <1>3. /\ Len(accepted) >= n + 1 /\ Len(accepted) \in Nat
        /\ accepted[n + 1] = disp
        /\ \A i \in 1..n : accepted[i] = handled[i]
    BY <1>1, <1>2
  <1> SUFFICES ASSUME NEW i \in 1..n, handled[i] = disp PROVE FALSE
    BY DEF Holds
  <1>4. accepted[i] = accepted[n + 1] /\ accepted[i].kind = "request"
    BY <1>3
  <1>5. i \in 1..Len(accepted) /\ n + 1 \in 1..Len(accepted) /\ i # n + 1
    BY <1>1, <1>3
  <1> HIDE DEF n
  <1> QED
    BY <1>4, <1>5 DEF PublishedOnce

(* A ticket in hand is the event of the request that created it, it has    *)
(* not been handled, and it has no outcome before the dispatcher decides.  *)
LEMMA NoOutcomeYet ==
    ASSUME Inv, OutcomeInv, disp # None, IsCreated(disp)
    PROVE  /\ disp = Created(disp.req) /\ disp.req \in Creates
           /\ ~Holds(handled, disp)
           /\ at \in {"handle", "classify", "store"} => ~HasOutcome(disp.req)
           /\ at \in {"publish", "waiting"} => \A f \in failed : f.req # disp.req
  <1>1. disp = Created(disp.req) /\ disp.req \in Creates
    BY DEF IsCreated, Created, Inv, TypeOK, Event
  <1>2. ~Holds(handled, disp)
    BY InHandIsNew DEF IsCreated, OutcomeInv
  <1> QED
    BY <1>1, <1>2 DEF OutcomeInv, OutcomeIsEarned, HasOutcome

(* A step that leaves the dispatcher, what it handled and the outcomes     *)
(* alone.                                                                  *)
LEMMA SameOutcomes ==
    ASSUME OutcomeInv, PublishedOnce',
           UNCHANGED <<disp, at, handled, classified, failed>>
    PROVE  OutcomeInv'
  BY DEF OutcomeInv, OutcomeIsEarned, OutcomeBeforeReturn, OneOutcome, HasOutcome, Holds,
     IsCreated

(* An event is accepted once: the caller was undecided, or it is the       *)
(* dispatcher's own.                                                       *)
LEMMA AcceptOnce ==
    ASSUME Inv, PublishedOnce, NEW e \in Event, Put(e),
           e.kind = "request" => ~Holds(accepted, e),
           \A r \in Requests : Undecided(r)' => Undecided(r) /\ Created(r) # e
    PROVE  PublishedOnce'
  <1>1. accepted \in Seq(Event) /\ accepted' = Append(accepted, e)
    BY DEF Put, Inv, TypeOK
  <1>2. \A r \in Requests : Undecided(r)' => ~Holds(accepted', Created(r))
    BY <1>1, HoldsAppend DEF PublishedOnce
  <1>3. /\ Len(accepted') = Len(accepted) + 1 /\ Len(accepted) \in Nat
        /\ accepted'[Len(accepted) + 1] = e
        /\ \A i \in 1..Len(accepted) : accepted'[i] = accepted[i]
    BY <1>1, AppendProperties, LenProperties
  <1>4. ASSUME NEW i \in 1..Len(accepted'), NEW j \in 1..Len(accepted'),
               accepted'[i] = accepted'[j], accepted'[i].kind = "request"
        PROVE  i = j
    <2>1. CASE i \in 1..Len(accepted) /\ j \in 1..Len(accepted)
      BY <1>3, <1>4, <2>1 DEF PublishedOnce
    <2>2. CASE i = Len(accepted) + 1 /\ j = Len(accepted) + 1
      BY <2>2
    <2>3. CASE i = Len(accepted) + 1 /\ j \in 1..Len(accepted)
      BY <1>3, <1>4, <2>3 DEF Holds
    <2>4. CASE i \in 1..Len(accepted) /\ j = Len(accepted) + 1
      BY <1>3, <1>4, <2>4 DEF Holds
    <2> QED
      BY <1>3, <2>1, <2>2, <2>3, <2>4
  <1> QED
    BY <1>2, <1>4 DEF PublishedOnce

(* A step that accepts nothing and makes no request undecided again. *)
LEMMA SameAccepted ==
    ASSUME PublishedOnce, accepted' = accepted,
           \A r \in Requests : Undecided(r)' => Undecided(r)
    PROVE  PublishedOnce'
  BY DEF PublishedOnce, Holds

(* A classification that fails gives the ticket its one outcome. *)
LEMMA FailOutcome ==
    ASSUME Inv, OutcomeInv, NEW answered \in BOOLEAN, Fail(answered),
           at \in {"handle", "classify", "store"}, IsCreated(disp), phase' = phase
    PROVE  OutcomeInv'
  <1> DEFINE g == [req |-> disp.req, tries |-> attempt, answered |-> answered]
  <1>1. /\ failed' = failed \cup {g} /\ at' = "return"
        /\ UNCHANGED <<disp, accepted, handled, classified>>
    BY DEF Fail, bus
  <1>2. disp # None /\ g.req = disp.req
    BY DEF Inv, TypeOK
  <1>3. disp = Created(disp.req) /\ ~Holds(handled, disp) /\ ~HasOutcome(disp.req)
    BY <1>2, NoOutcomeYet
  <1> HIDE DEF g
  <1>4. PublishedOnce'
    BY <1>1, SameAccepted DEF OutcomeInv, Undecided
  <1>5. OutcomeIsEarned'
    <2>1. \A r \in classified' : Holds(handled', Created(r))
      BY <1>1 DEF OutcomeInv, OutcomeIsEarned
    <2>2. \A f \in failed' : \/ Holds(handled', Created(f.req))
                             \/ disp' = Created(f.req) /\ at' = "return"
      BY <1>1, <1>2, <1>3 DEF OutcomeInv, OutcomeIsEarned
    <2> QED
      BY <2>1, <2>2 DEF OutcomeIsEarned
  <1>6. OutcomeBeforeReturn'
    BY <1>1, <1>2 DEF OutcomeBeforeReturn, HasOutcome
  <1>7. OneOutcome'
    <2>1. \A r \in Creates : r \in classified' => \A f \in failed' : f.req # r
      BY <1>1, <1>2, <1>3 DEF OutcomeInv, OneOutcome, HasOutcome
    <2> QED
      BY <1>1, <2>1 DEF OutcomeInv, OneOutcome
  <1> QED
    BY <1>4, <1>5, <1>6, <1>7 DEF OutcomeInv

(* At the start nothing is accepted and nothing has an outcome. *)
LEMMA OutcomeInit == Init => OutcomeInv
  BY DEF Init, OutcomeInv, PublishedOnce, Undecided, Holds, OutcomeIsEarned,
     OutcomeBeforeReturn, OneOutcome

(* A request publishes its event once, or gives it up. *)
LEMMA OutcomeRequest ==
    ASSUME Inv, OutcomeInv, NEW r \in Requests, Begin(r) \/ Publish(r) \/ End(r)
    PROVE  OutcomeInv'
  <1>0. phase \in [Requests -> {"new", "running", "waiting", "returned", "panicked", "ended"}]
    BY DEF Inv, TypeOK
  <1>1. UNCHANGED <<disp, at, handled, classified, failed>>
    BY DEF Begin, Publish, End
  <1>2. \A q \in Requests : Undecided(q)' => Undecided(q)
    BY <1>0 DEF Begin, Publish, PublishStep, End, Undecided
  <1>3. CASE Publish(r) /\ Put(Created(r))
    <2>1. Undecided(r) /\ ~Undecided(r)'
      <3>1. phase[r] \in {"running", "waiting"} /\ phase' = [phase EXCEPT ![r] = "returned"]
        BY <1>3 DEF Publish, PublishStep, Put, Full
      <3> QED
        BY <1>0, <3>1 DEF Undecided
    <2>2. /\ Created(r) \in Event
          /\ ~Holds(accepted, Created(r))
          /\ \A q \in Requests : Created(q) = Created(r) => q = r
      BY <2>1 DEF OutcomeInv, PublishedOnce, Created, Event
    <2>3. PublishedOnce'
      BY <1>2, <1>3, <2>1, <2>2, AcceptOnce DEF OutcomeInv
    <2> QED
      BY <1>1, <2>3, SameOutcomes
  <1>4. CASE ~(Publish(r) /\ Put(Created(r)))
    <2>1. accepted' = accepted
      BY <1>4 DEF Begin, Publish, PublishStep, GiveUp, End
    <2> QED
      BY <1>1, <1>2, <2>1, SameAccepted, SameOutcomes DEF OutcomeInv
  <1> QED
    BY <1>3, <1>4

(* The dispatcher decides on a ticket once, between Take and Return. *)
LEMMA OutcomeDispatch ==
    ASSUME Inv, OutcomeInv, Dispatch
    PROVE  OutcomeInv'
  <1>1. /\ UNCHANGED <<phase, stopping, closed>>
        /\ \A r \in Requests : Undecided(r)' => Undecided(r)
    BY DEF Dispatch, Undecided
  <1>2. CASE Take \/ Pass \/ Exit
    <2>1. /\ UNCHANGED <<accepted, handled, classified, failed>>
          /\ \/ disp = None /\ at' = "handle"
             \/ at = "handle" /\ ~IsCreated(disp) /\ at' = "return" /\ disp' = disp
             \/ UNCHANGED <<disp, at>>
      BY <1>2 DEF Take, Pass, Exit, bus, work
    <2>2. PublishedOnce'
      BY <1>1, <2>1, SameAccepted DEF OutcomeInv
    <2>3. \A r \in Requests : Created(r) # None
      BY EventBusConstants DEF Created
    <2>4. /\ at = "handle" => /\ \A r \in classified : Holds(handled, Created(r))
                              /\ \A f \in failed : Holds(handled, Created(f.req))
          /\ disp = None => /\ \A r \in classified : Holds(handled, Created(r))
                            /\ \A f \in failed : Holds(handled, Created(f.req))
      BY <2>3, EventBusConstants DEF OutcomeInv, OutcomeIsEarned, Inv, TypeOK
    <2>5. OutcomeIsEarned'
      BY <2>1, <2>4 DEF OutcomeInv, OutcomeIsEarned, Holds
    <2>6. OutcomeBeforeReturn' /\ OneOutcome'
      BY <2>1 DEF OutcomeInv, OutcomeBeforeReturn, OneOutcome, HasOutcome, IsCreated
    <2> QED
      BY <2>2, <2>5, <2>6 DEF OutcomeInv
  <1>3. CASE Load \/ Classify
    <2>1. at \in {"handle", "classify"} /\ IsCreated(disp)
      BY <1>3 DEF Load, Classify, Inv, TicketInHand
    <2>2. \/ Fail(FALSE)
          \/ /\ at' \in {"classify", "store"}
             /\ UNCHANGED <<disp, accepted, handled, classified, failed>>
      BY <1>3, <2>1 DEF Load, Classify, Answered, Retry, Exhaust, bus, work
    <2>3. CASE Fail(FALSE)
      BY <1>1, <2>1, <2>3, FailOutcome
    <2>4. CASE /\ at' \in {"classify", "store"}
               /\ UNCHANGED <<disp, accepted, handled, classified, failed>>
      <3>1. PublishedOnce'
        BY <1>1, <2>4, SameAccepted DEF OutcomeInv
      <3>2. OutcomeIsEarned' /\ OutcomeBeforeReturn' /\ OneOutcome'
        BY <2>1, <2>4 DEF OutcomeInv, OutcomeIsEarned, OutcomeBeforeReturn, OneOutcome, Holds
      <3> QED
        BY <3>1, <3>2 DEF OutcomeInv
    <2> QED
      BY <2>2, <2>3, <2>4
  <1>4. CASE Store
    <2>1. at = "store" /\ IsCreated(disp) /\ disp # None
      BY <1>4 DEF Store, Inv, TypeOK, TicketInHand
    <2>2. CASE Fail(TRUE)
      BY <1>1, <2>1, <2>2, FailOutcome
    <2>3. CASE ~Fail(TRUE)
      <3>1. /\ classified' = classified \cup {disp.req} /\ at' = "publish"
            /\ UNCHANGED <<disp, accepted, handled, failed>>
        BY <1>4, <2>3 DEF Store, bus
      <3>2. disp = Created(disp.req) /\ ~Holds(handled, disp) /\ ~HasOutcome(disp.req)
        BY <2>1, NoOutcomeYet
      <3>3. PublishedOnce'
        BY <1>1, <3>1, SameAccepted DEF OutcomeInv
      <3>4. OutcomeIsEarned'
        BY <2>1, <3>1, <3>2 DEF OutcomeInv, OutcomeIsEarned, Holds
      <3>5. OutcomeBeforeReturn'
        BY <3>1 DEF OutcomeBeforeReturn
      <3>6. OneOutcome'
        BY <3>1, <3>2 DEF OutcomeInv, OneOutcome, HasOutcome
      <3> QED
        BY <3>3, <3>4, <3>5, <3>6 DEF OutcomeInv
    <2> QED
      BY <2>2, <2>3
  <1>5. CASE PublishCompleted
    <2> DEFINE e == Completed(disp.req)
    <2>1. /\ at \in {"publish", "waiting"} /\ IsCreated(disp) /\ disp # None
          /\ at' \in {"publish", "waiting", "return"}
          /\ UNCHANGED <<disp, handled, classified, failed>>
          /\ Put(e) \/ accepted' = accepted
      BY <1>5 DEF PublishCompleted, GiveUp, bus, work, Inv, TypeOK, TicketInHand
    <2>2. e \in Event /\ e.kind = "completed" /\ \A r \in Requests : Created(r) # e
      BY <2>1 DEF Completed, Created, Event, Inv, TypeOK
    <2>3. disp = Created(disp.req) /\ \A f \in failed : f.req # disp.req
      BY <2>1, NoOutcomeYet
    <2> HIDE DEF e
    <2>4. PublishedOnce'
      BY <1>1, <2>1, <2>2, AcceptOnce, SameAccepted DEF OutcomeInv
    <2>5. disp.req \in classified
      BY <2>1 DEF OutcomeInv, OutcomeBeforeReturn
    <2>6. OutcomeIsEarned'
      BY <2>1, <2>3 DEF OutcomeInv, OutcomeIsEarned, Holds
    <2>7. OutcomeBeforeReturn' /\ OneOutcome'
      BY <2>1, <2>5 DEF OutcomeInv, OutcomeBeforeReturn, OneOutcome, HasOutcome, Holds
    <2> QED
      BY <2>4, <2>6, <2>7 DEF OutcomeInv
  <1>6. CASE Return
    <2>1. /\ at = "return" /\ handled' = Append(handled, disp)
          /\ disp' = None /\ at' = "idle"
          /\ UNCHANGED <<accepted, classified, failed>>
      BY <1>6 DEF Return, bus
    <2>2. disp \in Event /\ disp # None /\ handled \in Seq(Event)
      BY <2>1 DEF Inv, TypeOK
    <2>3. \A e : Holds(handled', e) <=> Holds(handled, e) \/ e = disp
      BY <2>1, <2>2, HoldsAppend
    <2>4. PublishedOnce'
      BY <1>1, <2>1, SameAccepted DEF OutcomeInv
    <2>5. OutcomeIsEarned'
      BY <2>1, <2>3 DEF OutcomeInv, OutcomeIsEarned
    <2>6. OutcomeBeforeReturn'
      BY <2>1 DEF OutcomeBeforeReturn
    <2>7. OneOutcome'
      <3>1. ASSUME NEW r \in Creates, Holds(handled', Created(r)) PROVE HasOutcome(r)
        <4>1. CASE Holds(handled, Created(r))
          BY <4>1 DEF OutcomeInv, OneOutcome, HasOutcome, Holds
        <4>2. CASE disp = Created(r)
          <5>1. IsCreated(disp) /\ disp.req = r
            BY <4>2 DEF IsCreated, Created
          <5> QED
            BY <2>1, <5>1 DEF OutcomeInv, OutcomeBeforeReturn
        <4> QED
          BY <2>3, <3>1, <4>1, <4>2
      <3> QED
        BY <2>1, <3>1 DEF OutcomeInv, OneOutcome, HasOutcome, Holds
    <2> QED
      BY <2>4, <2>5, <2>6, <2>7 DEF OutcomeInv
  <1> QED
    BY <1>2, <1>3, <1>4, <1>5, <1>6 DEF Dispatch

(* A ticket whose event was handled is classified or counted as failed,    *)
(* never both: TicketConsumer.handle and the bus together lose no ticket   *)
(* silently and decide on none twice, for every interleaving of requests,  *)
(* retries, full buffers and shutdown.                                     *)
THEOREM OneOutcomePerTicket == Spec => []OneOutcome
  <1>1. Inv /\ OutcomeInv /\ [Next]_vars => OutcomeInv'
    <2> SUFFICES ASSUME Inv, OutcomeInv, [Next]_vars PROVE OutcomeInv'
      OBVIOUS
    <2>1. CASE Stop \/ Close \/ UNCHANGED vars
      <3>1. UNCHANGED <<phase, accepted, disp, at, handled, classified, failed>>
        BY <2>1 DEF Stop, Close, vars
      <3> QED
        BY <3>1, SameAccepted, SameOutcomes DEF OutcomeInv, Undecided
    <2> QED
      BY <2>1, OutcomeRequest, OutcomeDispatch DEF Next
  <1>2. OutcomeInv => OneOutcome
    BY DEF OutcomeInv
  <1> QED
    BY <1>1, <1>2, OutcomeInit, BusInvariant, PTL DEF Spec
=============================================================================
