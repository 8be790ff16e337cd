------------------------------ MODULE EventBus ------------------------------
(***************************************************************************)
(* The in-process event bus: HTTP requests that publish, the bounded       *)
(* channel, the one dispatcher goroutine, and what the dispatcher runs for *)
(* a ticket.created event: the triage consumer, with the retries of the    *)
(* HTTP classifier, which publishes analysis.completed on the same bus.    *)
(*                                                                         *)
(* An envelope carries the context of the request that published it, which *)
(* net/http cancels when the request's handler returns.  A send on the     *)
(* closed channel panics: in a request it is recovered, in the dispatcher  *)
(* it ends the process.                                                    *)
(***************************************************************************)
EXTENDS Naturals, Sequences

CONSTANTS
    Requests,      \* HTTP requests, each of which publishes one event
    Creates,       \* those that create a ticket
    BufferSize,    \* capacity of the channel
    Attempts,      \* maxRetries + 1
    Fallback,      \* the stub answers when the attempts are exhausted
    ServiceDown,   \* TRUE: a call of the model service may fail
    MayStop,       \* TRUE: the server may get a shutdown signal
    DrainTimeout,  \* TRUE: requests may outlive the 30 s of Shutdown
    None

ASSUME EventBusConstants ==
    /\ Creates \subseteq Requests
    /\ BufferSize \in Nat \ {0}
    /\ Attempts \in Nat \ {0}
    /\ {Fallback, ServiceDown, MayStop, DrainTimeout} \subseteq BOOLEAN
    /\ None \notin [req: Requests, kind: {"request", "completed"}]

VARIABLES
    phase,       \* request: new, running, waiting, returned, panicked, ended
    ch,          \* the channel
    disp,        \* the event the dispatcher handles, or None
    at,          \* where the dispatcher is
    attempt,     \* the attempt of Client.Classify
    accepted,    \* history: events Publish took, in order
    handled,     \* history: events whose handlers returned, in order
    dropped,     \* events Publish gave up
    classified,  \* tickets whose analysis is stored
    failed,      \* classifications that failed: [req, tries, answered]
    stopping,    \* the server takes no more requests
    closed,      \* the channel is closed
    done,        \* dispatch returned, and with it Close
    crashed      \* the dispatcher panicked

vars == <<phase, ch, disp, at, attempt, accepted, handled, dropped, classified, failed,
          stopping, closed, done, crashed>>
server == <<stopping, closed, done>>

Event == [req: Requests, kind: {"request", "completed"}]
Created(r)   == [req |-> r, kind |-> "request"]
Completed(r) == [req |-> r, kind |-> "completed"]

(* net/http cancels the context once the handler is over. *)
Cancelled(e) == phase[e.req] = "ended"

-----------------------------------------------------------------------------
(* Publish, for a caller that is a request or the dispatcher. *)

LateRoom == Len(ch) <= BufferSize
Room == Len(ch) < BufferSize

(* Either select sends. *)
Put(e) ==
    /\ ~closed
    /\ Room
    /\ ch' = Append(ch, e)
    /\ accepted' = Append(accepted, e)
    /\ UNCHANGED dropped

(* The first select finds no room. *)
Full == ~closed /\ ~Room

NeverGiveUp(e) == FALSE /\ UNCHANGED <<ch, accepted, dropped>>
DropOldest(e) ==
    /\ ch' = Append(Tail(ch), e)
    /\ accepted' = Append(accepted, e)
    /\ UNCHANGED dropped
(* The timer of the second select fires first. *)
GiveUp(e) ==
    /\ dropped' = dropped \cup {e}
    /\ UNCHANGED <<ch, accepted>>

-----------------------------------------------------------------------------
(* Requests. *)

Begin(r) ==
    /\ phase[r] = "new"
    /\ ~stopping
    /\ phase' = [phase EXCEPT ![r] = "running"]
    /\ UNCHANGED <<ch, disp, at, attempt, accepted, handled, dropped, classified, failed,
                   server, crashed>>

PublishStep(r) ==
    \/ /\ phase[r] = "running"
       /\ Put(Created(r))
       /\ phase' = [phase EXCEPT ![r] = "returned"]
    \/ /\ phase[r] = "running"
       /\ Full
       /\ phase' = [phase EXCEPT ![r] = "waiting"]
       /\ UNCHANGED <<ch, accepted, dropped>>
    \/ /\ phase[r] = "waiting"
       /\ Put(Created(r)) \/ GiveUp(Created(r))
       /\ phase' = [phase EXCEPT ![r] = "returned"]
    \/ /\ phase[r] \in {"running", "waiting"}
       /\ closed
       /\ phase' = [phase EXCEPT ![r] = "panicked"]
       /\ UNCHANGED <<ch, accepted, dropped>>

Publish(r) ==
    /\ PublishStep(r)
    /\ UNCHANGED <<disp, at, attempt, handled, classified, failed, server, crashed>>

(* The response is written, or the panic recovered. *)
End(r) ==
    /\ phase[r] \in {"returned", "panicked"}
    /\ phase' = [phase EXCEPT ![r] = "ended"]
    /\ UNCHANGED <<ch, disp, at, attempt, accepted, handled, dropped, classified, failed,
                   server, crashed>>

-----------------------------------------------------------------------------
(* The dispatcher. *)

bus == <<ch, accepted, dropped>>
work == <<classified, failed, attempt>>

SecondDispatcherTake ==
    /\ disp = None \/ at = "waiting"
    /\ ch # <<>>
    /\ disp' = Head(ch)
    /\ ch' = Tail(ch)
    /\ at' = "handle"
    /\ UNCHANGED <<accepted, handled, dropped, work, done, crashed>>
Take ==
    /\ disp = None
    /\ ch # <<>>
    /\ disp' = Head(ch)
    /\ ch' = Tail(ch)
    /\ at' = "handle"
    /\ UNCHANGED <<accepted, handled, dropped, work, done, crashed>>

IsCreated(e) == e.kind = "request" /\ e.req \in Creates

(* The handlers of any other event do not block: the log and the bridge. *)
Pass ==
    /\ at = "handle"
    /\ ~IsCreated(disp)
    /\ at' = "return"
    /\ UNCHANGED <<disp, bus, handled, work, done, crashed>>

SilentFail(answered) ==
    /\ at' = "return"
    /\ UNCHANGED <<disp, bus, handled, work, done, crashed>>
(* TicketConsumer.handle swallows the error of AnalyzeTicketUseCase. *)
Fail(answered) ==
    /\ failed' = failed \cup {[req |-> disp.req, tries |-> attempt, answered |-> answered]}
    /\ at' = "return"
    /\ UNCHANGED <<disp, bus, handled, classified, attempt, done, crashed>>

(* The reads before the classifier is called; they may fail. *)
Load ==
    /\ at = "handle"
    /\ IsCreated(disp)
    /\ \/ Fail(FALSE)
       \/ /\ ~Cancelled(disp)
          /\ at' = "classify"
          /\ attempt' = 1
          /\ UNCHANGED <<disp, bus, handled, classified, failed, done, crashed>>

(* Client.once, and what Client.Classify makes of its outcome: an answer,  *)
(* another attempt after the backoff unless the context is over, and the   *)
(* stub once the attempts are exhausted.                                   *)
Answered ==
    /\ ~Cancelled(disp)
    /\ at' = "store"
    /\ UNCHANGED <<disp, bus, handled, work, done, crashed>>

NoRetry == attempt < Attempts /\ Fail(FALSE)
Retry ==
    /\ attempt < Attempts
    /\ IF Cancelled(disp)
       THEN Fail(FALSE)
       ELSE /\ attempt' = attempt + 1
            /\ UNCHANGED <<disp, at, bus, handled, classified, failed, done, crashed>>

Exhaust ==
    /\ attempt = Attempts
    /\ IF Fallback
       THEN at' = "store" /\ UNCHANGED <<disp, bus, handled, work, done, crashed>>
       ELSE Fail(FALSE)

Classify ==
    /\ at = "classify"
    /\ Answered \/ ((ServiceDown \/ Cancelled(disp)) /\ (Retry \/ Exhaust))

(* The labels of the answer are checked, the analysis and the ticket       *)
(* written; each of these may fail.                                        *)
Store ==
    /\ at = "store"
    /\ \/ Fail(TRUE)
       \/ /\ ~Cancelled(disp)
          /\ classified' = classified \cup {disp.req}
          /\ at' = "publish"
          /\ UNCHANGED <<disp, bus, handled, failed, attempt, done, crashed>>

(* Publish of analysis.completed, on the dispatcher's own goroutine. *)
PublishCompleted ==
    /\ at \in {"publish", "waiting"}
    /\ \/ /\ Put(Completed(disp.req)) \/ (at = "waiting" /\ GiveUp(Completed(disp.req)))
          /\ at' = "return"
          /\ UNCHANGED crashed
       \/ /\ at = "publish" /\ Full
          /\ at' = "waiting"
          /\ UNCHANGED <<bus, crashed>>
       \/ /\ closed
          /\ crashed' = TRUE
          /\ UNCHANGED <<bus, at>>
    /\ UNCHANGED <<disp, handled, work, done>>

Return ==
    /\ at = "return"
    /\ handled' = Append(handled, disp)
    /\ disp' = None
    /\ at' = "idle"
    /\ attempt' = 0
    /\ UNCHANGED <<bus, classified, failed, done, crashed>>

HastyExit ==
    /\ disp = None
    /\ closed /\ ~done
    /\ done' = TRUE
    /\ UNCHANGED <<disp, at, bus, handled, work, crashed>>
(* The range over the closed channel ends when it is empty. *)
Exit ==
    /\ disp = None
    /\ closed /\ ch = <<>> /\ ~done
    /\ done' = TRUE
    /\ UNCHANGED <<disp, at, bus, handled, work, crashed>>

Dispatch ==
    /\ Take \/ Pass \/ Load \/ Classify \/ Store \/ PublishCompleted \/ Return \/ Exit
    /\ UNCHANGED <<phase, stopping, closed>>

-----------------------------------------------------------------------------
(* run() of the server. *)

Stop ==
    /\ MayStop /\ ~stopping
    /\ stopping' = TRUE
    /\ UNCHANGED <<phase, ch, disp, at, attempt, accepted, handled, dropped, classified,
                   failed, closed, done, crashed>>

(* Shutdown waits for the requests under way, at most 30 s. *)
Close ==
    /\ stopping /\ ~closed
    /\ DrainTimeout \/ \A r \in Requests : phase[r] \in {"new", "ended"}
    /\ closed' = TRUE
    /\ UNCHANGED <<phase, ch, disp, at, attempt, accepted, handled, dropped, classified,
                   failed, stopping, done, crashed>>

Init ==
    /\ phase = [r \in Requests |-> "new"]
    /\ ch = <<>>
    /\ disp = None
    /\ at = "idle"
    /\ attempt = 0
    /\ accepted = <<>>
    /\ handled = <<>>
    /\ dropped = {}
    /\ classified = {}
    /\ failed = {}
    /\ stopping = FALSE
    /\ closed = FALSE
    /\ done = FALSE
    /\ crashed = FALSE

(* The process lives until Close returns or the dispatcher panics. *)
Next ==
    /\ ~crashed /\ ~done
    /\ \/ \E r \in Requests : Begin(r) \/ Publish(r) \/ End(r)
       \/ Dispatch
       \/ Stop \/ Close

Spec == Init /\ [][Next]_vars

(* The scheduler runs the goroutines, timers fire, requests are answered   *)
(* and a server that was told to stop goes on to Close.                    *)
Fairness ==
    /\ \A r \in Requests : WF_vars(~crashed /\ ~done /\ (Publish(r) \/ End(r)))
    /\ WF_vars(~crashed /\ ~done /\ Dispatch)
    /\ WF_vars(~crashed /\ Close)
FairSpec == Spec /\ Fairness

-----------------------------------------------------------------------------
(* Properties. *)

(* The channel is within its capacity and every part of the state is what  *)
(* the code can hold.                                                      *)
TypeOK ==
    /\ phase \in [Requests -> {"new", "running", "waiting", "returned", "panicked", "ended"}]
    /\ ch \in Seq(Event) /\ Len(ch) <= BufferSize
    /\ disp \in Event \cup {None}
    /\ at \in {"idle", "handle", "classify", "store", "publish", "waiting", "return"}
    /\ (disp = None) <=> (at = "idle")
    /\ attempt \in 0..Attempts
    /\ accepted \in Seq(Event) /\ handled \in Seq(Event)
    /\ dropped \subseteq Event
    /\ classified \subseteq Creates
    /\ failed \subseteq [req: Creates, tries: 0..Attempts, answered: BOOLEAN]
    /\ stopping \in BOOLEAN /\ closed \in BOOLEAN
    /\ done \in BOOLEAN /\ crashed \in BOOLEAN

(* What Publish accepted is handled once and in that order: handled, being *)
(* handled and queued make up the accepted events, across full buffers,    *)
(* time-outs, the dispatcher's own events and Close.                       *)
InHand == IF disp = None THEN <<>> ELSE <<disp>>
QueueLaw == accepted = handled \o InHand \o ch

(* A ticket whose event was handled is classified or counted as failed,    *)
(* never both.                                                             *)
OneOutcome ==
    \A r \in Creates :
        /\ r \in classified => \A f \in failed : f.req # r
        /\ (\E i \in 1..Len(handled) : handled[i] = Created(r)) =>
               r \in classified \/ \E f \in failed : f.req = r

(* A classifier that has been called and gave no answer is given up before *)
(* its last attempt only because the request that created the ticket is    *)
(* over.                                                                   *)
CutShort(f) == f.tries \in 1..(Attempts - 1) /\ ~f.answered
EarlyFailureIsCancelled == \A f \in failed : CutShort(f) => phase[f.req] = "ended"

(* "by the time we are here the attempt (and any stub fallback) has        *)
(* already been exhausted" (triage/consumer.go).                           *)
FailureIsExhausted == \A f \in failed : ~CutShort(f)

(* The dispatcher that waits for room in its own channel waits in vain: no *)
(* one else takes events out, so that the wait always ends in a drop.      *)
SelfPublishWaitsInVain ==
    [][at = "waiting" /\ at' # "waiting" => Completed(disp.req) \in dropped']_vars

(* No request hangs in Publish, even while the dispatcher is stalled. *)
PublishReturns ==
    \A r \in Requests :
        phase[r] \in {"running", "waiting"}
            ~> phase[r] \in {"returned", "panicked", "ended"} \/ done \/ crashed

(* Every event in the channel is taken and its handlers return, unless the *)
(* dispatcher panics.                                                      *)
Holds(seq, e) == \E i \in 1..Len(seq) : seq[i] = e
AcceptedIsHandled == \A e \in Event : Holds(ch, e) ~> Holds(handled, e) \/ crashed

(* Close "shuts down the bus gracefully" (bus.go): it returns, and what    *)
(* was accepted has been handled.  The one exception is a dispatcher that  *)
(* was classifying a ticket at that moment, with analysis.completed still  *)
(* to publish on the closed channel.                                       *)
CloseDrains ==
    closed ~> \/ done /\ handled = accepted
              \/ crashed /\ disp.req \in classified
=============================================================================
