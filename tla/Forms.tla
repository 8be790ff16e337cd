-------------------------------- MODULE Forms --------------------------------
(***************************************************************************)
(* The forms and dialogs that send one request: their field, their pending *)
(* flag, the request, and the answer that comes when the form may have     *)
(* been closed, or opened for somebody else.                               *)
(*                                                                         *)
(* One form is modelled at a time.  Three families behave differently.     *)
(* Inline forms are always there.  Held dialogs are one component whose    *)
(* state outlives closing.  Keyed dialogs are mounted anew for every       *)
(* person or department they open for: the request of a dialog that was    *)
(* closed has lost its form, but its handler still tells the parent to     *)
(* close, whatever is open by then.                                        *)
(***************************************************************************)
EXTENDS Naturals, Sequences

CONSTANTS
    Subjects,   \* what a dialog can be opened for
    MaxTexts,   \* bound: texts typed, choices made or dialogs confirmed
    MaxSends    \* bound: requests sent

NoSubject == "nobody"

ASSUME FormsConstants ==
    /\ NoSubject \notin Subjects
    /\ Subjects # {}
    /\ {MaxTexts, MaxSends} \subseteq Nat

Form(family, confirms, locks) == [family |-> family, confirms |-> confirms, locks |-> locks]

(* The forms: their family, whether they only ask for a confirmation, and  *)
(* whether their field is disabled while the request is pending.           *)
PortalReplyBox         == Form("inline", FALSE, TRUE)
WorkspaceReplyBox      == Form("inline", FALSE, FALSE)
ChangePasswordCard     == Form("inline", FALSE, FALSE)
NewTicketDialog        == Form("held", FALSE, FALSE)
DeleteDepartmentDialog == Form("held", TRUE, FALSE)
DepartmentDialog       == Form("keyed", FALSE, FALSE)
AssignDepartmentDialog == Form("keyed", FALSE, FALSE)
EditStaffDialog        == Form("keyed", FALSE, FALSE)
RemoveStaffDialog      == Form("keyed", TRUE, FALSE)
Composer               == Form("local", FALSE, FALSE)

FormTable ==
    [portalReply |-> PortalReplyBox, workspaceReply |-> WorkspaceReplyBox,
     changePassword |-> ChangePasswordCard, newTicket |-> NewTicketDialog,
     deleteDepartment |-> DeleteDepartmentDialog, department |-> DepartmentDialog,
     assignDepartment |-> AssignDepartmentDialog, editStaff |-> EditStaffDialog,
     removeStaff |-> RemoveStaffDialog, composer |-> Composer]
FormKinds == DOMAIN FormTable

Family(name) == {f \in FormKinds : FormTable[f].family = name}
Inline == Family("inline")
Held == Family("held")
Keyed == Family("keyed")
Local == Family("local")
Confirms == {f \in FormKinds : FormTable[f].confirms}

NeverLocks(f) == FALSE
LocksField(f) == FormTable[f].locks

VARIABLES
    form,        \* which form
    subject,     \* what it is open for, or NoSubject
    text,        \* what the field holds: the number of the text, 0 for nothing
    texts,       \* texts so far
    pending,     \* isPending of the mounted form
    problem,     \* an error message is shown
    sent,        \* requests so far, in order: stage, text, whether the form that
                 \* sent it is still mounted
    effects,     \* text -> how often it took effect in the backend
    unsure,      \* history: texts that took effect and whose answer was lost
    overlapped,  \* history: something was typed while a request was under way
    wiped        \* history: an answer removed a text that it did not answer

formVars == <<form, subject, text, texts, pending, problem, sent, effects, unsure,
              overlapped, wiped>>

UnderWay(i) == sent[i].stage \in {"sent", "applied"}
InFlight == \E i \in DOMAIN sent : UnderWay(i)
Orphaned == [i \in DOMAIN sent |-> [sent[i] EXCEPT !.mine = FALSE]]

(* A new text, the next number. *)
Enters ==
    /\ texts < MaxTexts
    /\ texts' = texts + 1
    /\ text' = texts + 1
    /\ overlapped' = (overlapped \/ InFlight)

(* Opening for a subject mounts a keyed dialog anew. *)
OpenForm(s) ==
    /\ subject = NoSubject
    /\ subject' = s
    /\ IF form \in Confirms THEN Enters ELSE UNCHANGED <<text, texts, overlapped>>
    /\ pending' = (pending /\ form \notin Keyed)
    /\ sent' = IF form \in Keyed THEN Orphaned ELSE sent
    /\ UNCHANGED <<form, problem, effects, unsure, wiped>>

TypeText ==
    /\ subject # NoSubject /\ form \notin Confirms
    /\ ~(LocksField(form) /\ pending)
    /\ Enters
    /\ UNCHANGED <<form, subject, pending, problem, sent, effects, unsure, wiped>>

(* What closing leaves: the parent forgets the subject, the form is reset  *)
(* or mounted anew.                                                        *)
Closes ==
    /\ subject' = NoSubject
    /\ text' = 0
    /\ problem' = FALSE

(* Escape, the cross or a click beside the dialog: only the Cancel button  *)
(* minds a pending request.                                                *)
Dismiss ==
    /\ form \in Held \cup Keyed /\ subject # NoSubject
    /\ Closes
    /\ pending' = (pending /\ form \notin Keyed)
    /\ sent' = IF form \in Keyed THEN Orphaned ELSE sent
    /\ UNCHANGED <<form, texts, effects, unsure, overlapped, wiped>>

(* The page of an inline form shows an error state or another page, and    *)
(* comes back with an empty form.                                          *)
Remount ==
    /\ form \in Inline
    /\ text' = 0 /\ problem' = FALSE /\ pending' = FALSE
    /\ sent' = Orphaned
    /\ UNCHANGED <<form, subject, texts, effects, unsure, overlapped, wiped>>

SubmitPending ==
    /\ subject # NoSubject /\ text # 0 /\ form \notin Local
    /\ Len(sent) < MaxSends
    /\ sent' = Append(sent, [stage |-> "sent", text |-> text, mine |-> TRUE])
    /\ pending' = TRUE /\ problem' = FALSE
    /\ UNCHANGED <<form, subject, text, texts, effects, unsure, overlapped, wiped>>
Submit ==
    /\ subject # NoSubject /\ text # 0 /\ form \notin Local
    /\ ~pending
    /\ Len(sent) < MaxSends
    /\ sent' = Append(sent, [stage |-> "sent", text |-> text, mine |-> TRUE])
    /\ pending' = TRUE /\ problem' = FALSE
    /\ UNCHANGED <<form, subject, text, texts, effects, unsure, overlapped, wiped>>

(* The agent's composer appends to the conversation on screen. *)
ComposeLocal ==
    /\ form \in Local /\ text # 0
    /\ effects' = [effects EXCEPT ![text] = @ + 1]
    /\ text' = 0
    /\ UNCHANGED <<form, subject, texts, pending, problem, sent, unsure, overlapped, wiped>>

TakeEffect(i) ==
    /\ sent[i].stage = "sent"
    /\ sent' = [sent EXCEPT ![i].stage = "applied"]
    /\ effects' = [effects EXCEPT ![sent[i].text] = @ + 1]
    /\ UNCHANGED <<form, subject, text, texts, pending, problem, unsure, overlapped, wiped>>

(* Success clears the field; a dialog closes, and so does the one that a   *)
(* keyed dialog's parent has open by now.                                  *)
Succeed(i) ==
    LET rest == [sent EXCEPT ![i].stage = "done"]
    IN  /\ sent[i].stage = "applied"
        /\ IF form \in Inline
           THEN text' = (IF sent[i].mine THEN 0 ELSE text) /\ UNCHANGED <<subject, problem>>
           ELSE Closes
        /\ pending' = (pending /\ form \in Inline /\ ~sent[i].mine)
        /\ sent' = IF form \in Keyed
                   THEN [j \in DOMAIN rest |-> [rest[j] EXCEPT !.mine = FALSE]] ELSE rest
        /\ wiped' = (wiped \/ (text' # text /\ text # sent[i].text))
        /\ UNCHANGED <<form, texts, effects, unsure, overlapped>>

(* Refused, or the answer got lost on its way: the form keeps its text and *)
(* shows a message; a form that is gone shows nothing.                     *)
Fail(i) ==
    /\ UnderWay(i)
    /\ sent' = [sent EXCEPT ![i].stage = "done"]
    /\ unsure' = IF sent[i].stage = "applied" THEN unsure \cup {sent[i].text} ELSE unsure
    /\ IF sent[i].mine THEN pending' = FALSE /\ problem' = TRUE
                       ELSE UNCHANGED <<pending, problem>>
    /\ UNCHANGED <<form, subject, text, texts, effects, overlapped, wiped>>

-----------------------------------------------------------------------------
FormInit ==
    /\ form \in FormKinds
    /\ subject \in (IF form \in Inline \cup Local THEN Subjects ELSE {NoSubject})
    /\ text = 0 /\ texts = 0
    /\ pending = FALSE /\ problem = FALSE
    /\ sent = <<>>
    /\ effects = [t \in 1..MaxTexts |-> 0]
    /\ unsure = {} /\ overlapped = FALSE /\ wiped = FALSE

FormNext ==
    \/ \E s \in Subjects : OpenForm(s)
    \/ TypeText
    \/ Dismiss
    \/ Remount
    \/ Submit
    \/ ComposeLocal
    \/ \E i \in DOMAIN sent : TakeEffect(i) \/ Succeed(i) \/ Fail(i)

FormSpec == FormInit /\ [][FormNext]_formVars

-----------------------------------------------------------------------------
(* Properties. *)

Sends == [stage: {"sent", "applied", "done"}, text: 1..MaxTexts, mine: BOOLEAN]

FormTypeOK ==
    /\ form \in FormKinds
    /\ subject \in Subjects \cup {NoSubject}
    /\ text \in 0..MaxTexts /\ texts \in 0..MaxTexts
    /\ pending \in BOOLEAN /\ problem \in BOOLEAN
    /\ sent \in Seq(Sends)
    /\ Len(sent) <= MaxSends
    /\ effects \in [1..MaxTexts -> Nat]
    /\ unsure \subseteq 1..MaxTexts
    /\ overlapped \in BOOLEAN /\ wiped \in BOOLEAN

(* An answer never removes a text it does not answer, unless that text was *)
(* typed while the request was under way; and in the portal's reply box,   *)
(* whose field is locked meanwhile, it never does.                         *)
TypedTextKept == wiped => overlapped /\ form # "portalReply"

(* A text takes effect twice only if the form could not know it had taken  *)
(* effect: the answer was lost, and the person sent it again.              *)
NoSilentDuplicate == \A t \in 1..MaxTexts : effects[t] > 1 => t \in unsure
=============================================================================
