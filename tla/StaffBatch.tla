----------------------------- MODULE StaffBatch -----------------------------
(***************************************************************************)
(* Placing several people on a department (add-staff-dialog.tsx): one      *)
(* request per person, in sequence, and a message that counts the people   *)
(* placed before a failure.                                                *)
(*                                                                         *)
(* The dialog is never unmounted: closing it while a batch runs resets its *)
(* pending flag and the batch goes on, so a second one can run beside it.  *)
(***************************************************************************)
EXTENDS Naturals, FiniteSets

CONSTANTS
    People,       \* the organization's roster
    MaxBatches    \* bound: batches started

ASSUME BatchConstants == IsFiniteSet(People) /\ MaxBatches \in Nat

Batches == 1..MaxBatches
Idle0 == "idle"
NoPerson == "no person"
NoMessage == [batch |-> 0, done |-> 0]

VARIABLES
    onTeam,      \* people on the department, in the backend
    roster,      \* people on it as the page last read them
    adding,      \* the dialog is open
    selected,    \* people ticked
    submitting,  \* the dialog's pending flag
    batch,       \* batch -> stage, person being placed, people left, count done
    placed,      \* history: batch -> people its requests have placed
    started,     \* batches so far
    message      \* the error shown: whose it is and the count it names

batchVars == <<onTeam, roster, adding, selected, submitting, batch, placed, started,
               message>>
dialog == <<adding, selected, submitting, message>>

OpenAdd ==
    /\ ~adding /\ adding' = TRUE
    /\ UNCHANGED <<onTeam, roster, selected, submitting, batch, placed, started, message>>

(* Candidates are the people the page does not show on the team. *)
Toggle(p) ==
    /\ adding /\ p \notin roster
    /\ selected' = IF p \in selected THEN selected \ {p} ELSE selected \cup {p}
    /\ UNCHANGED <<onTeam, roster, adding, submitting, batch, placed, started, message>>

ResetAndClose ==
    /\ adding' = FALSE /\ selected' = {}
    /\ submitting' = FALSE /\ message' = NoMessage

(* Escape works while a batch runs; the Cancel button does not. *)
CloseAdd ==
    /\ adding
    /\ ResetAndClose
    /\ UNCHANGED <<onTeam, roster, batch, placed, started>>

SubmitBatch(p) ==
    /\ adding /\ ~submitting /\ p \in selected
    /\ started < MaxBatches /\ started' = started + 1
    /\ batch' = [batch EXCEPT ![started + 1] =
                   [stage |-> "sent", person |-> p, left |-> selected \ {p}, done |-> 0]]
    /\ submitting' = TRUE /\ message' = NoMessage
    /\ UNCHANGED <<onTeam, roster, adding, selected, placed>>

PlacePerson(b) ==
    /\ batch[b].stage = "sent"
    /\ onTeam' = onTeam \cup {batch[b].person}
    /\ placed' = [placed EXCEPT ![b] = @ \cup {batch[b].person}]
    /\ batch' = [batch EXCEPT ![b].stage = "placed"]
    /\ UNCHANGED <<roster, dialog, started>>

(* The answer came: the count goes up and the next person is sent. *)
NextPerson(b, p) ==
    /\ batch[b].stage = "placed" /\ p \in batch[b].left
    /\ batch' = [batch EXCEPT ![b] = [stage |-> "sent", person |-> p,
                                      left |-> @.left \ {p}, done |-> @.done + 1]]
    /\ UNCHANGED <<onTeam, roster, dialog, placed, started>>

(* The last answer came: a toast names the count, and the dialog closes,   *)
(* also when it was opened again meanwhile.                                *)
FinishBatch(b) ==
    /\ batch[b].stage = "placed" /\ batch[b].left = {}
    /\ batch' = [batch EXCEPT ![b].stage = "finished", ![b].done = @ + 1]
    /\ ResetAndClose
    /\ UNCHANGED <<onTeam, roster, placed, started>>

(* Refused, or the answer was lost: the rest is not tried, and the message *)
(* counts the answers that came.                                           *)
CountsSending(b) ==
    /\ batch[b].stage \in {"sent", "placed"}
    /\ batch' = [batch EXCEPT ![b].stage = "failed"]
    /\ message' = [batch |-> b, done |-> batch[b].done + 1]
    /\ submitting' = FALSE
    /\ UNCHANGED <<onTeam, roster, adding, selected, placed, started>>
FailBatch(b) ==
    /\ batch[b].stage \in {"sent", "placed"}
    /\ batch' = [batch EXCEPT ![b].stage = "failed"]
    /\ message' = [batch |-> b, done |-> batch[b].done]
    /\ submitting' = FALSE
    /\ UNCHANGED <<onTeam, roster, adding, selected, placed, started>>

(* Every answer invalidates the workforce query, and it is read again. *)
ReadRoster ==
    /\ roster' = onTeam
    /\ UNCHANGED <<onTeam, dialog, batch, placed, started>>

-----------------------------------------------------------------------------
BatchInit ==
    /\ onTeam = {} /\ roster = {}
    /\ adding = FALSE /\ selected = {} /\ submitting = FALSE
    /\ batch = [b \in Batches |-> [stage |-> Idle0, person |-> NoPerson, left |-> {},
                                   done |-> 0]]
    /\ placed = [b \in Batches |-> {}]
    /\ started = 0
    /\ message = NoMessage

BatchNext ==
    \/ OpenAdd
    \/ \E p \in People : Toggle(p)
    \/ CloseAdd
    \/ \E p \in People : SubmitBatch(p)
    \/ \E b \in Batches : \/ PlacePerson(b) \/ FinishBatch(b) \/ FailBatch(b)
                          \/ \E p \in People : NextPerson(b, p)
    \/ ReadRoster

BatchSpec == BatchInit /\ [][BatchNext]_batchVars

-----------------------------------------------------------------------------
(* Properties. *)

BatchTypeOK ==
    /\ onTeam \subseteq People /\ roster \subseteq People
    /\ adding \in BOOLEAN /\ submitting \in BOOLEAN
    /\ selected \subseteq People
    /\ batch \in [Batches -> [stage: {Idle0, "sent", "placed", "finished", "failed"},
                              person: People \cup {NoPerson}, left: SUBSET People,
                              done: Nat]]
    /\ placed \in [Batches -> SUBSET People]
    /\ started \in 0..MaxBatches
    /\ message \in [batch: 0..MaxBatches, done: Nat]

(* The count in the message is the number of people its own batch placed,  *)
(* or one less when the answer to the last one was lost, however many      *)
(* batches ran beside it and whoever closed the dialog in between.         *)
BatchReportsHonest ==
    message # NoMessage =>
        Cardinality(placed[message.batch]) \in {message.done, message.done + 1}
=============================================================================
