------------------------------ MODULE PageProofs ------------------------------
(***************************************************************************)
(* Proofs about the parts of a page that people type into: Forms, for any  *)
(* number of texts and requests; StaffBatch, for any roster and any number *)
(* of batches side by side; and UrlFilters, for any terms, facets and      *)
(* number of pages, where the URL is what the choices amount to and the    *)
(* search field follows it.                                                *)
(***************************************************************************)
EXTENDS Forms, StaffBatch, UrlFilters, FiniteSetTheorems, TLAPS

-----------------------------------------------------------------------------
(* StaffBatch. *)

(* What a batch has done so far: the people placed and the count agree,    *)
(* and nobody placed is asked for again.                                   *)
BatchKept(b) ==
    LET r == batch[b]
    IN  /\ placed[b] \cap r.left = {}
        /\ r.stage = Idle0 => placed[b] = {} /\ r.done = 0
        /\ r.stage = "sent" => /\ Cardinality(placed[b]) = r.done
                               /\ r.person \in People /\ r.person \notin placed[b] \cup r.left
        /\ r.stage = "placed" => Cardinality(placed[b]) = r.done + 1
        /\ r.stage = "failed" => Cardinality(placed[b]) \in {r.done, r.done + 1}

(* Batches that have not started are idle, and a message is that of a      *)
(* batch that failed.                                                      *)
BatchInv ==
    /\ BatchTypeOK
    /\ \A b \in Batches : BatchKept(b)
    /\ \A b \in Batches : b > started => batch[b].stage = Idle0
    /\ message # NoMessage => /\ message.batch \in Batches
                              /\ batch[message.batch].stage = "failed"
                              /\ message.done = batch[message.batch].done

(* No batch has started.                                                   *)
LEMMA BatchInitInv == BatchInit => BatchInv
<1> SUFFICES ASSUME BatchInit PROVE BatchInv
  OBVIOUS
<1>1. BatchTypeOK
  <2>1. adding \in BOOLEAN /\ submitting \in BOOLEAN
    BY Zenon DEF BatchInit
  <2>2. started \in 0..MaxBatches /\ message \in [batch: 0..MaxBatches, done: Nat]
    BY BatchConstants DEF BatchInit, NoMessage
  <2>3. /\ batch \in [Batches -> [stage: {Idle0, "sent", "placed", "finished", "failed"},
                                  person: People \cup {NoPerson}, left: SUBSET People,
                                  done: Nat]]
        /\ placed \in [Batches -> SUBSET People]
    BY DEF BatchInit
  <2>4. onTeam \subseteq People /\ roster \subseteq People /\ selected \subseteq People
    BY DEF BatchInit
  <2>5. QED
    BY <2>1, <2>2, <2>3, <2>4 DEF BatchTypeOK
<1>2. \A b \in Batches : BatchKept(b) /\ batch[b].stage = Idle0
  BY DEF BatchInit, BatchKept, Idle0
<1>3. QED
  BY <1>1, <1>2 DEF BatchInit, BatchInv

(* Only the record of one batch changes. *)
LEMMA OtherBatchesKept ==
  ASSUME BatchInv, NEW b \in Batches, NEW r, batch' = [batch EXCEPT ![b] = r],
         NEW P, placed' = [placed EXCEPT ![b] = P], NEW c \in Batches, c # b
  PROVE  BatchKept(c)' /\ batch'[c] = batch[c]
BY DEF BatchInv, BatchTypeOK, BatchKept

(* Placing one more person. *)
LEMMA OneMore ==
  ASSUME NEW P \in SUBSET People, NEW p \in People, p \notin P
  PROVE  Cardinality(P) \in Nat /\ Cardinality(P \cup {p}) = Cardinality(P) + 1
<1>1. IsFiniteSet(P)
  BY BatchConstants, FS_Subset
<1>2. QED
  BY <1>1, FS_AddElement, FS_CardinalityType

(* Every step keeps what the batches have done and counted.                *)
LEMMA BatchStepInv ==
  ASSUME BatchInv, [BatchNext]_batchVars
  PROVE  BatchInv'
<1>a. BatchTypeOK
  BY DEF BatchInv
<1> USE DEF dialog
<1>1. CASE OpenAdd \/ (\E p \in People : Toggle(p)) \/ CloseAdd \/ ReadRoster
            \/ UNCHANGED batchVars
  <2>1. UNCHANGED <<batch, placed, started>> /\ message' \in {message, NoMessage}
    BY <1>1 DEF OpenAdd, Toggle, CloseAdd, ReadRoster, ResetAndClose, batchVars
  <2>2. selected' \subseteq People /\ roster' \subseteq People /\ onTeam' = onTeam
    BY <1>1, <1>a
    DEF OpenAdd, Toggle, CloseAdd, ReadRoster, ResetAndClose, batchVars, BatchTypeOK
  <2>3. adding' \in BOOLEAN /\ submitting' \in BOOLEAN
    BY <1>1, <1>a
    DEF OpenAdd, Toggle, CloseAdd, ReadRoster, ResetAndClose, batchVars, BatchTypeOK
  <2>4. BatchTypeOK'
    BY <1>a, <2>1, <2>2, <2>3, BatchConstants DEF BatchTypeOK, NoMessage
  <2>5. QED
    BY <2>1, <2>4 DEF BatchInv, BatchKept
<1>2. CASE \E p \in People : SubmitBatch(p)
  <2> PICK p \in People : SubmitBatch(p)
    BY <1>2
  <2>1. PICK b \in Batches : b = started + 1
    BY <1>a, BatchConstants DEF SubmitBatch, BatchTypeOK, Batches
  <2>2. PICK r : r = [stage |-> "sent", person |-> p, left |-> selected \ {p}, done |-> 0]
    OBVIOUS
  <2>3. /\ UNCHANGED <<onTeam, roster, adding, selected, placed>> /\ started' = b
        /\ batch' = [batch EXCEPT ![b] = r] /\ submitting' = TRUE /\ message' = NoMessage
    BY <2>1, <2>2 DEF SubmitBatch
  <2>4. BatchTypeOK'
    BY <1>a, <2>1, <2>2, <2>3, BatchConstants DEF BatchTypeOK, Batches, NoMessage
  <2>5. placed[b] = {}
    BY <1>a, <2>1 DEF BatchInv, BatchKept, BatchTypeOK
  <2>6. BatchKept(b)'
    <3>1. batch'[b] = r
      BY <1>a, <2>3 DEF BatchTypeOK
    <3>2. QED
      BY <2>2, <2>3, <2>5, <3>1, FS_EmptySet DEF BatchKept, Idle0
  <2>7. placed' = [placed EXCEPT ![b] = placed[b]]
    BY <1>a, <2>3 DEF BatchTypeOK
  <2>8. \A c \in Batches : BatchKept(c)'
    BY <2>3, <2>6, <2>7, OtherBatchesKept
  <2>9. \A c \in Batches : c > started' => batch'[c].stage = Idle0
    BY <1>a, <2>1, <2>3 DEF BatchInv, BatchTypeOK, Batches
  <2>10. QED
    BY <2>3, <2>4, <2>8, <2>9 DEF BatchInv
<1>3. CASE \E b \in Batches : PlacePerson(b)
  <2> PICK b \in Batches : PlacePerson(b)
    BY <1>3
  <2>1. /\ UNCHANGED <<roster, adding, selected, submitting, message, started>>
        /\ batch[b].stage = "sent" /\ onTeam' = onTeam \cup {batch[b].person}
        /\ placed' = [placed EXCEPT ![b] = placed[b] \cup {batch[b].person}]
        /\ batch' = [batch EXCEPT ![b].stage = "placed"]
    BY DEF PlacePerson
  <2>2. PICK r : r = [batch[b] EXCEPT !.stage = "placed"]
    OBVIOUS
  <2>3. batch' = [batch EXCEPT ![b] = r]
    BY <1>a, <2>1, <2>2 DEF BatchTypeOK
  <2>4. /\ batch[b].person \in People /\ batch[b].person \notin placed[b]
        /\ Cardinality(placed[b]) = batch[b].done /\ placed[b] \in SUBSET People
        /\ batch[b].person \notin batch[b].left /\ placed[b] \cap batch[b].left = {}
    BY <1>a, <2>1 DEF BatchInv, BatchKept, BatchTypeOK
  <2>5. Cardinality(placed'[b]) = batch[b].done + 1
    BY <1>a, <2>1, <2>4, OneMore DEF BatchTypeOK
  <2>6. batch'[b] = r /\ r.stage = "placed" /\ r.done = batch[b].done /\ r.left = batch[b].left
    BY <1>a, <2>2, <2>3 DEF BatchTypeOK
  <2>7. placed'[b] \cap batch[b].left = {}
    BY <1>a, <2>1, <2>4 DEF BatchTypeOK
  <2>8. BatchKept(b)'
    BY <2>5, <2>6, <2>7 DEF BatchKept, Idle0
  <2>9. \A c \in Batches : BatchKept(c)'
    BY <2>1, <2>3, <2>8, OtherBatchesKept
  <2>10. BatchTypeOK'
    BY <1>a, <2>1, <2>4 DEF BatchTypeOK
  <2>11. \A c \in Batches : c > started' => batch'[c].stage = Idle0
    BY <1>a, <2>1, <2>3 DEF BatchInv, BatchTypeOK, Idle0
  <2>12. message' # NoMessage => message.batch # b
    BY <2>1 DEF BatchInv
  <2>13. QED
    BY <2>1, <2>3, <2>9, <2>10, <2>11, <2>12, OtherBatchesKept DEF BatchInv
<1>b. ASSUME NEW b \in Batches, NEW r, batch' = [batch EXCEPT ![b] = r],
             batch[b].stage \in {"sent", "placed"}, UNCHANGED <<placed, started>>,
             BatchKept(b)'
      PROVE  /\ \A c \in Batches : BatchKept(c)'
             /\ \A c \in Batches : c > started' => batch'[c].stage = Idle0
             /\ message # NoMessage => message.batch # b /\ batch'[message.batch] = batch[message.batch]
  <2>1. placed' = [placed EXCEPT ![b] = placed[b]]
    BY <1>a, <1>b DEF BatchTypeOK
  <2>2. \A c \in Batches : BatchKept(c)'
    BY <1>b, <2>1, OtherBatchesKept
  <2>3. \A c \in Batches : c > started' => batch'[c].stage = Idle0
    BY <1>a, <1>b DEF BatchInv, BatchTypeOK, Idle0
  <2>4. message # NoMessage => message.batch # b
    BY <1>b DEF BatchInv
  <2>5. message # NoMessage => batch'[message.batch] = batch[message.batch]
    BY <1>a, <1>b, <2>4 DEF BatchInv, BatchTypeOK
  <2>6. QED
    BY <2>2, <2>3, <2>4, <2>5
<1>4. CASE \E b \in Batches, p \in People : NextPerson(b, p)
  <2> PICK b \in Batches, p \in People : NextPerson(b, p)
    BY <1>4
  <2>1. PICK r : r = [stage |-> "sent", person |-> p, left |-> batch[b].left \ {p},
                      done |-> batch[b].done + 1]
    OBVIOUS
  <2>2. /\ UNCHANGED <<onTeam, roster, adding, selected, submitting, message, placed, started>>
        /\ batch[b].stage = "placed" /\ p \in batch[b].left
        /\ batch' = [batch EXCEPT ![b] = r]
    BY <2>1 DEF NextPerson
  <2>3. batch'[b] = r /\ placed'[b] = placed[b]
    BY <1>a, <2>2 DEF BatchTypeOK
  <2>4. /\ Cardinality(placed[b]) = batch[b].done + 1
        /\ placed[b] \cap batch[b].left = {}
    BY <2>2 DEF BatchInv, BatchKept
  <2>5. BatchKept(b)'
    BY <2>1, <2>2, <2>3, <2>4 DEF BatchKept, Idle0
  <2>6. BatchTypeOK'
    BY <1>a, <2>1, <2>2 DEF BatchTypeOK
  <2>7. QED
    BY <1>b, <2>2, <2>5, <2>6 DEF BatchInv
<1>5. CASE \E b \in Batches : FinishBatch(b)
  <2> PICK b \in Batches : FinishBatch(b)
    BY <1>5
  <2>1. PICK r : r = [batch[b] EXCEPT !.stage = "finished", !.done = batch[b].done + 1]
    OBVIOUS
  <2>2. /\ UNCHANGED <<onTeam, roster, placed, started>> /\ batch[b].stage = "placed"
        /\ adding' = FALSE /\ selected' = {} /\ submitting' = FALSE /\ message' = NoMessage
    BY DEF FinishBatch, ResetAndClose
  <2>3. batch' = [batch EXCEPT ![b] = r]
    BY <1>a, <2>1 DEF FinishBatch, BatchTypeOK
  <2>4. batch'[b] = r /\ r.stage = "finished" /\ r.left = batch[b].left
    BY <1>a, <2>1, <2>3 DEF BatchTypeOK
  <2>5. BatchKept(b)'
    BY <2>2, <2>4 DEF BatchInv, BatchKept, Idle0
  <2>6. BatchTypeOK'
    <3>1. message' \in [batch: 0..MaxBatches, done: Nat]
      BY <2>2, BatchConstants DEF NoMessage
    <3>2. r = [stage |-> "finished", person |-> batch[b].person, left |-> batch[b].left,
               done |-> batch[b].done + 1]
      BY <1>a, <2>1 DEF BatchTypeOK
    <3>3. r \in [stage: {Idle0, "sent", "placed", "finished", "failed"},
                person: People \cup {NoPerson}, left: SUBSET People, done: Nat]
      BY <1>a, <3>2 DEF BatchTypeOK
    <3>4. adding' \in BOOLEAN /\ submitting' \in BOOLEAN
      BY <2>2, Zenon
    <3>5. QED
      BY <1>a, <2>2, <2>3, <3>1, <3>3, <3>4 DEF BatchTypeOK
  <2>7. QED
    BY <1>b, <2>2, <2>3, <2>5, <2>6 DEF BatchInv
<1>6. CASE \E b \in Batches : FailBatch(b)
  <2> PICK b \in Batches : FailBatch(b)
    BY <1>6
  <2>1. PICK r : r = [batch[b] EXCEPT !.stage = "failed"]
    OBVIOUS
  <2>2. /\ UNCHANGED <<onTeam, roster, adding, selected, placed, started>>
        /\ batch[b].stage \in {"sent", "placed"} /\ submitting' = FALSE
        /\ message' = [batch |-> b, done |-> batch[b].done]
    BY DEF FailBatch
  <2>3. batch' = [batch EXCEPT ![b] = r]
    BY <1>a, <2>1 DEF FailBatch, BatchTypeOK
  <2>4. batch'[b] = r /\ r.stage = "failed" /\ r.left = batch[b].left /\ r.done = batch[b].done
    BY <1>a, <2>1, <2>3 DEF BatchTypeOK
  <2>5. BatchKept(b)'
    BY <2>2, <2>4 DEF BatchInv, BatchKept, Idle0
  <2>6. BatchTypeOK'
    <3>1. message' \in [batch: 0..MaxBatches, done: Nat]
      BY <1>a, <2>2, BatchConstants DEF BatchTypeOK, Batches
    <3>2. QED
      BY <1>a, <2>1, <2>2, <2>3, <3>1 DEF BatchTypeOK
  <2>7. QED
    BY <1>b, <2>2, <2>3, <2>4, <2>5, <2>6 DEF BatchInv
<1>7. QED
  BY <1>1, <1>2, <1>3, <1>4, <1>5, <1>6 DEF BatchNext

(* The invariant is inductive. *)
THEOREM BatchInductive == BatchSpec => []BatchInv
<1>1. BatchInv /\ [BatchNext]_batchVars => BatchInv'
  BY BatchStepInv
<1>2. QED
  BY <1>1, BatchInitInv, PTL DEF BatchSpec

(* However many batches run side by side, and whoever closes the dialog,   *)
(* the error of add-staff-dialog.tsx names the number of people that its   *)
(* own batch placed, or one less when the last answer was lost.            *)
THEOREM BatchCountsAreHonest == BatchSpec => []BatchReportsHonest
<1>1. BatchInv => BatchReportsHonest
  BY DEF BatchInv, BatchKept, BatchReportsHonest
<1>2. QED
  BY <1>1, BatchInductive, PTL

-----------------------------------------------------------------------------
(* Forms. *)

(* A text that was sent, and is in the field still, is locked in by the    *)
(* pending flag: every request that could bring it is the form's own.      *)
SentIsPending ==
    \A i \in DOMAIN sent : UnderWay(i) =>
        /\ sent[i].text <= texts
        /\ sent[i].mine => pending
        /\ ~sent[i].mine => sent[i].text # text
        /\ sent[i].text # text /\ text # 0 => overlapped
        /\ form = "portalReply" /\ sent[i].mine => text = sent[i].text

(* Two requests under way never carry one text, nor belong to one form. *)
SentApart ==
    \A i, j \in DOMAIN sent : UnderWay(i) /\ UnderWay(j) /\ i # j =>
        sent[i].text # sent[j].text /\ ~(sent[i].mine /\ sent[j].mine)

(* What took effect, and the field does not know of: the answer is under   *)
(* way, or was lost.                                                       *)
EffectsKnown ==
    \A t \in 1..MaxTexts :
        /\ effects[t] > 1 => t \in unsure
        /\ t > texts => effects[t] = 0
        /\ effects[t] > 0 /\ t = text /\ t \notin unsure =>
              \E i \in DOMAIN sent : sent[i].stage = "applied" /\ sent[i].text = t
        /\ effects[t] > 0 /\ t \notin unsure =>
              \A i \in DOMAIN sent : sent[i].stage = "sent" => sent[i].text # t

(* Which forms are open, and what a closed one holds. *)
FormOpen ==
    /\ text <= texts
    /\ subject = NoSubject => text = 0 /\ form \notin Inline \cup Local
    /\ form \in Local => sent = <<>>
    /\ form \in Held => \A i \in DOMAIN sent : sent[i].mine

FormInv ==
    /\ FormTypeOK
    /\ SentIsPending
    /\ SentApart
    /\ EffectsKnown
    /\ FormOpen
    /\ TypedTextKept

(* The families are disjoint. *)
LEMMA Families ==
  /\ Inline \cap Held = {} /\ Inline \cap Keyed = {} /\ Inline \cap Local = {}
  /\ Keyed \cap Held = {} /\ Keyed \cap Local = {} /\ Held \cap Local = {}
  /\ FormKinds = Inline \cup Held \cup Keyed \cup Local
  /\ Confirms \subseteq Held \cup Keyed
  /\ "portalReply" \in Inline /\ LocksField("portalReply")
BY DEF Inline, Held, Keyed, Local, Family, Confirms, FormKinds, FormTable, LocksField, Form,
       PortalReplyBox, WorkspaceReplyBox, ChangePasswordCard, NewTicketDialog,
       DeleteDepartmentDialog, DepartmentDialog, AssignDepartmentDialog, EditStaffDialog,
       RemoveStaffDialog, Composer

(* A list of as many requests is a sequence of requests. *)
LEMMA SameLength ==
  ASSUME NEW s \in Seq(Sends), NEW f \in [DOMAIN s -> Sends]
  PROVE  f \in Seq(Sends) /\ Len(f) = Len(s) /\ DOMAIN f = DOMAIN s
OBVIOUS

(* An open form has sent nothing.                                          *)
LEMMA FormInitInv == FormInit => FormInv
<1> SUFFICES ASSUME FormInit PROVE FormInv
  OBVIOUS
<1>1. FormTypeOK
  <2>1. /\ pending \in BOOLEAN /\ problem \in BOOLEAN /\ overlapped \in BOOLEAN
        /\ wiped \in BOOLEAN
    BY Zenon DEF FormInit
  <2>2. text \in 0..MaxTexts /\ texts \in 0..MaxTexts /\ effects \in [1..MaxTexts -> Nat]
    BY FormsConstants DEF FormInit
  <2>3. sent \in Seq(Sends) /\ Len(sent) <= MaxSends /\ unsure \subseteq 1..MaxTexts
    BY FormsConstants DEF FormInit
  <2>4. form \in FormKinds /\ subject \in Subjects \cup {NoSubject}
    BY DEF FormInit
  <2>5. QED
    BY <2>1, <2>2, <2>3, <2>4 DEF FormTypeOK
<1>2. SentIsPending /\ SentApart
  BY DEF FormInit, SentIsPending, SentApart
<1>3. EffectsKnown
  BY FormsConstants DEF FormInit, EffectsKnown
<1>4. FormOpen /\ TypedTextKept
  BY FormsConstants DEF FormInit, FormOpen, TypedTextKept
<1>5. QED
  BY <1>1, <1>2, <1>3, <1>4 DEF FormInv

(* The requests are those of before, with some of their forms gone. *)
SameRequests ==
    /\ sent' \in Seq(Sends) /\ Len(sent') = Len(sent) /\ DOMAIN sent' = DOMAIN sent
    /\ \A i \in DOMAIN sent : /\ sent'[i].stage = sent[i].stage
                              /\ sent'[i].text = sent[i].text
                              /\ sent'[i].mine => sent[i].mine

(* One request comes to a stage, and nothing else about it changes. *)
Moves(i, stage) ==
    /\ sent' \in Seq(Sends) /\ Len(sent') = Len(sent) /\ DOMAIN sent' = DOMAIN sent
    /\ sent'[i].stage = stage
    /\ \A j \in DOMAIN sent : /\ j # i => sent'[j].stage = sent[j].stage
                              /\ sent'[j].text = sent[j].text

(* A request carries a text. *)
LEMMA SentText ==
  ASSUME FormTypeOK, NEW i \in DOMAIN sent
  PROVE  sent[i] \in Sends /\ sent[i].text \in 1..MaxTexts /\ sent[i].mine \in BOOLEAN
<1>1. sent[i] \in Sends
  BY DEF FormTypeOK
<1>2. QED
  BY <1>1 DEF Sends

(* Closing a form disowns its requests and changes nothing else.           *)
LEMMA OrphanedFacts ==
  ASSUME FormTypeOK, sent' = Orphaned
  PROVE  SameRequests /\ \A i \in DOMAIN sent : ~sent'[i].mine
<1>1. Orphaned \in [DOMAIN sent -> Sends]
  <2>1. \A i \in DOMAIN sent : [sent[i] EXCEPT !.mine = FALSE] \in Sends
    BY SentText DEF Sends
  <2>2. QED
    BY <2>1 DEF Orphaned
<1>2. sent' \in Seq(Sends) /\ Len(sent') = Len(sent) /\ DOMAIN sent' = DOMAIN sent
  BY <1>1, SameLength DEF FormTypeOK
<1>3. \A i \in DOMAIN sent : sent'[i] = [sent[i] EXCEPT !.mine = FALSE] /\ sent[i] \in Sends
  BY DEF Orphaned, FormTypeOK
<1>4. QED
  BY <1>2, <1>3 DEF SameRequests, Sends

(* A request moves on by itself.                                           *)
LEMMA MovesFacts ==
  ASSUME FormTypeOK, NEW i \in DOMAIN sent, NEW stage \in {"sent", "applied", "done"},
         sent' = [sent EXCEPT ![i].stage = stage]
  PROVE  Moves(i, stage) /\ \A j \in DOMAIN sent : sent'[j].mine = sent[j].mine
<1>1. sent' \in [DOMAIN sent -> Sends]
  <2>1. [sent[i] EXCEPT !.stage = stage] \in Sends
    BY SentText DEF Sends
  <2>2. sent \in [DOMAIN sent -> Sends]
    BY DEF FormTypeOK
  <2>3. sent' = [sent EXCEPT ![i] = [sent[i] EXCEPT !.stage = stage]]
    OBVIOUS
  <2>4. QED
    BY <2>1, <2>2, <2>3
<1>2. sent' \in Seq(Sends) /\ Len(sent') = Len(sent) /\ DOMAIN sent' = DOMAIN sent
  BY <1>1, SameLength DEF FormTypeOK
<1>3. \A j \in DOMAIN sent : sent[j] \in Sends
  BY DEF FormTypeOK
<1>4. QED
  BY <1>2, <1>3 DEF Moves, Sends

(* Opening, typing, closing and remounting: the requests stay what they    *)
(* are, and a text that is new is in none of them.                         *)
LEMMA RequestsStay ==
  ASSUME FormInv, FormTypeOK', SameRequests, UNCHANGED <<form, effects, unsure, wiped>>,
         \/ text' \in {0, text} /\ UNCHANGED <<texts, overlapped>>
         \/ Enters,
         \A i \in DOMAIN sent : sent'[i].mine => pending' = pending,
         text' = text /\ text # 0 => \A i \in DOMAIN sent : sent'[i].mine = sent[i].mine,
         form = "portalReply" =>
            text' = text \/ \A i \in DOMAIN sent : UnderWay(i) => ~sent'[i].mine,
         form \in Held => \A i \in DOMAIN sent : sent'[i].mine = sent[i].mine,
         subject' = NoSubject => text' = 0 /\ form \notin Inline \cup Local
  PROVE  FormInv'
<1>a. /\ FormTypeOK /\ SentIsPending /\ SentApart /\ EffectsKnown /\ FormOpen
      /\ TypedTextKept
  BY DEF FormInv
<1>b. \A i \in DOMAIN sent : sent[i].text \in 1..MaxTexts /\ (UnderWay(i)' <=> UnderWay(i))
  BY <1>a, SentText DEF SameRequests, UnderWay
<1>c. text \in Nat /\ texts \in Nat /\ MaxTexts \in Nat /\ effects \in [1..MaxTexts -> Nat]
  BY <1>a, FormsConstants DEF FormTypeOK
<1>1. SentApart'
  BY <1>a, <1>b DEF SameRequests, SentApart
<1>2. CASE text' \in {0, text} /\ UNCHANGED <<texts, overlapped>>
  <2>1. SentIsPending'
    BY <1>2, <1>a, <1>b, <1>c DEF SentIsPending, SameRequests
  <2>2. EffectsKnown'
    BY <1>2, <1>a, <1>c DEF EffectsKnown, SameRequests
  <2>3. FormOpen' /\ TypedTextKept'
    BY <1>2, <1>a, <1>c DEF FormOpen, TypedTextKept, SameRequests
  <2>4. QED
    BY <1>1, <2>1, <2>2, <2>3 DEF FormInv
<1>3. CASE Enters
  <2>1. /\ text' = texts + 1 /\ texts' = texts + 1
        /\ overlapped' = (overlapped \/ InFlight)
    BY <1>3 DEF Enters
  <2>2. \A i \in DOMAIN sent : UnderWay(i) => overlapped'
    BY <2>1 DEF InFlight
  <2>3. SentIsPending'
    BY <1>a, <1>b, <1>c, <2>1, <2>2 DEF SentIsPending, SameRequests
  <2>4. EffectsKnown'
    <3> SUFFICES ASSUME NEW t \in 1..MaxTexts
                 PROVE  /\ effects[t] > 1 => t \in unsure
                        /\ t > texts => effects[t] = 0
                        /\ effects[t] > 0 /\ t \notin unsure =>
                              \A i \in DOMAIN sent : sent[i].stage = "sent" => sent[i].text # t
      BY <1>c, <2>1 DEF EffectsKnown, SameRequests
    <3>1. QED
      BY <1>a DEF EffectsKnown
  <2>5. FormOpen'
    BY <1>a, <1>c, <2>1 DEF FormOpen, SameRequests
  <2>6. TypedTextKept'
    BY <1>a, <2>1 DEF TypedTextKept
  <2>7. QED
    BY <1>1, <2>3, <2>4, <2>5, <2>6 DEF FormInv
<1>4. QED
  BY <1>2, <1>3

(* Sending: the text in the field is under way nowhere else. *)
LEMMA SubmitInv ==
  ASSUME FormInv, Submit
  PROVE  FormInv'
<1>a. /\ FormTypeOK /\ SentIsPending /\ SentApart /\ EffectsKnown /\ FormOpen
      /\ TypedTextKept
  BY DEF FormInv
<1>1. PICK r : r = [stage |-> "sent", text |-> text, mine |-> TRUE]
  OBVIOUS
<1>2. /\ UNCHANGED <<form, subject, text, texts, effects, unsure, overlapped, wiped>>
      /\ sent' = Append(sent, r) /\ pending' = TRUE /\ problem' = FALSE /\ ~pending
      /\ subject # NoSubject /\ text # 0 /\ form \notin Local /\ Len(sent) < MaxSends
  BY <1>1 DEF Submit
<1>3. r \in Sends /\ r.stage = "sent" /\ r.text = text /\ r.mine
  BY <1>1, <1>2, <1>a DEF FormTypeOK, Sends
<1>4. PICK n \in Nat : n = Len(sent) /\ n + 1 \notin DOMAIN sent
  BY <1>a DEF FormTypeOK
<1>5. /\ sent' \in Seq(Sends) /\ Len(sent') = n + 1
      /\ DOMAIN sent' = DOMAIN sent \cup {n + 1}
      /\ sent'[n + 1] = r /\ \A i \in DOMAIN sent : sent'[i] = sent[i]
  BY <1>2, <1>3, <1>4, <1>a DEF FormTypeOK
<1>6. FormTypeOK'
  <2>1. pending' \in BOOLEAN /\ problem' \in BOOLEAN
    BY <1>2, Zenon
  <2>2. Len(sent') <= MaxSends
    BY <1>2, <1>4, <1>5, FormsConstants
  <2>3. QED
    BY <1>a, <1>2, <1>5, <2>1, <2>2 DEF FormTypeOK
<1>7. \A i \in DOMAIN sent : /\ sent[i].text \in 1..MaxTexts /\ (UnderWay(i)' <=> UnderWay(i))
                             /\ UnderWay(i) => sent[i].text # text /\ ~sent[i].mine
  <2>1. \A i \in DOMAIN sent : UnderWay(i) => ~sent[i].mine /\ sent[i].text # text
    BY <1>2, <1>a DEF SentIsPending
  <2>2. QED
    BY <1>5, <1>a, <2>1, SentText DEF UnderWay
<1>8. SentIsPending'
  BY <1>2, <1>3, <1>5, <1>7, <1>a DEF SentIsPending, FormOpen
<1>9. SentApart'
  BY <1>2, <1>3, <1>5, <1>7, <1>a DEF SentApart
<1>10. EffectsKnown'
  <2> SUFFICES ASSUME NEW t \in 1..MaxTexts, effects[t] > 0, t \notin unsure
               PROVE  /\ t = text => FALSE
                      /\ \A i \in DOMAIN sent' : sent'[i].stage = "sent" => sent'[i].text # t
    BY <1>2, <1>a DEF EffectsKnown
  <2>1. t # text
    BY <1>7, <1>a DEF EffectsKnown, UnderWay
  <2>2. QED
    BY <1>3, <1>5, <1>a, <2>1 DEF EffectsKnown
<1>11. FormOpen' /\ TypedTextKept'
  BY <1>2, <1>3, <1>5, <1>a DEF FormOpen, TypedTextKept
<1>12. QED
  BY <1>6, <1>8, <1>9, <1>10, <1>11 DEF FormInv

(* The backend acts on the request: at most once for a text whose answers  *)
(* have all come.                                                          *)
LEMMA TakeEffectInv ==
  ASSUME FormInv, NEW i \in DOMAIN sent, TakeEffect(i)
  PROVE  FormInv'
<1>a. /\ FormTypeOK /\ SentIsPending /\ SentApart /\ EffectsKnown /\ FormOpen
      /\ TypedTextKept
  BY DEF FormInv
<1>1. /\ UNCHANGED <<form, subject, text, texts, pending, problem, unsure, overlapped, wiped>>
      /\ sent[i].stage = "sent" /\ sent' = [sent EXCEPT ![i].stage = "applied"]
      /\ effects' = [effects EXCEPT ![sent[i].text] = @ + 1]
  BY DEF TakeEffect
<1>2. Moves(i, "applied") /\ \A j \in DOMAIN sent : sent'[j].mine = sent[j].mine
  BY <1>1, <1>a, MovesFacts
<1>3. \A j \in DOMAIN sent : sent[j].text \in 1..MaxTexts /\ (UnderWay(j)' <=> UnderWay(j))
  BY <1>1, <1>2, <1>a, SentText DEF Moves, UnderWay
<1>4. FormTypeOK'
  BY <1>1, <1>2, <1>3, <1>a DEF FormTypeOK, Moves
<1>5. SentIsPending' /\ SentApart'
  BY <1>1, <1>2, <1>3, <1>a DEF SentIsPending, SentApart, Moves
<1>6. EffectsKnown'
  <2> SUFFICES ASSUME NEW t \in 1..MaxTexts
               PROVE  /\ effects'[t] > 1 => t \in unsure
                      /\ t > texts => effects'[t] = 0
                      /\ effects'[t] > 0 /\ t = text /\ t \notin unsure =>
                            \E j \in DOMAIN sent : sent'[j].stage = "applied" /\ sent'[j].text = t
                      /\ effects'[t] > 0 /\ t \notin unsure =>
                            \A j \in DOMAIN sent : sent'[j].stage = "sent" => sent'[j].text # t
    BY <1>1, <1>2 DEF EffectsKnown, Moves
  <2>1. CASE t # sent[i].text
    <3>1. effects'[t] = effects[t]
      BY <1>1, <1>a, <2>1 DEF FormTypeOK
    <3>2. QED
      BY <1>1, <1>2, <1>a, <2>1, <3>1 DEF EffectsKnown, Moves
  <2>2. CASE t = sent[i].text
    <3>1. effects'[t] = effects[t] + 1 /\ effects[t] \in Nat /\ (effects[t] = 0 \/ t \in unsure)
      BY <1>1, <1>a, <2>2 DEF FormTypeOK, EffectsKnown
    <3>2. t <= texts /\ texts \in Nat
      BY <1>1, <1>a, <2>2 DEF SentIsPending, UnderWay, FormTypeOK
    <3>3. \A j \in DOMAIN sent : sent'[j].stage = "sent" => sent'[j].text # t
      BY <1>1, <1>2, <1>a, <2>2 DEF Moves, SentApart, UnderWay
    <3>4. sent'[i].stage = "applied" /\ sent'[i].text = t
      BY <1>2, <2>2 DEF Moves
    <3>5. QED
      BY <3>1, <3>2, <3>3, <3>4
  <2>3. QED
    BY <2>1, <2>2
<1>7. FormOpen' /\ TypedTextKept'
  BY <1>1, <1>2, <1>a DEF FormOpen, TypedTextKept, Moves
<1>8. QED
  BY <1>4, <1>5, <1>6, <1>7 DEF FormInv

(* A request ends: its own text leaves the field, or the answer was lost,  *)
(* or it never had an effect.                                              *)
LEMMA RequestEnds ==
  ASSUME FormInv, FormTypeOK', NEW i \in DOMAIN sent, UnderWay(i), Moves(i, "done"),
         UNCHANGED <<form, texts, effects, overlapped>>, text' \in {0, text},
         unsure \subseteq unsure',
         wiped' = (wiped \/ (text' # text /\ text # sent[i].text)),
         \A j \in DOMAIN sent : sent'[j].mine => sent[j].mine,
         \A j \in DOMAIN sent : sent'[j].mine # sent[j].mine => text' = 0 /\ form \notin Held,
         form = "portalReply" /\ text' # text => sent[i].mine,
         \A j \in DOMAIN sent : j # i /\ UnderWay(j) /\ sent'[j].mine => pending',
         sent[i].stage = "applied" => sent[i].text \in unsure' \/ sent[i].text # text',
         subject' = NoSubject => text' = 0 /\ form \notin Inline \cup Local
  PROVE  FormInv'
<1>a. /\ FormTypeOK /\ SentIsPending /\ SentApart /\ EffectsKnown /\ FormOpen
      /\ TypedTextKept
  BY DEF FormInv
<1>b. /\ ~UnderWay(i)'
      /\ \A j \in DOMAIN sent : /\ sent[j].text \in 1..MaxTexts
                                /\ UnderWay(j)' => UnderWay(j) /\ j # i
  BY <1>a, SentText DEF Moves, UnderWay
<1>c. text \in Nat /\ texts \in Nat /\ MaxTexts \in Nat /\ effects \in [1..MaxTexts -> Nat]
  BY <1>a, FormsConstants DEF FormTypeOK
<1>1. SentApart'
  BY <1>a, <1>b DEF SentApart, Moves
<1>2. SentIsPending'
  BY <1>a, <1>b, <1>c DEF SentIsPending, SentApart, Moves
<1>3. EffectsKnown'
  <2> SUFFICES ASSUME NEW t \in 1..MaxTexts, effects[t] > 0, t \notin unsure'
               PROVE  /\ t = text' => \E j \in DOMAIN sent :
                                         sent'[j].stage = "applied" /\ sent'[j].text = t
                      /\ \A j \in DOMAIN sent : sent'[j].stage = "sent" => sent'[j].text # t
    BY <1>a DEF EffectsKnown, Moves
  <2>1. ASSUME t = text'
        PROVE  \E j \in DOMAIN sent : sent'[j].stage = "applied" /\ sent'[j].text = t
    <3>1. t = text
      BY <1>c, <2>1
    <3>2. PICK j \in DOMAIN sent : sent[j].stage = "applied" /\ sent[j].text = t
      BY <1>a, <3>1 DEF EffectsKnown
    <3>3. j # i
      BY <2>1, <3>2
    <3>4. QED
      BY <3>2, <3>3 DEF Moves
  <2>2. \A j \in DOMAIN sent : sent'[j].stage = "sent" => sent'[j].text # t
    BY <1>a DEF EffectsKnown, Moves
  <2>3. QED
    BY <2>1, <2>2
<1>4. FormOpen'
  BY <1>a, <1>c DEF FormOpen, Moves
<1>5. TypedTextKept'
  <2>1. CASE text' # text /\ text # sent[i].text
    <3>1. text # 0
      BY <2>1
    <3>2. overlapped /\ form # "portalReply"
      BY <1>a, <2>1, <3>1 DEF SentIsPending
    <3>3. QED
      BY <3>2 DEF TypedTextKept
  <2>2. CASE ~(text' # text /\ text # sent[i].text)
    BY <1>a, <2>2 DEF TypedTextKept
  <2>3. QED
    BY <2>1, <2>2
<1>6. QED
  BY <1>1, <1>2, <1>3, <1>4, <1>5 DEF FormInv

(* The answer came: the field is cleared, or another text's is. *)
LEMMA SucceedInv ==
  ASSUME FormInv, NEW i \in DOMAIN sent, Succeed(i)
  PROVE  FormInv'
<1>a. /\ FormTypeOK /\ SentIsPending /\ SentApart /\ EffectsKnown /\ FormOpen
  BY DEF FormInv
<1>1. PICK rest : rest = [sent EXCEPT ![i].stage = "done"]
  OBVIOUS
<1>2. /\ UNCHANGED <<form, texts, effects, unsure, overlapped>>
      /\ sent[i].stage = "applied"
      /\ pending' = (pending /\ form \in Inline /\ ~sent[i].mine)
      /\ sent' = IF form \in Keyed
                 THEN [j \in DOMAIN rest |-> [rest[j] EXCEPT !.mine = FALSE]] ELSE rest
      /\ wiped' = (wiped \/ (text' # text /\ text # sent[i].text))
  BY <1>1 DEF Succeed
<1>3. /\ form \in Inline => /\ text' = (IF sent[i].mine THEN 0 ELSE text)
                            /\ UNCHANGED <<subject, problem>>
      /\ form \notin Inline => text' = 0 /\ subject' = NoSubject /\ problem' = FALSE
  BY DEF Succeed, Closes
<1>4. \A j \in DOMAIN sent : sent[j] \in Sends
  BY <1>a, SentText
<1>5. /\ rest \in [DOMAIN sent -> Sends]
      /\ \A j \in DOMAIN sent : rest[j] = IF j = i THEN [sent[i] EXCEPT !.stage = "done"]
                                                   ELSE sent[j]
  <2>1. [sent[i] EXCEPT !.stage = "done"] \in Sends
    BY <1>4 DEF Sends
  <2>2. sent \in [DOMAIN sent -> Sends]
    BY <1>a DEF FormTypeOK
  <2>3. QED
    BY <1>1, <2>1, <2>2
<1>6. sent' \in [DOMAIN sent -> Sends]
  <2>1. \A j \in DOMAIN sent : [rest[j] EXCEPT !.mine = FALSE] \in Sends
    BY <1>5 DEF Sends
  <2>2. DOMAIN rest = DOMAIN sent
    BY <1>5
  <2>3. QED
    BY <1>2, <1>5, <2>1, <2>2
<1>7. sent' \in Seq(Sends) /\ Len(sent') = Len(sent) /\ DOMAIN sent' = DOMAIN sent
  BY <1>a, <1>6, SameLength DEF FormTypeOK
<1>8. /\ Moves(i, "done")
      /\ \A j \in DOMAIN sent : /\ sent'[j].mine => sent[j].mine /\ form \notin Keyed
                                /\ form \notin Keyed => sent'[j].mine = sent[j].mine
  <2>1. \A j \in DOMAIN sent : /\ rest[j].text = sent[j].text /\ rest[j].mine = sent[j].mine
                               /\ rest[j].stage = IF j = i THEN "done" ELSE sent[j].stage
    BY <1>4, <1>5 DEF Sends
  <2>2. DOMAIN rest = DOMAIN sent /\ \A j \in DOMAIN sent : rest[j] \in Sends
    BY <1>5
  <2>3. CASE form \notin Keyed
    BY <1>2, <1>7, <2>1, <2>3 DEF Moves
  <2>4. CASE form \in Keyed
    <3>1. \A j \in DOMAIN sent : sent'[j] = [rest[j] EXCEPT !.mine = FALSE]
      BY <1>2, <2>2, <2>4
    <3>2. \A j \in DOMAIN sent : /\ sent'[j].text = rest[j].text /\ ~sent'[j].mine
                                 /\ sent'[j].stage = rest[j].stage
      BY <2>2, <3>1 DEF Sends
    <3>3. QED
      BY <1>7, <2>1, <2>4, <3>2 DEF Moves
  <2>5. QED
    BY <2>3, <2>4
<1>9. FormTypeOK'
  <2>1. pending' \in BOOLEAN /\ wiped' \in BOOLEAN /\ problem' \in BOOLEAN
    BY <1>2, <1>3, <1>a, Zenon DEF FormTypeOK
  <2>2. text' \in 0..MaxTexts /\ subject' \in Subjects \cup {NoSubject}
    BY <1>3, <1>a, FormsConstants DEF FormTypeOK
  <2>3. QED
    BY <1>2, <1>7, <1>a, <2>1, <2>2 DEF FormTypeOK
<1>10. UnderWay(i) /\ sent[i].mine \in BOOLEAN /\ sent[i].text # 0
  BY <1>2, <1>a, SentText DEF UnderWay
<1>11. ASSUME NEW j \in DOMAIN sent, j # i, UnderWay(j), sent'[j].mine
       PROVE  pending'
  <2>1. sent[j].mine /\ pending /\ ~sent[i].mine /\ form \notin Keyed
    BY <1>8, <1>10, <1>11, <1>a DEF SentIsPending, SentApart
  <2>2. form \notin Held /\ form \notin Local
    <3>1. sent # <<>>
      OBVIOUS
    <3>2. QED
      BY <1>a, <2>1, <3>1 DEF FormOpen
  <2>3. form \in Inline
    BY <1>a, <2>1, <2>2, Families DEF FormTypeOK
  <2>4. QED
    BY <1>2, <2>1, <2>3
<1>12. sent[i].text # text'
  BY <1>3, <1>10, <1>a DEF SentIsPending
<1>13. text' \in {0, text} /\ (form = "portalReply" /\ text' # text => sent[i].mine)
  BY <1>3, Families
<1>14. \A j \in DOMAIN sent : sent'[j].mine # sent[j].mine => text' = 0 /\ form \notin Held
  BY <1>3, <1>8, Families
<1>15. subject' = NoSubject => text' = 0 /\ form \notin Inline \cup Local
  <2>1. form \notin Local
    BY <1>a DEF FormOpen
  <2>2. form \in Inline => subject' # NoSubject
    BY <1>3, <1>a DEF FormOpen
  <2>3. QED
    BY <1>3, <2>1, <2>2
<1>16. QED
  BY <1>2, <1>8, <1>9, <1>10, <1>11, <1>12, <1>13, <1>14, <1>15, RequestEnds

(* No answer came, or a refusal: the text stays, and is unsure if it took  *)
(* effect.                                                                 *)
LEMMA FailInv ==
  ASSUME FormInv, NEW i \in DOMAIN sent, Fail(i)
  PROVE  FormInv'
<1>a. /\ FormTypeOK /\ SentIsPending /\ SentApart /\ EffectsKnown /\ FormOpen
  BY DEF FormInv
<1>1. /\ UNCHANGED <<form, subject, text, texts, effects, overlapped, wiped>> /\ UnderWay(i)
      /\ sent' = [sent EXCEPT ![i].stage = "done"]
      /\ unsure' = IF sent[i].stage = "applied" THEN unsure \cup {sent[i].text} ELSE unsure
      /\ sent[i].mine => pending' = FALSE /\ problem' = TRUE
      /\ ~sent[i].mine => UNCHANGED <<pending, problem>>
  BY DEF Fail
<1>2. Moves(i, "done") /\ \A j \in DOMAIN sent : sent'[j].mine = sent[j].mine
  BY <1>1, <1>a, MovesFacts
<1>3. sent[i].text \in 1..MaxTexts /\ sent[i].mine \in BOOLEAN
  BY <1>a, SentText
<1>4. FormTypeOK'
  <2>1. pending' \in BOOLEAN /\ problem' \in BOOLEAN
    BY <1>1, <1>a, Zenon DEF FormTypeOK
  <2>2. unsure' \subseteq 1..MaxTexts
    BY <1>1, <1>3, <1>a DEF FormTypeOK
  <2>3. QED
    BY <1>1, <1>2, <1>a, <2>1, <2>2 DEF FormTypeOK, Moves
<1>5. ASSUME NEW j \in DOMAIN sent, j # i, UnderWay(j), sent'[j].mine
      PROVE  pending'
  BY <1>1, <1>2, <1>5, <1>a DEF SentIsPending, SentApart
<1>6. wiped' = (wiped \/ (text' # text /\ text # sent[i].text))
  BY <1>1, <1>a DEF FormTypeOK
<1>7. subject' = NoSubject => text' = 0 /\ form \notin Inline \cup Local
  BY <1>1, <1>a DEF FormOpen
<1>8. QED
  BY <1>1, <1>2, <1>4, <1>5, <1>6, <1>7, RequestEnds

(* Every action keeps the invariant. *)
LEMMA FormStepInv ==
  ASSUME FormInv, [FormNext]_formVars
  PROVE  FormInv'
<1>a. /\ FormTypeOK /\ SentIsPending /\ SentApart /\ EffectsKnown /\ FormOpen
      /\ TypedTextKept
  BY DEF FormInv
<1>b. UNCHANGED sent => SameRequests
  BY <1>a DEF FormTypeOK, SameRequests
<1>c. ASSUME Enters PROVE text' \in 0..MaxTexts /\ texts' \in 0..MaxTexts /\ overlapped' \in BOOLEAN
  BY <1>a, <1>c, FormsConstants DEF Enters, FormTypeOK
<1>1. CASE \E s \in Subjects : OpenForm(s)
  <2> PICK s \in Subjects : OpenForm(s)
    BY <1>1
  <2>1. /\ subject = NoSubject /\ subject' = s /\ text = 0
        /\ form \notin Inline /\ form \notin Local
        /\ UNCHANGED <<form, problem, effects, unsure, wiped>>
        /\ Enters \/ UNCHANGED <<text, texts, overlapped>>
        /\ pending' = (pending /\ form \notin Keyed)
        /\ sent' = IF form \in Keyed THEN Orphaned ELSE sent
    BY <1>a DEF OpenForm, FormOpen
  <2>2. SameRequests /\ (form \in Keyed => \A i \in DOMAIN sent : ~sent'[i].mine)
    BY <1>a, <1>b, <2>1, OrphanedFacts
  <2>3. FormTypeOK'
    <3>1. text' \in 0..MaxTexts /\ texts' \in 0..MaxTexts /\ overlapped' \in BOOLEAN
      BY <1>a, <1>c, <2>1 DEF FormTypeOK
    <3>2. pending' \in BOOLEAN
      BY <2>1
    <3>3. QED
      BY <1>a, <2>1, <2>2, <3>1, <3>2 DEF FormTypeOK, SameRequests
  <2>4. \A i \in DOMAIN sent : sent'[i].mine => pending' = pending
    BY <1>a, <2>1, <2>2 DEF FormTypeOK
  <2>5. form # "portalReply" /\ subject' # NoSubject
    BY <2>1, Families, FormsConstants
  <2>6. form \in Held => \A i \in DOMAIN sent : sent'[i].mine = sent[i].mine
    BY <2>1, Families
  <2>7. QED
    BY <2>1, <2>2, <2>3, <2>4, <2>5, <2>6, RequestsStay
<1>2. CASE TypeText
  <2>1. /\ subject # NoSubject /\ ~(LocksField(form) /\ pending) /\ Enters
        /\ UNCHANGED <<form, subject, pending, problem, sent, effects, unsure, wiped>>
    BY <1>2 DEF TypeText
  <2>2. FormTypeOK'
    BY <1>a, <1>c, <2>1 DEF FormTypeOK
  <2>3. form = "portalReply" => \A i \in DOMAIN sent : UnderWay(i) => ~sent'[i].mine
    BY <1>a, <2>1, Families DEF SentIsPending
  <2>4. SameRequests
    BY <1>b, <2>1
  <2>5. QED
    BY <2>1, <2>2, <2>3, <2>4, RequestsStay
<1>3. CASE Dismiss
  <2>1. /\ form \in Held \cup Keyed /\ text' = 0 /\ problem' = FALSE /\ subject' = NoSubject
        /\ pending' = (pending /\ form \notin Keyed)
        /\ sent' = IF form \in Keyed THEN Orphaned ELSE sent
        /\ UNCHANGED <<form, texts, effects, unsure, overlapped, wiped>>
    BY <1>3 DEF Dismiss, Closes
  <2>2. SameRequests /\ (form \in Keyed => \A i \in DOMAIN sent : ~sent'[i].mine)
    BY <1>a, <1>b, <2>1, OrphanedFacts
  <2>3. FormTypeOK'
    <3>1. pending' \in BOOLEAN /\ problem' \in BOOLEAN
      BY <2>1, Zenon
    <3>2. text' \in 0..MaxTexts
      BY <2>1, FormsConstants
    <3>3. QED
      BY <1>a, <2>1, <2>2, <3>1, <3>2 DEF FormTypeOK, SameRequests
  <2>4. \A i \in DOMAIN sent : sent'[i].mine => pending' = pending
    BY <1>a, <2>1, <2>2 DEF FormTypeOK
  <2>5. form \notin Inline \cup Local /\ form # "portalReply"
    BY <2>1, Families
  <2>6. form \in Held => \A i \in DOMAIN sent : sent'[i].mine = sent[i].mine
    BY <2>1, Families
  <2>7. QED
    BY <2>1, <2>2, <2>3, <2>4, <2>5, <2>6, RequestsStay
<1>4. CASE Remount
  <2>1. /\ form \in Inline /\ text' = 0 /\ problem' = FALSE /\ pending' = FALSE
        /\ sent' = Orphaned
        /\ UNCHANGED <<form, subject, texts, effects, unsure, overlapped, wiped>>
    BY <1>4 DEF Remount
  <2>2. SameRequests /\ \A i \in DOMAIN sent : ~sent'[i].mine
    BY <1>a, <2>1, OrphanedFacts
  <2>3. FormTypeOK'
    <3>1. pending' \in BOOLEAN /\ problem' \in BOOLEAN
      BY <2>1, Zenon
    <3>2. text' \in 0..MaxTexts
      BY <2>1, FormsConstants
    <3>3. QED
      BY <1>a, <2>1, <2>2, <3>1, <3>2 DEF FormTypeOK, SameRequests
  <2>4. form \notin Held /\ subject' # NoSubject
    BY <1>a, <2>1, Families DEF FormOpen
  <2>5. text' = text /\ text # 0 => FALSE
    BY <2>1
  <2>6. QED
    BY <2>1, <2>2, <2>3, <2>4, <2>5, RequestsStay
<1>5. CASE Submit
  BY <1>5, SubmitInv
<1>6. CASE ComposeLocal
  <2>1. /\ form \in Local /\ text # 0 /\ text' = 0
        /\ effects' = [effects EXCEPT ![text] = @ + 1]
        /\ UNCHANGED <<form, subject, texts, pending, problem, sent, unsure, overlapped, wiped>>
    BY <1>6 DEF ComposeLocal
  <2>2. sent = <<>> /\ DOMAIN sent = {} /\ text \in 1..MaxTexts /\ text <= texts
        /\ texts \in Nat
    BY <1>a, <2>1 DEF FormOpen, FormTypeOK
  <2>3. effects[text] = 0 \/ text \in unsure
    BY <1>a, <2>2 DEF EffectsKnown, FormTypeOK
  <2>4. FormTypeOK'
    BY <1>a, <2>1, <2>2, FormsConstants DEF FormTypeOK
  <2>5. SentIsPending' /\ SentApart' /\ FormOpen' /\ TypedTextKept'
    BY <1>a, <2>1, <2>2 DEF SentIsPending, SentApart, FormOpen, TypedTextKept
  <2>6. EffectsKnown'
    <3> SUFFICES ASSUME NEW t \in 1..MaxTexts
                 PROVE  /\ effects'[t] > 1 => t \in unsure
                        /\ t > texts => effects'[t] = 0
      BY <2>1, <2>2 DEF EffectsKnown
    <3>1. CASE t = text
      BY <1>a, <2>1, <2>2, <2>3, <3>1 DEF FormTypeOK
    <3>2. CASE t # text
      BY <1>a, <2>1, <2>2, <3>2 DEF FormTypeOK, EffectsKnown
    <3>3. QED
      BY <3>1, <3>2
  <2>7. QED
    BY <2>4, <2>5, <2>6 DEF FormInv
<1>7. CASE \E i \in DOMAIN sent : TakeEffect(i) \/ Succeed(i) \/ Fail(i)
  BY <1>7, TakeEffectInv, SucceedInv, FailInv
<1>8. CASE UNCHANGED formVars
  BY <1>8, <1>a
  DEF formVars, FormInv, FormTypeOK, SentIsPending, SentApart, EffectsKnown, FormOpen,
      TypedTextKept, UnderWay
<1>9. QED
  BY <1>1, <1>2, <1>3, <1>4, <1>5, <1>6, <1>7, <1>8 DEF FormNext

(* The invariant is inductive. *)
THEOREM FormInductive == FormSpec => []FormInv
<1>1. FormInv /\ [FormNext]_formVars => FormInv'
  BY FormStepInv
<1>2. QED
  BY <1>1, FormInitInv, PTL DEF FormSpec

(* In every form and dialog, an answer only removes the text it answers,   *)
(* or one typed meanwhile; never in the portal's reply box.                *)
THEOREM TypedTextIsKept == FormSpec => []TypedTextKept
<1>1. FormInv => TypedTextKept
  BY DEF FormInv
<1>2. QED
  BY <1>1, FormInductive, PTL

(* The pending flag and the cleared field keep every form from sending a   *)
(* text that took effect again, unless the answer was lost.                *)
THEOREM NoDuplicateIsSilent == FormSpec => []NoSilentDuplicate
<1>1. FormInv => NoSilentDuplicate
  BY DEF FormInv, EffectsKnown, NoSilentDuplicate
<1>2. QED
  BY <1>1, FormInductive, PTL

-----------------------------------------------------------------------------
(* UrlFilters. *)

(* While no choice crossed another, what is under way is what was wished:  *)
(* the push, or else the push that the debounce will make of the URL.      *)
WishUnderWay ==
    ~crossed =>
        /\ AtRest => url = wish
        /\ timer = NoTimer /\ going # NoUrl => going = wish
        /\ timer # NoTimer => /\ going = NoUrl /\ timer.base = url
                              /\ BuildSearch(url, [q |-> Trim[timer.q]]) = wish

(* ... and the field shows the search of the URL, or the one on its way. *)
TermUnderWay ==
    ~crossed /\ bar \in Following =>
        /\ timer # NoTimer => timer.q = term
        /\ timer = NoTimer => \/ Trim[term] = Trim[url.q]
                              \/ going # NoUrl /\ Trim[term] = Trim[going.q]

(* Only the fields that follow the URL are debounced, over a URL. *)
TimerIsOfField == timer # NoTimer => bar \in Following /\ timer.base \in Url

FilterInv == FilterTypeOK /\ WishUnderWay /\ TermUnderWay /\ TimerIsOfField

-----------------------------------------------------------------------------
(* What buildSearch returns for a search, a facet, a page and a reset. *)
LEMMA BuildSearchValues ==
  ASSUME NEW base \in Url, NEW t \in Terms, NEW f \in Facets, NEW n \in 1..MaxPage
  PROVE  /\ BuildSearch(base, [q |-> t]) = [q |-> t, facet |-> base.facet, page |-> 1]
         /\ BuildSearch(base, [facet |-> f]) = [q |-> base.q, facet |-> f, page |-> 1]
         /\ BuildSearch(base, [page |-> n]) = [q |-> base.q, facet |-> base.facet, page |-> n]
         /\ BuildSearch(base, [q |-> t, facet |-> f]) = [q |-> t, facet |-> f, page |-> 1]
BY FilterConstants DEF BuildSearch, Url

(* No URL of a list is the absence of one. *)
LEMMA UrlIsNotNoUrl == NoUrl \notin Url
BY FilterConstants DEF NoUrl, Url

(* A list has a first page.                                                *)
LEMMA FirstPage == 1 \in 1..MaxPage
BY FilterConstants

(* A bar that is opened shows its URL.                                     *)
LEMMA FilterInitInv == FilterInit => FilterInv
<1> SUFFICES ASSUME FilterInit PROVE FilterInv
  OBVIOUS
<1>1. Default \in Url
  BY FilterConstants, FirstPage DEF Default, Url
<1>2. NoTimer \in [q: Terms, base: Url \cup {NoUrl}]
  BY FilterConstants DEF NoTimer
<1>3. FilterTypeOK
  BY <1>1, <1>2, FilterConstants DEF FilterInit, FilterTypeOK
<1>4. WishUnderWay /\ TermUnderWay /\ TimerIsOfField
  BY DEF FilterInit, WishUnderWay, TermUnderWay, TimerIsOfField, AtRest, Default
<1>5. QED
  BY <1>3, <1>4 DEF FilterInv

(* A choice made from rest is under way afterwards; any other crosses. *)
LEMMA ChooseInv ==
  ASSUME FilterInv, NEW patch, Choose(patch), patch # [q |-> wish'.q],
         BuildSearch(url, patch) \in Url, wish' \in Url,
         url = wish => BuildSearch(url, patch) = wish'
  PROVE  FilterInv'
<1>1. /\ UNCHANGED <<bar, url, term, timer>> /\ going' = BuildSearch(url, patch)
      /\ crossed' = (crossed \/ going # NoUrl \/ timer # NoTimer)
  BY DEF Choose, Push, Wishes
<1>2. crossed' \in BOOLEAN /\ (~crossed' => ~crossed /\ AtRest)
  BY <1>1 DEF AtRest
<1>3. FilterTypeOK'
  BY <1>1, <1>2 DEF FilterInv, FilterTypeOK
<1>4. WishUnderWay'
  BY <1>1, <1>2, UrlIsNotNoUrl DEF FilterInv, WishUnderWay, AtRest
<1>5. TermUnderWay' /\ TimerIsOfField'
  BY <1>1, <1>2 DEF FilterInv, TermUnderWay, TimerIsOfField, AtRest
<1>6. QED
  BY <1>3, <1>4, <1>5 DEF FilterInv

(* Every step keeps field, debounce and URL together.                      *)
LEMMA FilterStepInv ==
  ASSUME FilterInv, [FilterNext]_filterVars
  PROVE  FilterInv'
<1>a. FilterTypeOK /\ WishUnderWay /\ TermUnderWay /\ TimerIsOfField
  BY DEF FilterInv
<1>b. url \in Url /\ wish \in Url /\ term \in Terms /\ bar \in Bars
  BY <1>a DEF FilterTypeOK
<1>1. CASE \E t \in Terms : TypeTerm(t)
  <2> PICK t \in Terms : TypeTerm(t)
    BY <1>1
  <2>1. /\ UNCHANGED <<bar, url, going>> /\ term' = t /\ timer' = [q |-> t, base |-> url]
        /\ wish' = [q |-> Trim[t], facet |-> wish.facet, page |-> 1]
        /\ crossed' = (crossed \/ going # NoUrl)
    BY DEF TypeTerm, Wishes
  <2>2. Trim[t] \in Terms /\ wish' \in Url
    BY <1>b, <2>1, FilterConstants, FirstPage DEF Url
  <2>3. timer' \in [q: Terms, base: Url \cup {NoUrl}] /\ timer' # NoTimer
    BY <1>b, <2>1, UrlIsNotNoUrl DEF NoTimer
  <2>4. crossed' \in BOOLEAN
    BY <2>1
  <2>5. FilterTypeOK'
    BY <1>a, <2>1, <2>2, <2>3, <2>4 DEF FilterTypeOK
  <2>6. ~crossed' => ~crossed /\ going = NoUrl /\ wish.facet = url.facet
    <3> SUFFICES ASSUME ~crossed' PROVE wish.facet = url.facet
      BY <2>1
    <3>1. ~crossed /\ going = NoUrl
      BY <2>1
    <3>2. CASE timer = NoTimer
      BY <1>a, <3>1, <3>2 DEF WishUnderWay, AtRest
    <3>3. CASE timer # NoTimer
      <4>1. Trim[timer.q] \in Terms
        BY <1>a, FilterConstants DEF FilterTypeOK
      <4>2. wish = [q |-> Trim[timer.q], facet |-> url.facet, page |-> 1]
        BY <1>a, <1>b, <3>1, <3>3, <4>1, BuildSearchValues, FilterConstants, FirstPage
        DEF WishUnderWay
      <4>3. QED
        BY <4>2
    <3>4. QED
      BY <3>2, <3>3
  <2>7. timer'.q = t /\ timer'.base = url
    BY <2>1
  <2>8. BuildSearch(url', [q |-> Trim[timer'.q]]) = [q |-> Trim[t], facet |-> url.facet, page |-> 1]
    BY <1>b, <2>1, <2>2, <2>7, BuildSearchValues, FilterConstants, FirstPage
  <2>9. WishUnderWay' /\ TermUnderWay'
    BY <2>1, <2>3, <2>6, <2>7, <2>8 DEF WishUnderWay, TermUnderWay, AtRest
  <2>10. TimerIsOfField'
    BY <1>b, <2>1, <2>7 DEF TypeTerm, TimerIsOfField
  <2>11. QED
    BY <2>5, <2>9, <2>10 DEF FilterInv
<1>2. CASE \E t \in Terms : EnterTerm(t)
  <2> PICK t \in Terms : EnterTerm(t)
    BY <1>2
  <2>1. /\ UNCHANGED <<bar, url, timer>> /\ term' = t /\ bar = "queue"
        /\ going' = BuildSearch(url, [q |-> t])
        /\ wish' = [q |-> t, facet |-> wish.facet, page |-> 1]
        /\ crossed' = (crossed \/ going # NoUrl)
    BY DEF EnterTerm, Push, Wishes
  <2>2. BuildSearch(url, [q |-> t]) = [q |-> t, facet |-> url.facet, page |-> 1]
    BY <1>b, BuildSearchValues, FilterConstants, FirstPage
  <2>3. going' \in Url /\ wish' \in Url /\ crossed' \in BOOLEAN
    BY <1>b, <2>1, <2>2, FirstPage DEF Url
  <2>4. FilterTypeOK'
    BY <1>a, <2>1, <2>3 DEF FilterTypeOK
  <2>5. bar \notin Following
    BY <2>1 DEF Following, BarTable, QueueFilters
  <2>6. WishUnderWay'
    <3> SUFFICES ASSUME ~crossed' PROVE going' = wish' /\ timer = NoTimer
      BY <2>1, <2>3, UrlIsNotNoUrl DEF WishUnderWay, AtRest
    <3>1. timer = NoTimer
      BY <1>a, <2>5 DEF TimerIsOfField
    <3>2. url = wish
      BY <1>a, <2>1, <3>1 DEF WishUnderWay, AtRest
    <3>3. QED
      BY <2>1, <2>2, <3>1, <3>2
  <2>7. TermUnderWay' /\ TimerIsOfField'
    BY <1>a, <2>1, <2>5 DEF TermUnderWay, TimerIsOfField
  <2>8. QED
    BY <2>4, <2>6, <2>7 DEF FilterInv
<1>3. CASE DebounceFires
  <2>1. /\ UNCHANGED <<bar, url, term, wish, crossed>> /\ timer # NoTimer /\ timer' = NoTimer
        /\ going' = BuildSearch(timer.base, [q |-> Trim[timer.q]])
    BY <1>3 DEF DebounceFires, Push
  <2>2. timer.base \in Url /\ timer.q \in Terms /\ Trim[timer.q] \in Terms
    BY <1>a, <2>1, FilterConstants DEF FilterTypeOK, TimerIsOfField
  <2>3. going' = [q |-> Trim[timer.q], facet |-> timer.base.facet, page |-> 1]
    BY <2>1, <2>2, BuildSearchValues, FilterConstants, FirstPage
  <2>4. going' \in Url /\ going'.q = Trim[timer.q]
    BY <2>2, <2>3, FirstPage DEF Url
  <2>5. FilterTypeOK'
    <3>1. NoTimer \in [q: Terms, base: Url \cup {NoUrl}]
      BY FilterConstants DEF NoTimer
    <3>2. QED
      BY <1>a, <2>1, <2>4, <3>1 DEF FilterTypeOK
  <2>6. WishUnderWay' /\ TimerIsOfField'
    BY <1>a, <2>1, <2>4, UrlIsNotNoUrl DEF WishUnderWay, TimerIsOfField, AtRest
  <2>7. TermUnderWay'
    BY <1>a, <1>b, <2>1, <2>4, UrlIsNotNoUrl, FilterConstants DEF TermUnderWay
  <2>8. QED
    BY <2>5, <2>6, <2>7 DEF FilterInv
<1>4. CASE \E f \in Facets : PickFacet(f)
  <2> PICK f \in Facets : PickFacet(f)
    BY <1>4
  <2>1. Choose([facet |-> f]) /\ wish' = [q |-> wish.q, facet |-> f, page |-> 1]
    BY DEF PickFacet, Choose, Wishes
  <2>2. BuildSearch(url, [facet |-> f]) = [q |-> url.q, facet |-> f, page |-> 1]
    BY <1>b, BuildSearchValues, FilterConstants, FirstPage
  <2>3. BuildSearch(url, [facet |-> f]) \in Url /\ wish' \in Url
    BY <1>b, <2>1, <2>2, FirstPage DEF Url
  <2>4. [facet |-> f] # [q |-> wish'.q]
    BY <2>1
  <2>5. QED
    BY <2>1, <2>2, <2>3, <2>4, ChooseInv
<1>5. CASE \E n \in 1..MaxPage : GoToPage(n)
  <2> PICK n \in 1..MaxPage : GoToPage(n)
    BY <1>5
  <2>1. Choose([page |-> n]) /\ wish' = [q |-> wish.q, facet |-> wish.facet, page |-> n]
    BY DEF GoToPage, Choose, Wishes
  <2>2. BuildSearch(url, [page |-> n]) = [q |-> url.q, facet |-> url.facet, page |-> n]
    BY <1>b, BuildSearchValues, FilterConstants
  <2>3. BuildSearch(url, [page |-> n]) \in Url /\ wish' \in Url
    BY <1>b, <2>1, <2>2 DEF Url
  <2>4. [page |-> n] # [q |-> wish'.q]
    BY <2>1
  <2>5. QED
    BY <2>1, <2>2, <2>3, <2>4, ChooseInv
<1>6. CASE ClearFilters
  <2>1. /\ Choose([q |-> Empty, facet |-> AllFacet])
        /\ wish' = [q |-> Empty, facet |-> AllFacet, page |-> 1]
    BY <1>6 DEF ClearFilters, Choose, Wishes
  <2>2. BuildSearch(url, [q |-> Empty, facet |-> AllFacet])
          = [q |-> Empty, facet |-> AllFacet, page |-> 1]
    BY <1>b, BuildSearchValues, FilterConstants, FirstPage
  <2>3. BuildSearch(url, [q |-> Empty, facet |-> AllFacet]) \in Url /\ wish' \in Url
    BY <2>1, <2>2, FilterConstants, FirstPage DEF Url
  <2>4. [q |-> Empty, facet |-> AllFacet] # [q |-> wish'.q]
    BY <2>1
  <2>5. QED
    BY <2>1, <2>2, <2>3, <2>4, ChooseInv
<1>7. CASE CommitPush
  <2>1. /\ UNCHANGED <<bar, timer, wish, crossed>> /\ going # NoUrl
        /\ url' = going /\ going' = NoUrl
        /\ term' = IF bar \in Following /\ going.q # url.q THEN going.q ELSE term
    BY <1>7 DEF CommitPush
  <2>2. going \in Url /\ going.q \in Terms
    BY <1>a, <2>1 DEF FilterTypeOK, Url
  <2>3. FilterTypeOK'
    BY <1>a, <2>1, <2>2 DEF FilterTypeOK
  <2>4. WishUnderWay' /\ TimerIsOfField'
    BY <1>a, <2>1 DEF WishUnderWay, TimerIsOfField, AtRest
  <2>5. TermUnderWay'
    BY <1>a, <2>1 DEF TermUnderWay, WishUnderWay
  <2>6. QED
    BY <2>3, <2>4, <2>5 DEF FilterInv
<1>8. CASE \E u \in Links : Follows(u)
  <2> PICK u \in Links : Follows(u)
    BY <1>8
  <2>1. /\ UNCHANGED <<bar, url, term, timer>> /\ going' = u /\ wish' = u
        /\ crossed' = (crossed \/ going # NoUrl \/ timer # NoTimer)
    BY DEF Follows
  <2>2. u \in Url /\ u # NoUrl /\ crossed' \in BOOLEAN
    BY <2>1, UrlIsNotNoUrl DEF Links
  <2>3. FilterTypeOK'
    BY <1>a, <2>1, <2>2 DEF FilterTypeOK
  <2>4. WishUnderWay' /\ TermUnderWay' /\ TimerIsOfField'
    BY <1>a, <2>1, <2>2 DEF WishUnderWay, TermUnderWay, TimerIsOfField, AtRest
  <2>5. QED
    BY <2>3, <2>4 DEF FilterInv
<1>9. CASE \E u \in Links : LeaveAndReturn(u)
  <2> PICK u \in Links : LeaveAndReturn(u)
    BY <1>9
  <2>1. /\ UNCHANGED bar /\ url' = u /\ going' = NoUrl /\ term' = u.q
        /\ timer' = NoTimer /\ wish' = u /\ crossed' = FALSE
    BY DEF LeaveAndReturn
  <2>2. u \in Url /\ u.q \in Terms /\ NoTimer \in [q: Terms, base: Url \cup {NoUrl}]
    BY FilterConstants DEF Links, Url, NoTimer
  <2>3. FilterTypeOK'
    BY <1>a, <2>1, <2>2 DEF FilterTypeOK
  <2>4. WishUnderWay' /\ TermUnderWay' /\ TimerIsOfField'
    BY <2>1 DEF WishUnderWay, TermUnderWay, TimerIsOfField, AtRest
  <2>5. QED
    BY <2>3, <2>4 DEF FilterInv
<1>10. CASE UNCHANGED filterVars
  BY <1>10, <1>a
  DEF filterVars, FilterInv, FilterTypeOK, WishUnderWay, TermUnderWay, TimerIsOfField, AtRest
<1>11. QED
  BY <1>1, <1>2, <1>3, <1>4, <1>5, <1>6, <1>7, <1>8, <1>9, <1>10 DEF FilterNext

-----------------------------------------------------------------------------
(* The theorems. *)

(* The invariant is inductive. *)
THEOREM FilterInductive == FilterSpec => []FilterInv
<1>1. FilterInv /\ [FilterNext]_filterVars => FilterInv'
  BY FilterStepInv
<1>2. QED
  BY <1>1, FilterInitInv, PTL DEF FilterSpec

(* Every variable of a filter bar keeps its type. *)
THEOREM FilterTypeCorrect == FilterSpec => []FilterTypeOK
<1>1. FilterInv => FilterTypeOK
  BY DEF FilterInv
<1>2. QED
  BY <1>1, FilterInductive, PTL

(* Whatever was typed, picked, cleared or followed, in any number of       *)
(* rounds, the URL at rest is what the choices amount to.                  *)
THEOREM ChoicesAreApplied == FilterSpec => []ChoicesApplied
<1>1. FilterInv => ChoicesApplied
  BY DEF FilterInv, WishUnderWay, ChoicesApplied
<1>2. QED
  BY <1>1, FilterInductive, PTL

(* A search field that follows the URL shows the search of the URL at      *)
(* rest, however the URL came about.                                       *)
THEOREM FieldFollowsUrl == FilterSpec => []FieldMatchesUrl
<1>1. FilterInv => FieldMatchesUrl
  BY DEF FilterInv, TermUnderWay, FieldMatchesUrl, AtRest
<1>2. QED
  BY <1>1, FilterInductive, PTL
=============================================================================
