------------------------------ MODULE MCTriage ------------------------------
(* Instances of Triage for TLC. *)
EXTENDS Triage, TLC

CONSTANTS t1, t2, c1, alice, general, payments, support, billing, other, normal, urgent,
          h1, h2, w1, w2, none

NoPatch == [by |-> none, priority |-> none, department |-> none, status |-> none]

SetUrgent     == [NoPatch EXCEPT !.priority = urgent]
MoveToPayments == [NoPatch EXCEPT !.department = payments]
Resolve       == [NoPatch EXCEPT !.status = "resolved"]
Close         == [NoPatch EXCEPT !.status = "closed"]
Correct       == [NoPatch EXCEPT !.priority = urgent, !.department = payments]
KeepGeneral   == [NoPatch EXCEPT !.department = general]
Reopen        == [NoPatch EXCEPT !.by = c1, !.status = "open"]
Misuse        == [Reopen EXCEPT !.priority = urgent]

NoPatches      == {}
UrgentPatch    == {SetUrgent}
AgentPatches   == {Correct, Resolve, Close}
AllPatches     == {SetUrgent, MoveToPayments, KeepGeneral, Resolve, Close, Reopen, Misuse}

SeedPayments == payments :> billing
SeedNothing  == <<>>

HandlerSymmetry == Permutations({h1, h2})
=============================================================================
