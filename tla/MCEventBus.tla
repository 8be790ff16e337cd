----------------------------- MODULE MCEventBus -----------------------------
(***************************************************************************)
(* Instances of EventBus for TLC: three requests, two of which create a    *)
(* ticket, and a buffer that they and the dispatcher fill.                 *)
(***************************************************************************)
EXTENDS EventBus

CONSTANTS r1, r2, r3
=============================================================================
