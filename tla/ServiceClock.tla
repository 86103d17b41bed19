---------------------------- MODULE ServiceClock ----------------------------
(* The clock that the services of one process read (Date.now, new Date):   *)
(* a small number that grows, up to MaxTime.                               *)
EXTENDS Naturals

CONSTANT MaxTime

ASSUME MaxTimeAssumption == MaxTime \in Nat

VARIABLE now

ClockInit == now = 0

Advance == now < MaxTime /\ now' = now + 1
=============================================================================
