-------------------------------- MODULE Clock --------------------------------
(* The clock of the database and of the application, which are taken to     *)
(* agree.                                                                   *)
EXTENDS Naturals

CONSTANTS MaxTime   \* bound

ASSUME MaxTimeIsNatural == MaxTime \in Nat

VARIABLE now

Times == 0..MaxTime
Tick == now < MaxTime /\ now' = now + 1
=============================================================================
