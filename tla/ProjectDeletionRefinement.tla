---------------------- MODULE ProjectDeletionRefinement ----------------------
(***************************************************************************)
(* The deletion protocol implements ErasurePromise.  An object counts once *)
(* its upload was acknowledged, and a project is "erasing" from the moment *)
(* its active job is due.                                                  *)
(***************************************************************************)
EXTENDS ProjectDeletion

PhaseOf(p) ==
  IF status[p] = "gone" THEN "erased"
  ELSE IF \E j \in Jobs : Active(j) /\ jobs[j].project = p /\ jobs[j].due THEN "erasing"
  ELSE IF HasActiveJob(p) THEN "scheduled"
  ELSE "kept"

AcknowledgedHolder == [k \in Keys |-> IF k \in acked THEN owner[k] ELSE None]

Promise == INSTANCE ErasurePromise WITH
  phase  <- [p \in Projects |-> PhaseOf(p)],
  holder <- AcknowledgedHolder,
  bytes  <- acked \cap storage

(* Every step of requests, cancellations, uploads, compensations, sweeps    *)
(* and competing runners is a step of the promise, or is invisible to it.   *)
KeepsPromise == Promise!Spec

=============================================================================
