---------------------------- MODULE ErasurePromise ----------------------------
(***************************************************************************)
(* What permanent deletion promises to the people of an organisation, with *)
(* no job, lease, manifest or runner in sight: the bytes they stored stay  *)
(* until their project is being erased, a scheduled erasure can be         *)
(* withdrawn until its grace period ends and never after, and an erased    *)
(* project stays erased with nothing left of it.                           *)
(***************************************************************************)

CONSTANTS Projects, Keys, None

VARIABLES
  phase,     \* where each project stands
  holder,    \* the project an acknowledged object was stored for
  bytes      \* acknowledged objects whose bytes exist

promise == <<phase, holder, bytes>>

Phase == {"kept", "scheduled", "erasing", "erased"}

PromiseTypeOK ==
  /\ phase \in [Projects -> Phase]
  /\ holder \in [Keys -> Projects \cup {None}]
  /\ bytes \in SUBSET Keys

Init ==
  /\ phase = [p \in Projects |-> "kept"]
  /\ holder \in [Keys -> Projects \cup {None}]
  /\ bytes = {k \in Keys : holder[k] # None}

Move(p, from, to) == phase[p] = from /\ phase' = [phase EXCEPT ![p] = to]

(* An object is stored once, in a project nobody asked to delete.           *)
Store(k, p) ==
  /\ phase[p] = "kept" /\ holder[k] = None
  /\ holder' = [holder EXCEPT ![k] = p]
  /\ bytes' = bytes \cup {k}
  /\ UNCHANGED phase

Schedule(p)    == Move(p, "kept", "scheduled") /\ UNCHANGED <<holder, bytes>>
Withdraw(p)    == Move(p, "scheduled", "kept") /\ UNCHANGED <<holder, bytes>>
GraceEnds(p)   == Move(p, "scheduled", "erasing") /\ UNCHANGED <<holder, bytes>>

Erase(k) ==
  /\ k \in bytes /\ phase[holder[k]] = "erasing"
  /\ bytes' = bytes \ {k}
  /\ UNCHANGED <<phase, holder>>

Complete(p) ==
  /\ Move(p, "erasing", "erased")
  /\ \A k \in bytes : holder[k] # p
  /\ UNCHANGED <<holder, bytes>>

Next ==
  \/ \E k \in Keys, p \in Projects : Store(k, p)
  \/ \E k \in Keys : Erase(k)
  \/ \E p \in Projects : Schedule(p) \/ Withdraw(p) \/ GraceEnds(p) \/ Complete(p)

Spec == Init /\ [][Next]_promise

=============================================================================
