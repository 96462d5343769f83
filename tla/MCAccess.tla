------------------------------- MODULE MCAccess -------------------------------
(***************************************************************************)
(* Small instances of Access for TLC.                                      *)
(***************************************************************************)
EXTENDS Access, TLC

CONSTANTS m1, m2, p1, o1

(* m1 brings administrators to the project; m2 brings contributors to it in *)
(* one instance, administrators of the organisation in another; the third   *)
(* has direct grants only.                                                  *)
TargetOneScope == m1 :> p1 @@ m2 :> p1
AdministersOneScope == m1 :> TRUE @@ m2 :> FALSE
TargetTwoScopes == m1 :> p1 @@ m2 :> o1
AdministersTwoScopes == m1 :> TRUE @@ m2 :> TRUE
TargetNone == [m \in {} |-> p1]
AdministersNone == [m \in {} |-> FALSE]

Symmetric == Permutations(Users) \cup Permutations(Grants)
               \cup Permutations(Sessions) \cup Permutations(Callers)
=============================================================================
