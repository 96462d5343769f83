-------------------------- MODULE MCProjectDeletion --------------------------
(***************************************************************************)
(* Small instances of ProjectDeletion for TLC.                             *)
(***************************************************************************)
EXTENDS ProjectDeletionRefinement, ProjectDeletionInvariant, TLC

(* Keys, tokens and runners are interchangeable; so are uploaders, when     *)
(* there are several.                                                       *)
Symmetric == Permutations(Keys) \cup Permutations(Tokens) \cup Permutations(Runners)

=============================================================================
