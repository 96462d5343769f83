-------------------------- MODULE MCDeletionRunners -------------------------
(***************************************************************************)
(* Two starts for the runners of ProjectDeletion that add up instead of    *)
(* multiplying: one project with two keys and an administrator at work, or *)
(* two archived projects with one key between them, that may be published. *)
(***************************************************************************)
EXTENDS ProjectDeletionRefinement, ProjectDeletionInvariant, TLC

CONSTANTS p1, p2, k1

(* p2 stays active and has no part in it.                                   *)
OneProject == status[p2] = "active" /\ \A k \in Keys : owner[k] = p1

TwoProjects ==
  /\ status = [p \in {p1, p2} |-> "archived"]
  /\ \A k \in Keys : owner[k] = None <=> k # k1

MCInit == Init /\ (OneProject \/ TwoProjects)

(* Only what people do is restricted, and nothing obliges them to do it.    *)
PeopleAtWork ==
  IF status[p2] = "active"
  THEN /\ published' = {}
       /\ \A a \in Admins : transition'[a].project # p2
  ELSE UNCHANGED transition

(* Tokens are numbers here, and a claim takes the least fresh one: which it *)
(* is makes no difference, since tokens are only compared for equality.     *)
LeastToken ==
  \A r \in Runners : runner[r].token = None /\ runner'[r].token # None =>
    \A t \in Tokens : FreshToken(t) => runner'[r].token <= t

MCFairSpec == MCInit /\ [][Next /\ PeopleAtWork /\ LeastToken]_vars /\ Fairness

=============================================================================
