--------------------------- MODULE MCPublicAddress ---------------------------
(***************************************************************************)
(* Small instances of PublicAddress for TLC.                               *)
(***************************************************************************)
EXTENDS PublicAddress, TLC

CONSTANTS n1, n2, n3, plain, empty

(* Two spellings of one name, and one that leaves nothing of itself.        *)
Normalized == n1 :> plain @@ n2 :> plain @@ n3 :> empty
NormalizedTwo == n1 :> plain @@ n3 :> empty

Symmetric == Permutations(Projects) \cup Permutations(Clients) \cup Permutations(ClientSlugs)
               \cup Permutations(Accesses) \cup Permutations(Callers)
=============================================================================
