--------------------------- MODULE MCAccessPolicy ---------------------------
(***************************************************************************)
(* AccessPolicy for TLC: no definition tells requests, keys, base URLs or  *)
(* the providers of the shared entry apart, and the run checks invariants  *)
(* only.                                                                   *)
(***************************************************************************)
EXTENDS AccessPolicy, TLC

Symmetric == Permutations(Client) \cup Permutations(Shared)
             \cup Permutations(Key) \cup Permutations(Url)

=============================================================================
