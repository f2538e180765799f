---------------------------- MODULE MCMerchandise ----------------------------
(* TLC instance of Merchandise: any account may deploy and any may buy. *)
EXTENDS Merchandise, TLC

CONSTANTS a1, a2, d, h1, h2   \* two accounts, a denied one, two file hashes

Symmetry == Permutations({a1, a2}) \cup Permutations({h1, h2})
=============================================================================
