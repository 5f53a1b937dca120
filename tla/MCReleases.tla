----------------------------- MODULE MCReleases -----------------------------
(* Small instances of Releases for TLC. *)
EXTENDS Releases, TLC

CONSTANTS e1, e2, k1, k2, c1, c2

\* Tags such as v1 and 1, which differ in the v alone.
Shared == [t \in Tags |-> 1]

Symmetry == Permutations(Envs) \cup Permutations(Commits) \cup Permutations(Clients)
=============================================================================
