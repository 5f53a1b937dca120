--------------------------- MODULE MCDeployments ---------------------------
(* Small instances of Deployments for TLC. *)
EXTENDS Deployments
CONSTANTS s1, s2, c1, c2, i1

\* One release per stage, so that no two stages share a binary.
OwnVersion == [s \in Stages |-> s]

(* Stages are told apart by equality only, and so are clients. *)
Symmetry == Permutations(Stages) \cup Permutations(Clients)
=============================================================================
