--------------------------- MODULE MCDockerNetwork ---------------------------
(***************************************************************************)
(* Small instances of DockerNetwork for TLC: two or three processes of     *)
(* kind that differ in nothing but their turns.                            *)
(***************************************************************************)
EXTENDS DockerNetwork

Symmetry == Permutations(Proc)

=============================================================================
