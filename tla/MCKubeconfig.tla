---------------------------- MODULE MCKubeconfig ----------------------------
(***************************************************************************)
(* Small instances of Kubeconfig for TLC: two processes, two files, lists  *)
(* of one and of two files as $KUBECONFIG may give them.                   *)
(***************************************************************************)
EXTENDS Kubeconfig, TLC

CONSTANTS f1, f2, p1, p2

MCPathLists == {<<f1>>, <<f1, f2>>}

Symmetry == Permutations({p1, p2})

=============================================================================
