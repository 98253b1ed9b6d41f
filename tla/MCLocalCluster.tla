--------------------------- MODULE MCLocalCluster ---------------------------
(***************************************************************************)
(* Small instances of LocalCluster for TLC: a control plane and a worker,  *)
(* or two control planes behind the implicit load balancer.                *)
(***************************************************************************)
EXTENDS LocalCluster

=============================================================================
