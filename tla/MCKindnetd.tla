----------------------------- MODULE MCKindnetd -----------------------------
(***************************************************************************)
(* A small instance of Kindnetd for TLC.                                   *)
(***************************************************************************)
EXTENDS Kindnetd

CONSTANTS self, other

TwoNodes == <<other, self>>

=============================================================================
