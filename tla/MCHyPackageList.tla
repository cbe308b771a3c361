-------------------------- MODULE MCHyPackageList --------------------------
(* HyPackageList with four users and three nodes: several can wait while   *)
(* others put, and all nodes can be outside the list.                      *)
EXTENDS HyPackageList

CONSTANTS u1, u2, u3, u4, n1, n2, n3, none
=============================================================================
