---------------------------- MODULE MCLocalCluster ----------------------------
(***************************************************************************)
(* Instances of LocalCluster for TLC.                                      *)
(***************************************************************************)
EXTENDS LocalCluster, TLC

UpOnly == {"up"}
=============================================================================
