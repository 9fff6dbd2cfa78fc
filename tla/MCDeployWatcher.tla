---------------------------- MODULE MCDeployWatcher ----------------------------
(***************************************************************************)
(* Instances of DeployWatcher for TLC.                                     *)
(***************************************************************************)
EXTENDS DeployWatcher, TLC

MCPods == {"api-0", "api-1"}
MCComponent == ("api-0" :> "api") @@ ("api-1" :> "api")
=============================================================================
