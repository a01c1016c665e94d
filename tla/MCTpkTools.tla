------------------------------- MODULE MCTpkTools ------------------------------
(***************************************************************************)
(* The machines of the publisher's side next to each other: a run either   *)
(* puts texts together (TpkGate) or releases packs (TpkRelease).           *)
(***************************************************************************)
EXTENDS MCTpkRelease, MCTpkGate

ToolsInit == GateInit /\ ReleaseInit

ToolsNext ==
    \/ GateNext /\ UNCHANGED releaseVars
    \/ subject = "release" /\ ReleaseNext /\ UNCHANGED gateVars

ToolsSpec == ToolsInit /\ [][ToolsNext]_<<gateVars, releaseVars>>
================================================================================
