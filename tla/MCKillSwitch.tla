---------------------------- MODULE MCKillSwitch ----------------------------
(***************************************************************************)
(* Small instances of KillSwitch: the runtime, which arms and asks, and    *)
(* one or two command lines, which may also disarm and initialise.         *)
(***************************************************************************)
EXTENDS KillSwitch

CONSTANTS runtime, cli, cli2
=============================================================================
