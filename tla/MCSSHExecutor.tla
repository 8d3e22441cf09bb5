--------------------------- MODULE MCSSHExecutor ---------------------------
(***************************************************************************)
(* Instances of SSHExecutor for TLC: the kinds of nodes that are addressed.*)
(***************************************************************************)
EXTENDS SSHExecutor

BothTargets == {"remote", "local"}
OnlyRemote == {"remote"}
=============================================================================
