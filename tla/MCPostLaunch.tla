---------------------------- MODULE MCPostLaunch ----------------------------
(* PostLaunch for a name that is launched a few times. *)
EXTENDS PostLaunch
=============================================================================
