------------------------------ MODULE MCHostAgent ------------------------------
(* The constants of HostAgent for TLC.                                     *)
EXTENDS HostAgent

MCBuilds == {"first", "good", "broken"}
MCBroken == {"broken"}
MCTagged == {"good"}
=============================================================================
