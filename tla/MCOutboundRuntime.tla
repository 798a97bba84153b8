-------------------------- MODULE MCOutboundRuntime --------------------------
(***************************************************************************)
(* Instances of OutboundRuntime for TLC.  One unit of time is half a       *)
(* minute, which makes Slack 1 and VerifyAge 2.                            *)
(***************************************************************************)
EXTENDS OutboundRuntime
=============================================================================
