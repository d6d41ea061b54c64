----------------------------- MODULE CloudHubMC -----------------------------
(***************************************************************************)
(* CloudHub for TLC.  A tick stands for WS_KEEPALIVE_INTERVAL, so the read *)
(* deadline, 90 s, falls between three and four keepalives: StallTicks = 3.*)
(***************************************************************************)
EXTENDS CloudHub
=============================================================================
