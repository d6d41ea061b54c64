-------------------------- MODULE CloudControlMC --------------------------
(***************************************************************************)
(* CloudControl for TLC: two units with one switch each, so that a command *)
(* to the wrong one shows, and two calls that overlap.                     *)
(***************************************************************************)
EXTENDS CloudControl

Twice == [command |-> 2, change |-> 1, break |-> 1, expiry |-> 1, listing |-> 1]
=============================================================================
