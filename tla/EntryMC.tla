------------------------------ MODULE EntryMC ------------------------------
(***************************************************************************)
(* Entry for TLC: both platforms, and three hubs, so that a hub can be     *)
(* dropped, replaced and stopped in one life of the entry.                 *)
(***************************************************************************)
EXTENDS Entry
=============================================================================
