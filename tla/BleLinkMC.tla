----------------------------- MODULE BleLinkMC -----------------------------
(***************************************************************************)
(* BleLink for TLC: two contents of .data, so that a report can repeat the *)
(* last one or differ from it, and backoffs 5, 10, 15: one doubling and    *)
(* one that the maximum cuts short.                                        *)
(***************************************************************************)
EXTENDS BleLink
=============================================================================
