---------------------------- MODULE ConfigFlowMC ----------------------------
(***************************************************************************)
(* ConfigFlow for TLC: three flows open at a time and two units.           *)
(***************************************************************************)
EXTENDS ConfigFlow, TLC

Symmetry == Permutations(Flows) \cup Permutations(Units)
=============================================================================
