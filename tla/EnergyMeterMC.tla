--------------------------- MODULE EnergyMeterMC ---------------------------
(***************************************************************************)
(* EnergyMeter for TLC.  A tick is ten seconds: a Bluetooth reading is     *)
(* stale after two, a poll is due after three.  One reading is negative,   *)
(* and a watt-hour is three of the units, so that rounding loses and gains.*)
(***************************************************************************)
EXTENDS EnergyMeter

MCPowers == {-1, 1, 2}
=============================================================================
