---------------------------- MODULE TelemetryMC ----------------------------
(***************************************************************************)
(* Telemetry for TLC.  The blocks have the lengths the unit was seen to    *)
(* send (tests/test_protocol.py) and a different byte at every place, so   *)
(* that a value read at a wrong place or made of too few bytes shows.      *)
(***************************************************************************)
EXTENDS Telemetry

\* A block of n bytes: b + 1, b + 2, ...
Ramp(n, b) == [i \in 1 .. n |-> b + i]

\* Two blocks that change, one with three levels of the flashlight, and three that
\* do not: between them every way a value is read.
MCBlocks ==
    [light |-> {<<0>>, <<1>>, <<3>>}, totals |-> {Ramp(4, 0), Ramp(4, 100)},
     ports |-> {Ramp(12, 0)}, temps |-> {Ramp(8, 30)}, battery |-> {Ramp(28, 0)}]

\* Every model, up to the longest block.
MCSizes == 0 .. 28
=============================================================================
