----------------------------- MODULE HubSurface -----------------------------
(***************************************************************************)
(* What sensor.py and switch.py know of a transport: .available, .data and *)
(* the listeners (the "hub-shaped surface" of ble.py and api.py), and what *)
(* the two transports promise them.  BleLink and CloudHub implement it.    *)
(*                                                                         *)
(* A hub may change .available and .data without telling its listeners at  *)
(* once.  It promises that an outage is never hidden: before it becomes    *)
(* available again, no entity shows a reading of before as live (Rises),   *)
(* and what an entity shows is never anything but what the hub said at one *)
(* moment.  That it tells them again and again is Settles.                 *)
(***************************************************************************)
CONSTANTS
    Data,       \* what .data can hold once the device has reported
    NoReading   \* .data before: the empty dictionary

VARIABLES
    up,        \* .available
    data,      \* .data
    entities,  \* the platforms: "adding", "attached" or "removed"
    seen       \* what the entities last wrote to Home Assistant

hubVars == <<up, data>>
vars == <<hubVars, entities, seen>>

Init ==
    /\ up = FALSE /\ data = NoReading
    /\ entities = "adding"
    /\ seen = [up |-> FALSE, data |-> NoReading]

\* The entities write what the hub says after the step.
Write == seen' = [up |-> up', data |-> data']

\* A hub's step tells the attached entities, or it does not.
Told == UNCHANGED seen \/ (entities = "attached" /\ Write)

Rises ==
    /\ ~up /\ up' = TRUE
    /\ entities = "attached" => ~seen.up
    /\ UNCHANGED <<data, entities>>
    /\ Told

Falls ==
    /\ up /\ up' = FALSE
    /\ UNCHANGED <<data, entities>>
    /\ Told

\* A report, telemetry, or the optimistic update after a command.
Refreshes ==
    /\ data' \in Data
    /\ UNCHANGED <<up, entities>>
    /\ Told

Tells == UNCHANGED <<hubVars, entities>> /\ Told

\* add_listener, and Home Assistant writes the first state.
Attach ==
    /\ entities = "adding" /\ entities' = "attached"
    /\ UNCHANGED hubVars
    /\ Write

Detach ==
    /\ entities = "attached" /\ entities' = "removed"
    /\ UNCHANGED <<hubVars, seen>>

Next == Rises \/ Falls \/ Refreshes \/ Tells \/ Attach \/ Detach

Spec == Init /\ [][Next]_vars

\* Again and again the entities show exactly what the hub says.
Settles == []<>(entities = "attached" => seen = [up |-> up, data |-> data])
=============================================================================
