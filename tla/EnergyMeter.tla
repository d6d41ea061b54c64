---------------------------- MODULE EnergyMeter ----------------------------
(***************************************************************************)
(* One energy sensor (sensor.py, UgreenEnergySensor) with its integrator   *)
(* (energy.py, PowerIntegrator), on either hub: what is counted while the  *)
(* link breaks, frames stop, readings change, Home Assistant restarts or   *)
(* crashes.                                                                *)
(*                                                                         *)
(* Time passes in ticks.  Instead of the clock the module keeps the ages   *)
(* the code computes from it: of the last frame and of the held reading.   *)
(* Energy is in watts times ticks.                                         *)
(*                                                                         *)
(* External: the hub's link and frames, as the sensor sees them; and Home  *)
(* Assistant, which polls, stores what the sensor shows, and restores it.  *)
(***************************************************************************)
EXTENDS Integers

CONSTANTS
    Powers,      \* the readings of the power key, in watts
    NoPower,     \* no reading: a missing key, _power_w = None
    StaleAfter,  \* BLE_FRAME_STALE_AFTER, in ticks
    PollTicks,   \* the polling interval of Home Assistant
    WattHour,    \* what native_value rounds to
    MaxTicks,    \* bound: how long the sensor is watched
    MaxCrashes   \* bound: how often Home Assistant dies

ASSUME PowerAssumption == Powers \subseteq Int /\ NoPower \notin Int
ASSUME TickAssumption ==
    /\ StaleAfter \in Nat /\ MaxTicks \in Nat /\ MaxCrashes \in Nat
    /\ PollTicks \in Nat \ {0}
    /\ WattHour \in Nat \ {0}

VARIABLES
    transport,  \* "ble" or "cloud"
    phase,      \* "out": not set up; "adding": the hub runs; "in": the sensor too
    up,         \* hub.available
    power,      \* hub.data.get(self._power_key)
    age,        \* hub.last_frame_age, up to StaleAfter + 1, which is also None
    notify,     \* the Bluetooth hub's debounce timer runs
    total,      \* total_kwh
    held,       \* _power_w
    pending,    \* ticks since _since
    polled,     \* ticks since the last poll
    stored,     \* what Home Assistant has stored of the sensor
    ledger,     \* history: every tick at the reading that was held
    overrun,    \* history: ticks held in the current spell without a live reading
    ticks,      \* bounded by MaxTicks
    crashes     \* bounded by MaxCrashes

hubVars == <<up, power, age, notify>>
meterVars == <<total, held, pending>>
history == <<ledger, overrun>>
bounds == <<ticks, crashes>>
vars == <<transport, phase, hubVars, meterVars, polled, stored, history, bounds>>

Saturated(n, bound) == IF n < bound THEN n ELSE bound

\* native_value: whole watt-hours.
Rounded(t) == ((2 * t + WattHour) \div (2 * WattHour)) * WattHour

Init ==
    /\ transport \in {"ble", "cloud"} /\ phase = "out"
    /\ up = FALSE /\ power = NoPower /\ age = StaleAfter + 1 /\ notify = FALSE
    /\ total = 0 /\ held = NoPower /\ pending = 0
    /\ polled = 0 /\ stored = 0 /\ ledger = 0 /\ overrun = 0
    /\ ticks = 0 /\ crashes = 0

-----------------------------------------------------------------------------
\* The tests of _live_power, which reads the hub as it is after the step.
\* (Variant: a silent Bluetooth link is trusted like the cloud's.)
Live(isUp, frameAge) == isUp /\ (transport = "ble" => frameAge =< StaleAfter)
LivePowerWhileUp == IF up' THEN power' ELSE NoPower
LivePower == IF Live(up', age') THEN power' ELSE NoPower

\* A negative reading counts as zero.  (Variant: it is held as it is.)
HoldNegative(p) == p
Hold(p) == IF p = NoPower \/ p > 0 THEN p ELSE 0

Counted(t) == IF held = NoPower THEN 0 ELSE held * t

\* _advance: PowerIntegrator.update counts the time up to now at the held
\* reading, then holds the live one from now on.  (Variant: a new _since only for
\* a new reading.)
AdvanceOnNewReading ==
    /\ total' = total + Counted(pending)
    /\ held' = Hold(LivePower)
    /\ pending' = IF held' = held THEN pending ELSE 0
Advance ==
    /\ total' = total + Counted(pending)
    /\ held' = Hold(LivePower)
    /\ pending' = 0

\* The hub calls its listeners: the sensor is among them once it is set up.
Told == IF phase = "in" THEN Advance ELSE UNCHANGED meterVars

Others == UNCHANGED <<transport, phase, polled, stored, history, bounds>>

-----------------------------------------------------------------------------
(* The hub *)

\* A frame over Bluetooth, with a reading or about something else: the entities
\* are called when the debounce timer fires, if something changed.
BleFrame(p) ==
    /\ transport = "ble" /\ up
    /\ power' = p /\ age' = 0
    /\ notify' = (notify \/ p # power)
    /\ overrun' = 0
    /\ UNCHANGED <<transport, phase, up, meterVars, polled, stored, ledger, bounds>>

DebounceFires ==
    /\ notify /\ notify' = FALSE
    /\ UNCHANGED <<up, power, age>>
    /\ Told
    /\ Others

\* Telemetry from the cloud replaces .data and calls the entities at once.
CloudFrame(p) ==
    /\ transport = "cloud" /\ up
    /\ power' = p
    /\ UNCHANGED <<up, age, notify>>
    /\ Told
    /\ Others

\* A socket that comes or goes calls the entities at once; .data stays.
\* (Variant: they hear of it with the next telemetry.)
SocketChangesSilently ==
    /\ transport = "cloud" /\ phase # "out"
    /\ up' = ~up
    /\ UNCHANGED <<power, age, notify, meterVars>>
    /\ Others
SocketChanges ==
    /\ transport = "cloud" /\ phase # "out"
    /\ up' = ~up
    /\ UNCHANGED <<power, age, notify>>
    /\ Told
    /\ Others

\* A Bluetooth link is there, or gone, before the entities are told ...
LinkChanges ==
    /\ transport = "ble" /\ phase # "out"
    /\ up' = ~up
    /\ overrun' = IF Live(up', age) THEN 0 ELSE overrun
    /\ UNCHANGED <<transport, phase, power, age, notify, meterVars, polled, stored, ledger, bounds>>

\* ... by _schedule_notify(immediate=True), which a control write calls too.
NotifyNow ==
    /\ transport = "ble" /\ phase # "out"
    /\ notify' = FALSE
    /\ UNCHANGED <<up, power, age>>
    /\ Told
    /\ Others

-----------------------------------------------------------------------------
(* Home Assistant *)

\* Time passes, but not beyond a poll that is due.
Tick ==
    /\ ticks < MaxTicks
    /\ phase = "in" => polled < PollTicks
    /\ ticks' = ticks + 1
    /\ age' = Saturated(age + 1, StaleAfter + 1)
    /\ IF phase = "in"
       THEN /\ polled' = polled + 1
            /\ pending' = IF held = NoPower THEN 0 ELSE pending + 1
            /\ overrun' = IF held # NoPower /\ ~Live(up, age') THEN overrun + 1 ELSE overrun
       ELSE UNCHANGED <<polled, pending, overrun>>
    /\ ledger' = ledger + Counted(1)
    /\ UNCHANGED <<transport, phase, up, power, notify, total, held, stored, crashes>>

\* async_update
Poll ==
    /\ phase = "in"
    /\ polled' = 0
    /\ UNCHANGED hubVars
    /\ Advance
    /\ UNCHANGED <<transport, phase, stored, history, bounds>>

\* Home Assistant saves what its sensors show.
Save ==
    /\ phase = "in"
    /\ stored' = Rounded(total)
    /\ UNCHANGED <<transport, phase, hubVars, meterVars, polled, history, bounds>>

\* async_setup_entry: a new hub.
Setup ==
    /\ phase = "out" /\ phase' = "adding"
    /\ up' = FALSE /\ power' = NoPower /\ age' = StaleAfter + 1 /\ notify' = FALSE
    /\ UNCHANGED <<transport, meterVars, polled, stored, history, bounds>>

\* async_added_to_hass: a new integrator, from the stored value.  (Variant: the
\* stored value is not looked at.)
AddedAfresh ==
    /\ phase = "adding" /\ phase' = "in"
    /\ UNCHANGED hubVars
    /\ total' = 0 /\ ledger' = 0
    /\ held' = Hold(LivePower)
    /\ pending' = 0 /\ overrun' = 0 /\ polled' = 0
    /\ UNCHANGED <<transport, stored, bounds>>
Added ==
    /\ phase = "adding" /\ phase' = "in"
    /\ UNCHANGED hubVars
    /\ total' = stored /\ ledger' = stored
    /\ held' = Hold(LivePower)
    /\ pending' = 0 /\ overrun' = 0 /\ polled' = 0
    /\ UNCHANGED <<transport, stored, bounds>>

\* The sensor and its hub are gone; the interval that was running is lost.
Gone ==
    /\ phase' = "out"
    /\ up' = FALSE /\ power' = NoPower /\ age' = StaleAfter + 1 /\ notify' = FALSE
    /\ held' = NoPower /\ pending' = 0 /\ overrun' = 0 /\ polled' = 0
    /\ total' = 0 /\ ledger' = 0
    /\ UNCHANGED <<transport, ticks>>

\* Unloading, reloading or shutting down stores what was shown.
Unload ==
    /\ phase = "in"
    /\ stored' = Rounded(total)
    /\ Gone
    /\ UNCHANGED crashes

\* A crash stores nothing.
Crash ==
    /\ phase # "out" /\ crashes < MaxCrashes
    /\ crashes' = crashes + 1
    /\ Gone
    /\ UNCHANGED stored

Next ==
    \/ \E p \in Powers \cup {power} : BleFrame(p)
    \/ \E p \in Powers \cup {NoPower} : CloudFrame(p)
    \/ DebounceFires \/ SocketChanges \/ LinkChanges \/ NotifyNow
    \/ Tick \/ Poll \/ Save
    \/ Setup \/ Added \/ Unload \/ Crash

Spec == Init /\ [][Next]_vars
-----------------------------------------------------------------------------
HubOK ==
    /\ transport \in {"ble", "cloud"} /\ phase \in {"out", "adding", "in"}
    /\ up \in BOOLEAN /\ notify \in BOOLEAN
    /\ power \in Powers \cup {NoPower}
    /\ age \in 0 .. StaleAfter + 1

MeterOK ==
    /\ total \in Nat /\ ledger \in Nat /\ stored \in Nat
    /\ held \in Nat \cup {NoPower}
    /\ polled \in 0 .. PollTicks
    /\ pending \in 0 .. polled /\ overrun \in Nat

\* Totals and held readings are never negative, whatever PowerIntegrator.update is
\* fed; no interval is longer than a poll.
TypeOK == HubOK /\ MeterOK

\* What the sensor shows, or would show again.
Shown == IF phase = "in" THEN Rounded(total) ELSE stored

\* "The total never goes down", which total_increasing promises of native_value:
\* not by any reading, not when the integrator is started over from a rounded value.  Only
\* a crash may take back what was never stored.
TotalNeverFalls == [][crashes' = crashes => Shown' >= Shown]_vars

\* The intervals that _advance counts neither overlap nor leave a gap, however polls, reports,
\* breaks of the link and reconnects interleave: what is counted, and what is
\* still running, is every tick at the reading that was held then.
EveryTickOnce == phase = "in" => total + Counted(pending) = ledger

\* Time without a live reading is not guessed at, but for one interval: from the
\* moment _live_power would find a Bluetooth link silent, or gone before anybody was
\* told, to the next async_update at the latest.
OverrunBounded == overrun =< PollTicks

\* The cloud hub does not leave even that: while its socket is down nothing is held,
\* because it calls the entities in the step in which it goes down, and a sensor
\* that is added later starts with nothing.
NothingHeldWhileDown == transport = "cloud" /\ held # NoPower => up
=============================================================================
