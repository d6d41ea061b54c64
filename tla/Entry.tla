------------------------------- MODULE Entry -------------------------------
(***************************************************************************)
(* The life of one config entry (__init__.py): set up, retried, reloaded   *)
(* and unloaded by Home Assistant, with a hub made by every set-up.        *)
(*                                                                         *)
(* A hub is running, stopping (stop() was called and its loop task has not *)
(* ended) or stopped; how it gets from one to the other is BleLink's and   *)
(* CloudHub's.  The unit takes one Bluetooth link at a time: `link' is the *)
(* hub that has it.                                                        *)
(*                                                                         *)
(* External: Home Assistant.  It makes one of set-up and unload wait for   *)
(* the other, sets an entry up again after ConfigEntryNotReady only, and   *)
(* unloads an entry that is not loaded without asking the integration.     *)
(***************************************************************************)
EXTENDS Integers

CONSTANTS
    Platforms,  \* PLATFORMS
    MaxHubs     \* bound: how many hubs are made

ASSUME BoundAssumption == MaxHubs \in Nat

VARIABLES
    transport, \* what the entry was made for: "ble" or "cloud"
    state,     \* the entry's state
    stage,     \* where async_setup_entry or async_unload_entry is suspended
    made,      \* how many hubs were made
    hubs,      \* what each of them is doing
    stored,    \* hass.data[DOMAIN][entry_id]["hub"], or 0
    attached,  \* [Platforms -> the hub its entities listen to, or 0]
    link,      \* the hub that has the unit's link, or 0
    dropped    \* history: the hubs of set-ups whose forwarding failed

vars == <<transport, state, stage, made, hubs, stored, attached, link, dropped>>

Hubs == 1 .. MaxHubs

Init ==
    /\ transport \in {"ble", "cloud"}
    /\ state = "not_loaded" /\ stage = "none"
    /\ made = 0 /\ hubs = [i \in Hubs |-> "none"] /\ stored = 0
    /\ attached = [p \in Platforms |-> 0]
    /\ link = 0 /\ dropped = {}

-----------------------------------------------------------------------------
(* async_setup_entry *)

\* The hub is made, started and stored.  (Variant: stored after forwarding.)
HubStartsUnstored ==
    /\ made < MaxHubs
    /\ made' = made + 1
    /\ hubs' = [hubs EXCEPT ![made'] = "running"]
    /\ stage' = "forwarding" /\ state' = "setup_in_progress"
    /\ UNCHANGED <<stored, attached, link, dropped, transport>>

HubStarts ==
    /\ made < MaxHubs
    /\ made' = made + 1 /\ stored' = made'
    /\ hubs' = [hubs EXCEPT ![made'] = "running"]
    /\ stage' = "forwarding" /\ state' = "setup_in_progress"
    /\ UNCHANGED <<attached, link, dropped, transport>>

\* Home Assistant sets the entry up: at its start, by a reload, or again after a
\* ConfigEntryNotReady.
SetupBegins == stage = "none" /\ state \in {"not_loaded", "setup_retry"}

SetupBle == transport = "ble" /\ SetupBegins /\ HubStarts

SetupEnds(result) ==
    /\ stage' = "none" /\ state' = result
    /\ UNCHANGED <<made, hubs, stored, attached, link>>

\* No adapter sees the unit: ConfigEntryNotReady.
NotVisible ==
    /\ transport = "ble" /\ SetupBegins
    /\ SetupEnds("setup_retry")
    /\ UNCHANGED <<dropped, transport>>

SetupCloud ==
    /\ transport = "cloud" /\ SetupBegins
    /\ stage' = "login" /\ state' = "setup_in_progress"
    /\ UNCHANGED <<made, hubs, stored, attached, link, dropped, transport>>

LoginSucceeds == stage = "login" /\ HubStarts

\* Refused credentials are a ConfigEntryAuthFailed; what else a login raises is
\* caught by nobody.  Neither is tried again.
LoginFails == stage = "login" /\ SetupEnds("setup_error") /\ UNCHANGED <<dropped, transport>>

PlatformAdded(p) ==
    /\ stage = "forwarding" /\ attached[p] = 0
    /\ attached' = [attached EXCEPT ![p] = stored]
    /\ UNCHANGED <<state, stage, made, hubs, stored, link, dropped, transport>>

SetupDone ==
    /\ stage = "forwarding" /\ \A p \in Platforms : attached[p] # 0
    /\ SetupEnds("loaded")
    /\ UNCHANGED <<dropped, transport>>

\* Forwarding raises, as a platform cannot be imported: the hub runs on.
ForwardFails ==
    /\ stage = "forwarding" /\ \A p \in Platforms : attached[p] = 0
    /\ SetupEnds("setup_error")
    /\ dropped' = dropped \cup {stored}
    /\ UNCHANGED transport

(* async_unload_entry *)

\* An entry that is not loaded is only marked so.
Forgotten ==
    /\ stage = "none" /\ state \in {"setup_error", "setup_retry"}
    /\ state' = "not_loaded"
    /\ UNCHANGED <<stage, made, hubs, stored, attached, link, dropped, transport>>

UnloadBegins ==
    /\ stage = "none" /\ state = "loaded"
    /\ stage' = "unloading"
    /\ UNCHANGED <<state, made, hubs, stored, attached, link, dropped, transport>>

PlatformRemoved(p) ==
    /\ stage = "unloading" /\ attached[p] # 0
    /\ attached' = [attached EXCEPT ![p] = 0]
    /\ UNCHANGED <<state, stage, made, hubs, stored, link, dropped, transport>>

\* async_unload_platforms returned True: the hub is popped and stopped, which the
\* Bluetooth hub makes the unload wait for.  (Variants: it does not; the hub is
\* popped and not stopped; it is stopped whatever the platforms said.)
UnloadAtOnce ==
    /\ stage = "unloading" /\ \A p \in Platforms : attached[p] = 0
    /\ hubs' = [hubs EXCEPT ![stored] = "stopping"]
    /\ stored' = 0
    /\ stage' = "none" /\ state' = "not_loaded"
    /\ UNCHANGED <<made, attached, link, dropped, transport>>

UnloadForgets ==
    /\ stage = "unloading" /\ \A p \in Platforms : attached[p] = 0
    /\ stored' = 0
    /\ stage' = "none" /\ state' = "not_loaded"
    /\ UNCHANGED <<made, hubs, attached, link, dropped, transport>>

UnloadAnyway ==
    /\ stage = "unloading"
    /\ hubs' = [hubs EXCEPT ![stored] = "stopping"]
    /\ stored' = 0
    /\ IF transport = "ble" THEN stage' = "stopping" /\ UNCHANGED state
                            ELSE stage' = "none" /\ state' = "not_loaded"
    /\ UNCHANGED <<made, attached, link, dropped, transport>>

UnloadOk ==
    /\ stage = "unloading" /\ \A p \in Platforms : attached[p] = 0
    /\ hubs' = [hubs EXCEPT ![stored] = "stopping"]
    /\ stored' = 0
    /\ IF transport = "ble" THEN stage' = "stopping" /\ UNCHANGED state
                            ELSE stage' = "none" /\ state' = "not_loaded"
    /\ UNCHANGED <<made, attached, link, dropped, transport>>

\* It returned False: a platform stayed, and so does the hub.
UnloadRefused ==
    /\ stage = "unloading" /\ \E p \in Platforms : attached[p] # 0
    /\ SetupEnds("failed_unload")
    /\ UNCHANGED <<dropped, transport>>

\* The loop task of a stopped hub ends.  Its link is closed, or left over when the
\* disconnect failed or was cancelled, which is suppressed (BleLink's `orphan').
HubEnds(i) ==
    /\ hubs[i] = "stopping"
    /\ hubs' = [hubs EXCEPT ![i] = "stopped"]
    /\ link' \in {link, IF link = i THEN 0 ELSE link}
    /\ UNCHANGED <<state, stage, made, stored, attached, dropped, transport>>

StopReturns ==
    /\ stage = "stopping" /\ \A i \in Hubs : hubs[i] # "stopping"
    /\ SetupEnds("not_loaded")
    /\ UNCHANGED <<dropped, transport>>

(* The unit *)

\* A connect under way when its hub is stopped may still get through.
LinkUp(i) ==
    /\ transport = "ble" /\ hubs[i] \in {"running", "stopping"} /\ link = 0
    /\ link' = i
    /\ UNCHANGED <<state, stage, made, hubs, stored, attached, dropped, transport>>

LinkDown ==
    /\ link # 0
    /\ link' = 0
    /\ UNCHANGED <<state, stage, made, hubs, stored, attached, dropped, transport>>

Next ==
    \/ SetupBle \/ NotVisible \/ SetupCloud \/ LoginSucceeds \/ LoginFails \/ SetupDone
    \/ ForwardFails \/ Forgotten \/ UnloadBegins \/ UnloadOk \/ UnloadRefused \/ StopReturns
    \/ LinkDown
    \/ \E p \in Platforms : PlatformAdded(p) \/ PlatformRemoved(p)
    \/ \E i \in Hubs : HubEnds(i) \/ LinkUp(i)

Spec == Init /\ [][Next]_vars

-----------------------------------------------------------------------------
\* Types; and the platforms, and an unload, find the hub they look up in hass.data:
\* it is stored before the platforms are forwarded and popped after they are gone.
TypeOK ==
    /\ transport \in {"ble", "cloud"}
    /\ state \in {"not_loaded", "setup_in_progress", "setup_retry", "setup_error", "loaded",
                  "failed_unload"}
    /\ stage \in {"none", "login", "forwarding", "unloading", "stopping"}
    /\ made \in 0 .. MaxHubs
    /\ hubs \in [Hubs -> {"none", "running", "stopping", "stopped"}]
    /\ stored \in 0 .. MaxHubs
    /\ stage \in {"forwarding", "unloading"} => stored # 0
    /\ stage = "none" /\ state = "loaded" => stored # 0
    /\ link \in 0 .. MaxHubs
    /\ attached \in [Platforms -> 0 .. MaxHubs]
    /\ dropped \subseteq Hubs

\* No entity listens (sensor.py:105) to a hub that is stopped or was replaced: the platforms go
\* before the hub, and a platform that stays keeps it.
EntitiesHaveTheirHub ==
    \A p \in Platforms : attached[p] # 0 =>
        attached[p] = stored /\ hubs[attached[p]] = "running"

\* Every hub that runs is reached by async_unload_entry, but for those of
\* set-ups whose forwarding failed.
RunningIsReachable ==
    \A i \in Hubs : hubs[i] = "running" =>
        \/ i \in dropped
        \/ i = stored /\ state \in {"setup_in_progress", "loaded", "failed_unload"}

\* The hub of the entry never competes for the unit's only link with the hub of an
\* earlier set-up that is still at work, but for a dropped one: an unload waits for
\* stop().  What can be in its way is the mere link of a hub that has ended, left
\* over by a disconnect that failed, until the unit drops it.
LinkIsFree ==
    stored # 0 => link \in {0, stored} \cup dropped \/ hubs[link] = "stopped"
=============================================================================
