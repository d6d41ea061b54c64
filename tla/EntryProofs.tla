---------------------------- MODULE EntryProofs ----------------------------
(***************************************************************************)
(* Proofs about Entry, for both transports and any number of hubs and      *)
(* platforms.  A hub that runs while none is being set up or loaded has to *)
(* be one of the dropped ones, and a stopping one holds up its unload over *)
(* Bluetooth: with what each stage knows about the hub stored, that is     *)
(* inductive.                                                              *)
(***************************************************************************)
EXTENDS Entry, TLAPS

\* What the entry's state and the stage of its set-up or unload say of the hub
\* stored and of the entities.
Stages ==
    /\ stage \in {"login", "forwarding"} => state = "setup_in_progress"
    /\ stage \in {"unloading", "stopping"} => state = "loaded"
    /\ stage = "none" => state # "setup_in_progress"
    /\ stage = "login" =>
        transport = "cloud" /\ \A i \in Hubs : hubs[i] = "running" => i \in dropped
    /\ stage = "stopping" => stored = 0
    /\ stage \in {"forwarding", "unloading"} => stored # 0 /\ hubs[stored] = "running"
    /\ stage = "none" /\ state = "loaded" => stored # 0 /\ hubs[stored] = "running"
    /\ (stage \in {"login", "stopping"} \/ state \in {"not_loaded", "setup_retry", "setup_error"})
        => \A p \in Platforms : attached[p] = 0

Links ==
    /\ link # 0 => transport = "ble" /\ hubs[link] \in {"running", "stopping", "stopped"}
    /\ transport = "ble" => \A i \in Hubs : hubs[i] = "stopping" => stage = "stopping"

Fresh == \A i \in Hubs : i > made => hubs[i] = "none"

IInv ==
    /\ TypeOK /\ Fresh /\ Stages /\ Links
    /\ EntitiesHaveTheirHub /\ RunningIsReachable /\ LinkIsFree

\* The first hub of all: none runs before the entry is set up.
LEMMA Initially == Init => IInv
BY BoundAssumption
   DEF Init, IInv, TypeOK, Fresh, Stages, Links, EntitiesHaveTheirHub, RunningIsReachable,
       LinkIsFree, Hubs

\* A hub is made only when every hub that still runs was dropped, whatever led to it.
LEMMA HubIsMade ==
    ASSUME IInv, HubStarts, (transport = "ble" /\ SetupBegins) \/ stage = "login"
    PROVE  IInv'
<1> USE BoundAssumption DEF Hubs
<1>1. made + 1 \in Hubs /\ made' = made + 1 /\ stored' = made + 1 /\ stored' # 0
    BY DEF IInv, TypeOK, HubStarts
<1>2. \A i \in Hubs : hubs'[i] = IF i = made + 1 THEN "running" ELSE hubs[i]
    BY <1>1 DEF IInv, TypeOK, HubStarts
<1>3. \A i \in Hubs : hubs[i] = "running" => i \in dropped
    BY DEF IInv, Stages, RunningIsReachable, SetupBegins
<1>4. \A p \in Platforms : attached[p] = 0
    BY DEF IInv, Stages, SetupBegins
<1>5. TypeOK'
    BY <1>1 DEF IInv, TypeOK, HubStarts
<1>6. Fresh'
    BY <1>1, <1>2 DEF IInv, Fresh, TypeOK
<1>7. Stages'
    BY <1>1, <1>2, <1>4 DEF Stages, HubStarts
<1>8. ASSUME link # 0
      PROVE  link \in Hubs /\ hubs[link] # "none" /\ (link \in dropped \/ hubs[link] = "stopped")
    <2>1. link \in Hubs /\ transport = "ble" /\ hubs[link] \in {"running", "stopping", "stopped"}
        BY <1>8 DEF IInv, Links, TypeOK
    <2>2. stage # "stopping"
        BY DEF SetupBegins
    <2>3. hubs[link] # "stopping"
        BY <2>1, <2>2 DEF IInv, Links
    <2> QED BY <1>3, <2>1, <2>3
<1>9. Links'
    <2>1. link' = link /\ transport' = transport /\ stage # "stopping"
        BY DEF HubStarts, SetupBegins
    <2>2. link # 0 => link # made + 1
        BY <1>1, <1>8 DEF IInv, Fresh, TypeOK
    <2> QED BY <1>1, <1>2, <1>8, <2>1, <2>2 DEF IInv, Links
<1>10. EntitiesHaveTheirHub'
    BY <1>4 DEF EntitiesHaveTheirHub, HubStarts
<1>11. RunningIsReachable'
    BY <1>1, <1>2, <1>3 DEF RunningIsReachable, HubStarts
<1>12. LinkIsFree'
    <2>1. link # 0 => link # made + 1
        BY <1>1, <1>8 DEF IInv, Fresh, TypeOK
    <2> QED BY <1>1, <1>2, <1>8, <2>1 DEF LinkIsFree, HubStarts
<1> QED BY <1>5, <1>6, <1>7, <1>9, <1>10, <1>11, <1>12 DEF IInv

\* What async_setup_entry does once a hub, or no hub, is there keeps the invariant.
LEMMA SetupKeeps ==
    ASSUME IInv,
           NotVisible \/ SetupCloud \/ LoginFails \/ SetupDone \/ ForwardFails
           \/ \E p \in Platforms : PlatformAdded(p)
    PROVE  IInv'
<1> USE BoundAssumption
    DEF IInv, TypeOK, Fresh, Stages, Links, EntitiesHaveTheirHub, RunningIsReachable, LinkIsFree, Hubs
<1>1. CASE NotVisible BY <1>1 DEF NotVisible, SetupBegins, SetupEnds
<1>2. CASE SetupCloud BY <1>2 DEF SetupCloud, SetupBegins
<1>3. CASE LoginFails BY <1>3 DEF LoginFails, SetupEnds
<1>4. CASE SetupDone BY <1>4 DEF SetupDone, SetupEnds
<1>5. CASE ForwardFails BY <1>5 DEF ForwardFails, SetupEnds
<1>6. ASSUME NEW p \in Platforms, PlatformAdded(p) PROVE IInv'
    BY <1>6 DEF PlatformAdded
<1> QED BY <1>1, <1>2, <1>3, <1>4, <1>5, <1>6

\* So does what async_unload_entry does.
LEMMA UnloadKeeps ==
    ASSUME IInv,
           Forgotten \/ UnloadBegins \/ UnloadOk \/ UnloadRefused \/ StopReturns
           \/ \E p \in Platforms : PlatformRemoved(p)
    PROVE  IInv'
<1> USE BoundAssumption
    DEF IInv, TypeOK, Fresh, Stages, Links, EntitiesHaveTheirHub, RunningIsReachable, LinkIsFree, Hubs
<1>1. CASE Forgotten BY <1>1 DEF Forgotten
<1>2. CASE UnloadBegins BY <1>2 DEF UnloadBegins
<1>3. CASE UnloadOk BY <1>3 DEF UnloadOk
<1>4. CASE UnloadRefused BY <1>4 DEF UnloadRefused, SetupEnds
<1>5. CASE StopReturns BY <1>5 DEF StopReturns, SetupEnds
<1>6. ASSUME NEW p \in Platforms, PlatformRemoved(p) PROVE IInv'
    BY <1>6 DEF PlatformRemoved
<1> QED BY <1>1, <1>2, <1>3, <1>4, <1>5, <1>6

\* And the hubs and the unit.
LEMMA HubsKeep ==
    ASSUME IInv, LinkDown \/ \E i \in Hubs : HubEnds(i) \/ LinkUp(i)
    PROVE  IInv'
<1> USE BoundAssumption
    DEF IInv, TypeOK, Fresh, Stages, Links, EntitiesHaveTheirHub, RunningIsReachable, LinkIsFree, Hubs
<1>1. CASE LinkDown BY <1>1 DEF LinkDown
<1>2. ASSUME NEW i \in Hubs, HubEnds(i) PROVE IInv'
    BY <1>2 DEF HubEnds
<1>3. ASSUME NEW i \in Hubs, LinkUp(i) PROVE IInv'
    BY <1>3 DEF LinkUp
<1> QED BY <1>1, <1>2, <1>3

\* Every step keeps the invariant.
LEMMA Inductive == IInv /\ [Next]_vars => IInv'
<1> SUFFICES ASSUME IInv, [Next]_vars PROVE IInv'
    OBVIOUS
<1>1. CASE UNCHANGED vars
    BY <1>1 DEF vars, IInv, TypeOK, Fresh, Stages, Links, EntitiesHaveTheirHub,
                RunningIsReachable, LinkIsFree
<1>2. CASE SetupBle \/ LoginSucceeds
    BY <1>2, HubIsMade DEF SetupBle, LoginSucceeds
<1>3. CASE Next
    BY <1>2, <1>3, SetupKeeps, UnloadKeeps, HubsKeep DEF Next
<1> QED BY <1>1, <1>3

LEMMA Invariance == Spec => []IInv
BY Initially, Inductive, PTL DEF Spec

\* The types; and what the platforms and an unload look up in hass.data is there.
THEOREM TypeCorrect == Spec => []TypeOK
BY Invariance, PTL DEF IInv

\* Through set-ups, failures, reloads and refused unloads, no entity ever listens to
\* a hub that is stopped or was replaced.
THEOREM EntitiesAlwaysHaveTheirHub == Spec => []EntitiesHaveTheirHub
BY Invariance, PTL DEF IInv

\* No hub is left running out of an unload's reach, but for a failed forwarding.
THEOREM RunningAlwaysReachable == Spec => []RunningIsReachable
BY Invariance, PTL DEF IInv

\* However often the entry is set up, reloaded and unloaded, its hub never competes
\* for the unit's one link with the loop of an earlier hub, but for a dropped one's;
\* only a link left over by a failed disconnect of an ended hub can be in its way.
THEOREM LinkAlwaysFree == Spec => []LinkIsFree
BY Invariance, PTL DEF IInv
=============================================================================
