------------------------------ MODULE BleLink ------------------------------
(***************************************************************************)
(* The connection side of UgreenBleDevice (ble.py): the reconnect loop     *)
(* _run / _connect_once, the disconnect callback, the coalesced listener   *)
(* notifications, a control write in flight, and stop().                   *)
(*                                                                         *)
(* Everything runs on one asyncio event loop, so an action is what happens *)
(* between two awaits.  The interleavings are those of the loop task, the  *)
(* caller of stop(), a caller of set_device_info(), the callbacks of bleak *)
(* and the timer.  Cancelling a task is delivered at its next resumption,  *)
(* whatever it was waiting for: `cancel' is that pending request.          *)
(*                                                                         *)
(* External: bleak's establish_connection, start_notify, write_gatt_char   *)
(* and disconnect, and the unit, which keeps one link at a time.           *)
(***************************************************************************)
EXTENDS Integers

CONSTANTS
    Data,          \* the contents .data can have once a report has arrived
    NoReading,     \* .data before any report: the empty dictionary
    BackoffStart,  \* BLE_RECONNECT_BACKOFF_START, in seconds
    BackoffMax     \* BLE_RECONNECT_BACKOFF_MAX, in seconds

ASSUME DataAssumption == NoReading \notin Data
ASSUME BackoffAssumption ==
    /\ BackoffStart \in Nat \ {0}
    /\ BackoffMax \in Nat
    /\ BackoffStart =< BackoffMax

VARIABLES
    pc,        \* where the loop task is suspended
    cause,     \* how the last connection ended: its exception or its return
    backoff,   \* the wait before the next attempt
    cancel,    \* a CancelledError waits to be thrown into the loop task
    client,    \* self._client is not None
    link,      \* "up": the current client's; "orphan": a forgotten client's
    event,     \* self._disconnected is set
    posted,    \* a disconnect callback has queued self._disconnected.set
    known,     \* self.sn is not None
    data,      \* self.data
    timer,     \* self._notify_handle is not None
    entities,  \* the platforms: "adding", "attached" or "removed"
    seen,      \* what the entities last wrote to Home Assistant
    command,   \* set_device_info: "idle" or "writing"
    stopPc     \* stop(): "no", "awaiting" the loop task, or "done"

taskVars == <<pc, cause, backoff, cancel>>
linkVars == <<client, link, event, posted>>
cacheVars == <<known, data>>
tellVars == <<timer, entities, seen>>
vars == <<taskVars, linkVars, cacheVars, tellVars, command, stopPc>>

InLink == {"subscribing", "asking", "waiting"}
Readings == Data \cup {NoReading}
stopped == stopPc # "no"

\* UgreenBleDevice.available
Available == client /\ link = "up"

\* The types, in three parts: stages and the wait, flags, and readings.
StagesOK ==
    /\ pc \in InLink \cup {"new", "connecting", "connected", "closing",
                           "sleeping", "done"}
    /\ cause \in {"none", "lost", "error", "cancelled"}
    /\ backoff \in BackoffStart .. BackoffMax
    /\ link \in {"none", "up", "orphan"}
    /\ entities \in {"adding", "attached", "removed"}
    /\ command \in {"idle", "writing"}
    /\ stopPc \in {"no", "awaiting", "done"}

FlagsOK ==
    /\ cancel \in BOOLEAN /\ client \in BOOLEAN /\ event \in BOOLEAN
    /\ posted \in BOOLEAN /\ known \in BOOLEAN /\ timer \in BOOLEAN

ReadingsOK == data \in Readings /\ seen \in [up : BOOLEAN, data : Readings]

TypeOK == StagesOK /\ FlagsOK /\ ReadingsOK

\* __init__ followed by start(): the task exists and has not run yet.
Init ==
    /\ pc = "new" /\ cause = "none" /\ backoff = BackoffStart /\ cancel = FALSE
    /\ client = FALSE /\ link = "none" /\ event = FALSE /\ posted = FALSE
    /\ known \in BOOLEAN /\ data = NoReading
    /\ timer = FALSE /\ entities = "adding"
    /\ seen = [up |-> FALSE, data |-> NoReading]
    /\ command = "idle" /\ stopPc = "no"

-----------------------------------------------------------------------------
(* Notifications *)

\* What an entity writes when it is called: .available and .data as they are.
Written == [up |-> client' /\ link' = "up", data |-> data']

\* _notify_listeners: only entities still attached are in the list.
NotifyListeners == seen' = IF entities = "attached" THEN Written ELSE seen

\* _schedule_notify(immediate=True): any pending timer is cancelled.
NotifyNow == timer' = FALSE /\ NotifyListeners

\* _schedule_notify._fire
TimerFires ==
    /\ timer
    /\ UNCHANGED <<taskVars, linkVars, cacheVars, entities, command, stopPc>>
    /\ NotifyNow

-----------------------------------------------------------------------------
(* The loop task *)

\* The test at the head of the loop and before its sleep.  (Variant: `while True',
\* which leaves ending to the cancellation.)
MayGoOnForEver == TRUE
MayGoOn == ~stopped

\* What _run does once _connect_once has ended with `how' outside the link.
AfterAttempt(how) ==
    /\ cause' = how
    /\ backoff' = IF how = "lost" THEN BackoffStart ELSE backoff
    /\ pc' = IF MayGoOn /\ how # "cancelled" THEN "sleeping" ELSE "done"

\* Variant: without the maximum.
DoubledUncapped(b) == 2 * b
Doubled(b) == IF 2 * b < BackoffMax THEN 2 * b ELSE BackoffMax

\* The sleep is over (or the task starts): no adapter sees the unit, or the
\* event is cleared and establish_connection is awaited.  (MayGoOn never fails
\* here: a stop() during the sleep has cancelled it.)
StartsAttempt ==
    /\ pc \in {"new", "sleeping"} /\ ~cancel /\ MayGoOn
    /\ backoff' = IF pc = "sleeping" THEN Doubled(backoff) ELSE backoff
    /\ UNCHANGED <<cancel, client, link, posted, cacheVars, tellVars, command, stopPc>>

AttemptVisible ==
    /\ StartsAttempt
    /\ event' = FALSE
    /\ pc' = "connecting"
    /\ UNCHANGED cause

AttemptInvisible ==
    /\ StartsAttempt
    /\ pc' = "sleeping" /\ cause' = "error"
    /\ UNCHANGED event

EstablishFails ==
    /\ pc = "connecting" /\ ~cancel
    /\ AfterAttempt("error")
    /\ UNCHANGED <<cancel, linkVars, cacheVars, tellVars, command, stopPc>>

\* establish_connection has a connected client; the task has not resumed yet.
UnitAccepts ==
    /\ pc = "connecting" /\ link = "none"
    /\ pc' = "connected" /\ link' = "up"
    /\ UNCHANGED <<cause, backoff, cancel, client, event, posted, known, data,
                   tellVars, command, stopPc>>

\* establish_connection retries by itself: a link that came up and broke inside
\* it has the same disconnected_callback.
AttemptDrops ==
    /\ pc = "connecting" /\ ~posted
    /\ posted' = TRUE
    /\ UNCHANGED <<taskVars, client, link, event, cacheVars, tellVars, command, stopPc>>

\* Variant: the event is cleared after the connect, not before it.
ConnectedClears ==
    /\ pc = "connected" /\ ~cancel
    /\ client' = TRUE /\ pc' = "subscribing" /\ event' = FALSE
    /\ UNCHANGED <<cause, backoff, cancel, link, posted, cacheVars,
                   tellVars, command, stopPc>>

Connected ==
    /\ pc = "connected" /\ ~cancel
    /\ client' = TRUE /\ pc' = "subscribing"
    /\ UNCHANGED <<cause, backoff, cancel, link, event, posted, cacheVars,
                   tellVars, command, stopPc>>

\* start_notify returned: tell the entities, and ask for the serial unless it
\* is known or the link has gone in the meantime.  (Variant: tell nobody.)
SubscribedSilently ==
    /\ pc = "subscribing" /\ ~cancel
    /\ pc' = IF known \/ ~Available THEN "waiting" ELSE "asking"
    /\ UNCHANGED <<cause, backoff, cancel, linkVars, cacheVars, tellVars, command, stopPc>>

Subscribed ==
    /\ pc = "subscribing" /\ ~cancel
    /\ pc' = IF known \/ ~Available THEN "waiting" ELSE "asking"
    /\ UNCHANGED <<cause, backoff, cancel, linkVars, cacheVars, entities, command, stopPc>>
    /\ NotifyNow

\* The serial was asked for, or the write failed with a suppressed error.
Asked ==
    /\ pc = "asking" /\ ~cancel
    /\ pc' = "waiting"
    /\ UNCHANGED <<cause, backoff, cancel, linkVars, cacheVars, tellVars, command, stopPc>>

\* _disconnect, up to its await: forget the client, then tell the entities.
\* (Variant: tell nobody.)
CloseSilently(how) ==
    /\ cause' = how
    /\ pc' = "closing"
    /\ client' = FALSE
    /\ UNCHANGED <<backoff, link, event, posted, cacheVars, tellVars, command, stopPc>>

Close(how) ==
    /\ cause' = how
    /\ pc' = "closing"
    /\ client' = FALSE
    /\ UNCHANGED <<backoff, link, event, posted, cacheVars, entities, command, stopPc>>
    /\ NotifyNow

\* start_notify raises, or the serial request fails with an error that is not
\* suppressed.
LinkError == pc \in {"subscribing", "asking"} /\ ~cancel /\ Close("error") /\ UNCHANGED cancel

WaitReturns == pc = "waiting" /\ event /\ ~cancel /\ Close("lost") /\ UNCHANGED cancel

\* client.disconnect() is over: it returned, failed with a suppressed error, or
\* a CancelledError was suppressed.  In the last two the link may survive.
DisconnectReturns ==
    /\ pc = "closing"
    /\ cancel' = FALSE
    /\ link' = IF link = "up" THEN "orphan" ELSE link
    /\ AfterAttempt(cause)
    /\ UNCHANGED <<client, event, posted, cacheVars, tellVars, command, stopPc>>

\* The cancellation reaches the task while it owns a client ...  (Variant: only
\* `except Exception' disconnects, there is no finally.)
CancelledWithoutFinally ==
    /\ cancel /\ pc \in InLink
    /\ cancel' = FALSE
    /\ AfterAttempt("cancelled")
    /\ UNCHANGED <<linkVars, cacheVars, tellVars, command, stopPc>>

CancelledInLink == cancel /\ pc \in InLink /\ Close("cancelled") /\ cancel' = FALSE

\* ... or while it owns none: the exception leaves _run.  A cancelled
\* establish_connection closes its own link.
CancelledOutside ==
    /\ cancel /\ pc \in {"new", "connecting", "connected", "sleeping"}
    /\ cancel' = FALSE
    /\ link' = IF link = "up" THEN "none" ELSE link
    /\ AfterAttempt("cancelled")
    /\ UNCHANGED <<client, event, posted, cacheVars, tellVars, command, stopPc>>

Task ==
    \/ AttemptVisible \/ AttemptInvisible \/ EstablishFails \/ Connected
    \/ Subscribed \/ Asked \/ LinkError \/ WaitReturns \/ DisconnectReturns
    \/ CancelledInLink \/ CancelledOutside

-----------------------------------------------------------------------------
(* bleak and the unit *)

\* The link breaks or is closed; bleak calls _on_disconnect.
Drops(kind) ==
    /\ link = kind
    /\ link' = "none" /\ posted' = TRUE
    /\ UNCHANGED <<taskVars, client, event, cacheVars, tellVars, command, stopPc>>

LinkDrops == Drops("up")
OrphanDrops == Drops("orphan")

\* The queued self._disconnected.set runs.
EventSet ==
    /\ posted
    /\ posted' = FALSE /\ event' = TRUE
    /\ UNCHANGED <<taskVars, client, link, cacheVars, tellVars, command, stopPc>>

\* _on_notify: a report with contents v, possibly the answer to the serial
\* request.  The callback belongs to the subscription, so it runs until the
\* link is really gone, _client or not.
OnNotify(v) ==
    /\ \/ link = "up" /\ pc \in InLink \cup {"closing"}
       \/ link = "orphan"
    /\ data' = v
    /\ known' \in {known, TRUE}
    /\ timer' = (timer \/ v # data)
    /\ UNCHANGED <<taskVars, linkVars, entities, seen, command, stopPc>>

-----------------------------------------------------------------------------
(* Home Assistant *)

\* async_added_to_hass, then Home Assistant writes the first state.
Attach ==
    /\ entities = "adding" /\ ~stopped
    /\ entities' = "attached"
    /\ UNCHANGED <<taskVars, linkVars, cacheVars, timer, command, stopPc>>
    /\ seen' = Written

\* async_unload_entry removes the platforms before it stops the hub.
Detach ==
    /\ entities = "attached"
    /\ entities' = "removed"
    /\ UNCHANGED <<taskVars, linkVars, cacheVars, timer, seen, command, stopPc>>

CommandSent ==
    /\ command = "idle" /\ Available
    /\ command' = "writing"
    /\ UNCHANGED <<taskVars, linkVars, cacheVars, tellVars, stopPc>>

\* The write was answered: the new value is cached and shown at once.
CommandDone(v) ==
    /\ command = "writing"
    /\ command' = "idle"
    /\ data' = v
    /\ UNCHANGED <<taskVars, linkVars, known, entities, stopPc>>
    /\ NotifyNow

CommandFails ==
    /\ command = "writing"
    /\ command' = "idle"
    /\ UNCHANGED <<taskVars, linkVars, cacheVars, tellVars, stopPc>>

\* stop(), up to `await self._task'.
StopCalled ==
    /\ ~stopped /\ entities = "removed"
    /\ stopPc' = "awaiting"
    /\ timer' = FALSE
    /\ cancel' = (pc # "done")
    /\ UNCHANGED <<pc, cause, backoff, linkVars, cacheVars, entities, seen, command>>

\* The task has ended: stop() calls _disconnect itself and returns.  (Variant: it
\* does not wait for the task.)
StopReturnsAtOnce ==
    /\ stopPc = "awaiting"
    /\ stopPc' = "done"
    /\ client' = FALSE
    /\ link' = IF Available THEN "orphan" ELSE link
    /\ UNCHANGED <<taskVars, event, posted, cacheVars, entities, command>>
    /\ IF client THEN NotifyNow ELSE UNCHANGED <<timer, seen>>

StopReturns ==
    /\ stopPc = "awaiting" /\ pc = "done"
    /\ stopPc' = "done"
    /\ client' = FALSE
    /\ link' = IF Available THEN "orphan" ELSE link
    /\ UNCHANGED <<taskVars, event, posted, cacheVars, entities, command>>
    /\ IF client THEN NotifyNow ELSE UNCHANGED <<timer, seen>>

-----------------------------------------------------------------------------
Environment ==
    \/ UnitAccepts \/ AttemptDrops \/ LinkDrops \/ OrphanDrops \/ EventSet
    \/ \E v \in Data : OnNotify(v)

HomeAssistant ==
    \/ Attach \/ Detach \/ CommandSent \/ CommandFails \/ StopCalled \/ StopReturns
    \/ \E v \in Data : CommandDone(v)

Next == Task \/ Environment \/ TimerFires \/ HomeAssistant

Spec == Init /\ [][Next]_vars

\* The event loop runs what is ready; every bleak call ends; a forgotten link
\* dies.  The unit is met, and stays through a connect, again and again.
Fairness ==
    /\ WF_vars(Task) /\ WF_vars(TimerFires) /\ WF_vars(EventSet)
    /\ WF_vars(OrphanDrops) /\ WF_vars(StopReturns)
    /\ SF_vars(AttemptVisible) /\ SF_vars(UnitAccepts)
    /\ SF_vars(Connected /\ link = "up")

FairSpec == Spec /\ Fairness

-----------------------------------------------------------------------------
(* Safety *)

\* A live link always has someone who will close it: the connect in progress,
\* the owning loop task, or a disconnect() under way.  No path out of
\* _connect_once, cancellation included, walks away from a connected unit, which
\* would then refuse every later attempt (ble.py, the finally of _connect_once).
LinkIsOwned == link = "up" => pc \in InLink \cup {"connected", "closing"}

\* A break of the link is never missed.  While the loop task owns a client whose
\* link is gone, the event is set or about to be: clearing it before the connect
\* rather than after loses no disconnect that comes during the connect.
BreakIsRemembered ==
    pc \in InLink \cup {"connected"} /\ link # "up" => posted \/ event

\* An entity that shows itself available rests on a client the loop still owns,
\* so the _disconnect that takes the client away will tell it.
ShownUpIsOwned == entities = "attached" /\ seen.up => pc \in InLink

\* No report is forgotten: as long as the entities show other data than the
\* cache holds, the coalescing timer is armed, whatever immediate notifications
\* cancelled it in between.
ChangeIsOnItsWay == entities = "attached" /\ seen.data # data => timer

\* The reconnect loop survives everything: nothing but stop() ends it.
OnlyStopEndsLoop == pc = "done" => stopped

\* After stop() has returned nothing is left: the task has ended, no client is
\* kept and no link is open other than one whose disconnect() failed.
StoppedIsQuiet == stopPc = "done" => pc = "done" /\ ~client /\ link # "up"

\* When stop() gets to its own _disconnect the loop task has already let go of
\* the client, on every path that can end it.
LoopEndsBare == pc = "done" => ~client

\* The wait that follows a lost connection is the shortest one: the backoff
\* grown by earlier failures does not outlive a connection that worked.
LostRestartsBackoff == pc = "sleeping" /\ cause = "lost" => backoff = BackoffStart

(* What a step may not do *)

\* Once stop() was called no new connection is begun, although the cancellation
\* may be swallowed by the suppress() around client.disconnect().
NoAttemptAfterStop ==
    [][stopped /\ pc' \in {"connecting", "connected"} => pc \in {"connecting", "connected"}]_vars

\* stop() winds down: once it was called the loop task only moves towards its end.
\* A link it owns is closed, a connect under way may still come up, and the next
\* thing the task does is to end; it never sleeps again, subscribes or asks.
WindsDown ==
    [][stopped /\ pc' # pc =>
          \/ pc' = "done" /\ pc # "done"
          \/ pc' = "closing" /\ pc \in InLink
          \/ pc' = "connected" /\ pc = "connecting"]_vars

(* Liveness *)

\* stop() comes back whatever the loop task was waiting for.
StopReturnsEventually == stopped ~> stopPc = "done"

\* As long as the unit can be met again and again, the device keeps coming back.
KeepsReconnecting == []<>(Available \/ stopped)

(* The abstract hub *)

\* UgreenBleDevice is a hub as sensor.py and switch.py know it: the entities are
\* told late, by the next _disconnect, connection or timer, but no outage is
\* hidden from them by a reconnect.
Surface == INSTANCE HubSurface WITH up <- Available
ImplementsHub == Surface!Spec

\* However often the link breaks and the unit reports, the entities catch up.
KeepsTelling == Surface!Settles
=============================================================================
