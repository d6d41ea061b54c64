------------------------------ MODULE CloudHub ------------------------------
(***************************************************************************)
(* The cloud transport (api.py): UgreenTelemetryHub's reconnect loop, its  *)
(* keepalive task and its read deadline, the re-login of UgreenApiClient,  *)
(* and stop().                                                             *)
(*                                                                         *)
(* An action is what one task does between two awaits.  Time is counted in *)
(* ticks while the socket is read, because there the order of the read     *)
(* deadline, the keepalive and the server's frames is what matters; every  *)
(* other wait simply ends.                                                 *)
(*                                                                         *)
(* External: aiohttp, and UGREEN's server, which refuses an expired token, *)
(* acknowledges the subscription and each keepalive with a small frame,    *)
(* and sends telemetry when it has some.                                   *)
(***************************************************************************)
EXTENDS Integers

CONSTANTS
    Data,            \* the telemetry the server can send
    NoReading,       \* .data before any telemetry
    BackoffStart,    \* WS_BACKOFF_START
    BackoffMax,      \* WS_BACKOFF_MAX
    ReloginAfter,    \* WS_RELOGIN_AFTER_FAILURES
    StallTicks,      \* WS_STALL_TIMEOUT
    KeepaliveTicks,  \* WS_KEEPALIVE_INTERVAL
    MaxExpiries      \* bound: how often the token expires

ASSUME DataAssumption == NoReading \notin Data
ASSUME BackoffAssumption ==
    /\ BackoffStart \in Nat \ {0}
    /\ BackoffMax \in Nat
    /\ BackoffStart =< BackoffMax
ASSUME CountAssumption ==
    /\ ReloginAfter \in Nat \ {0}
    /\ StallTicks \in Nat \ {0}
    /\ KeepaliveTicks \in Nat \ {0}
    /\ MaxExpiries \in Nat

VARIABLES
    pc,         \* where the loop task is suspended
    cause,      \* the exception that is leaving _connect_once
    failures,   \* `failures', saturated at ReloginAfter: _run only compares it
    backoff,    \* `backoff'
    cancel,     \* a CancelledError waits to be thrown into the loop task
    stopped,    \* self._stopped
    connected,  \* self._connected
    keepalive,  \* the keepalive task: "none", "running" or "dead"
    sleep,      \* ticks the keepalive task has slept
    alive,      \* the socket still carries frames
    ackDue,     \* the server owes an acknowledgement
    quiet,      \* ticks since the read deadline was set
    unheard,    \* history: ticks since telemetry, or since the connect
    data,       \* self.data
    entities,   \* the platforms: "adding", "attached" or "removed"
    seen,       \* what the entities last wrote
    tokenOk,    \* the server accepts api.token
    expiries,   \* bounded by MaxExpiries
    streak      \* history: failed attempts since the last one that connected

loopVars == <<pc, cause, failures, backoff, cancel, stopped>>
socketVars == <<connected, keepalive, sleep, alive, ackDue, quiet, unheard>>
shownVars == <<data, entities, seen>>
tokenVars == <<tokenOk, expiries>>
vars == <<loopVars, socketVars, shownVars, tokenVars, streak>>

Requests == {"key", "login", "devices"}

AtMost(n, bound) == IF n < bound THEN n ELSE bound

Init ==
    /\ pc = "new" /\ cause = "none" /\ failures = 0 /\ backoff = BackoffStart
    /\ cancel = FALSE /\ stopped = FALSE
    /\ connected = FALSE /\ keepalive = "none" /\ sleep = 0
    /\ alive = FALSE /\ ackDue = FALSE /\ quiet = 0 /\ unheard = 0
    /\ data = NoReading /\ entities = "adding"
    /\ seen = [up |-> FALSE, data |-> NoReading]
    /\ tokenOk = TRUE /\ expiries = 0 /\ streak = 0

-----------------------------------------------------------------------------
\* _notify: every entity in the list writes what .available and .data are.
Written == [up |-> connected', data |-> data']
Notify == seen' = IF entities = "attached" THEN Written ELSE seen

\* The test at the head of the loop and before its sleep.
MayGoOn == ~stopped

\* _run, from the except clause on: count the failure, and either log in again
\* or sleep.
AttemptFailed ==
    /\ failures' = AtMost(failures + 1, ReloginAfter)
    /\ streak' = AtMost(streak + 1, ReloginAfter)
    /\ pc' = IF failures' >= ReloginAfter THEN "key"
             ELSE IF MayGoOn THEN "sleeping" ELSE "done"

\* The task starts, or its sleep is over.  (MayGoOn never fails here: a stop()
\* during the sleep has cancelled it.)
AttemptStarts ==
    /\ pc \in {"new", "sleeping"} /\ ~cancel /\ MayGoOn
    /\ pc' = "connecting" /\ cause' = "none"
    /\ backoff' = IF pc = "sleeping" THEN AtMost(2 * backoff, BackoffMax) ELSE backoff
    /\ UNCHANGED <<failures, cancel, stopped, socketVars, shownVars, tokenVars, streak>>

\* ws_connect succeeds: only with a token the server accepts.
SocketOpens ==
    /\ pc = "connecting" /\ ~cancel /\ tokenOk
    /\ pc' = "subscribing" /\ alive' = TRUE
    /\ UNCHANGED <<cause, failures, backoff, cancel, stopped, connected, keepalive, sleep,
                   ackDue, quiet, unheard, shownVars, tokenVars, streak>>

ConnectFails ==
    /\ pc = "connecting" /\ ~cancel
    /\ AttemptFailed
    /\ UNCHANGED <<cause, backoff, cancel, stopped, socketVars, shownVars, tokenVars>>

\* The subscription is sent: start the keepalive task, be available, read.
Subscribed ==
    /\ pc = "subscribing" /\ ~cancel
    /\ pc' = "receiving"
    /\ connected' = TRUE /\ keepalive' = "running" /\ sleep' = 0
    /\ ackDue' = TRUE /\ quiet' = 0 /\ unheard' = 0 /\ streak' = 0
    /\ UNCHANGED <<cause, failures, backoff, cancel, stopped, alive, data, entities, tokenVars>>
    /\ Notify

SubscribeFails ==
    /\ pc = "subscribing" /\ ~cancel
    /\ pc' = "closing" /\ cause' = "error"
    /\ UNCHANGED <<failures, backoff, cancel, stopped, socketVars, shownVars, tokenVars, streak>>

\* The finally clause, then the close that `async with' waits for.  The clocks of
\* this connection mean nothing any more.  (Variants: the entities are not told;
\* the keepalive task is not cancelled.)
LeaveSilently(how) ==
    /\ pc = "receiving"
    /\ pc' = "closing" /\ cause' = how
    /\ connected' = FALSE /\ keepalive' = "none"
    /\ sleep' = 0 /\ ackDue' = FALSE /\ quiet' = 0 /\ unheard' = 0
    /\ UNCHANGED <<failures, backoff, stopped, alive, shownVars, tokenVars, streak>>

LeaveKeepsKeepalive(how) ==
    /\ pc = "receiving"
    /\ pc' = "closing" /\ cause' = how
    /\ connected' = FALSE
    /\ ackDue' = FALSE /\ quiet' = 0 /\ unheard' = 0
    /\ UNCHANGED <<failures, backoff, stopped, keepalive, sleep, alive, data, entities,
                   tokenVars, streak>>
    /\ Notify

Leave(how) ==
    /\ pc = "receiving"
    /\ pc' = "closing" /\ cause' = how
    /\ connected' = FALSE /\ keepalive' = "none"
    /\ sleep' = 0 /\ ackDue' = FALSE /\ quiet' = 0 /\ unheard' = 0
    /\ UNCHANGED <<failures, backoff, stopped, alive, data, entities, tokenVars, streak>>
    /\ Notify

\* No frame at all before the read deadline.
StallExpires == quiet = StallTicks /\ ~cancel /\ Leave("error") /\ UNCHANGED cancel

\* A close or error frame, or a read that raises.
SocketCloses == ~cancel /\ Leave("error") /\ UNCHANGED cancel

\* Any frame ends the read, and the next read sets a new deadline.
FrameRead ==
    /\ pc = "receiving" /\ ~cancel /\ alive
    /\ quiet' = 0
    /\ UNCHANGED <<loopVars, connected, keepalive, sleep, alive, entities, tokenVars, streak>>

TelemetryRead(v) ==
    /\ FrameRead
    /\ data' = v /\ unheard' = 0
    /\ UNCHANGED ackDue
    /\ Notify

AckRead ==
    /\ FrameRead
    /\ ackDue /\ ackDue' = FALSE
    /\ UNCHANGED <<unheard, data, seen>>

\* `async with' has closed the socket.
Closed ==
    /\ pc = "closing" /\ ~cancel
    /\ alive' = FALSE
    /\ IF cause = "cancelled"
       THEN pc' = "done" /\ UNCHANGED <<failures, streak>>
       ELSE AttemptFailed
    /\ UNCHANGED <<cause, backoff, cancel, stopped, connected, keepalive, sleep, ackDue,
                   quiet, unheard, shownVars, tokenVars>>

(* relogin: UgreenApiClient.login and refresh_device *)

Request(here, next) ==
    /\ pc = here /\ ~cancel
    /\ pc' = next
    /\ UNCHANGED <<cause, cancel, stopped, socketVars, shownVars, expiries, streak>>

KeyReceived == Request("key", "login") /\ UNCHANGED <<failures, backoff, tokenOk>>

\* The new token is stored before the device list is asked for.  (Variant: it is
\* not stored.)
LoggedInForNothing == Request("login", "devices") /\ UNCHANGED <<failures, backoff, tokenOk>>

LoggedIn ==
    /\ Request("login", "devices")
    /\ tokenOk' = TRUE
    /\ UNCHANGED <<failures, backoff>>

ReloginDone ==
    /\ Request("devices", IF MayGoOn THEN "sleeping" ELSE "done")
    /\ failures' = 0 /\ backoff' = BackoffStart
    /\ UNCHANGED tokenOk

ReloginFails ==
    /\ \E here \in Requests : Request(here, IF MayGoOn THEN "sleeping" ELSE "done")
    /\ UNCHANGED <<failures, backoff, tokenOk>>

(* The cancellation of stop() *)

CancelledReading == cancel /\ Leave("cancelled") /\ cancel' = FALSE

CancelledElsewhere ==
    /\ cancel /\ pc \notin {"receiving", "done"}
    /\ cancel' = FALSE
    /\ pc' = IF pc = "subscribing" THEN "closing" ELSE "done"
    /\ cause' = "cancelled"
    /\ alive' = (alive /\ pc = "subscribing")
    /\ UNCHANGED <<failures, backoff, stopped, connected, keepalive, sleep, ackDue, quiet,
                   unheard, shownVars, tokenVars, streak>>

Loop ==
    \/ AttemptStarts \/ SocketOpens \/ ConnectFails \/ Subscribed \/ SubscribeFails
    \/ StallExpires \/ Closed \/ KeyReceived \/ LoggedIn \/ ReloginDone \/ ReloginFails
    \/ CancelledReading \/ CancelledElsewhere
-----------------------------------------------------------------------------
(* The keepalive task, time and the network *)

KeepaliveDue == keepalive = "running" /\ sleep = KeepaliveTicks

\* The keepalive is sent; a live server will acknowledge it.  (Variant: a keepalive
\* that went out counts as a sign of life.)
KeepaliveVouches ==
    /\ KeepaliveDue
    /\ sleep' = 0 /\ quiet' = 0
    /\ ackDue' = (ackDue \/ alive)
    /\ UNCHANGED <<loopVars, connected, keepalive, alive, unheard, shownVars,
                   tokenVars, streak>>

KeepaliveSent ==
    /\ KeepaliveDue
    /\ sleep' = 0
    /\ ackDue' = (ackDue \/ alive)
    /\ UNCHANGED <<loopVars, connected, keepalive, alive, quiet, unheard, shownVars,
                   tokenVars, streak>>

\* Sending raises: the task ends, and nobody looks at it.
KeepaliveDies ==
    /\ KeepaliveDue
    /\ keepalive' = "dead"
    /\ UNCHANGED <<loopVars, connected, sleep, alive, ackDue, quiet, unheard, shownVars,
                   tokenVars, streak>>

\* A tick passes: not beyond the read deadline, nor a keepalive that is due.
Tick ==
    /\ pc = "receiving" /\ quiet < StallTicks /\ ~KeepaliveDue
    /\ quiet' = quiet + 1
    /\ unheard' = AtMost(unheard + 1, StallTicks + 1)
    /\ sleep' = IF keepalive = "running" THEN sleep + 1 ELSE sleep
    /\ UNCHANGED <<loopVars, connected, keepalive, alive, ackDue, shownVars, tokenVars, streak>>

\* The socket goes half-open: it looks open and carries nothing any more.
HalfOpens ==
    /\ alive
    /\ alive' = FALSE
    /\ UNCHANGED <<loopVars, connected, keepalive, sleep, ackDue, quiet, unheard, shownVars,
                   tokenVars, streak>>

TokenExpires ==
    /\ tokenOk /\ expiries < MaxExpiries
    /\ tokenOk' = FALSE /\ expiries' = expiries + 1
    /\ UNCHANGED <<loopVars, socketVars, shownVars, streak>>

(* Home Assistant *)

Attach ==
    /\ entities = "adding" /\ ~stopped
    /\ entities' = "attached"
    /\ UNCHANGED <<loopVars, socketVars, data, tokenVars, streak>>
    /\ seen' = Written

Detach ==
    /\ entities = "attached"
    /\ entities' = "removed"
    /\ UNCHANGED <<loopVars, socketVars, data, seen, tokenVars, streak>>

\* A switch whose command the cloud accepted patches .data and shows it.
SwitchSet(v) ==
    /\ entities = "attached" /\ tokenOk /\ data # NoReading
    /\ data' = v
    /\ UNCHANGED <<loopVars, socketVars, entities, tokenVars, streak>>
    /\ Notify

\* stop() does not wait for the task it cancels.  (Variant: it only raises the
\* flag.)
StopFlagsOnly ==
    /\ entities = "removed" /\ ~stopped
    /\ stopped' = TRUE
    /\ UNCHANGED <<pc, cause, failures, backoff, cancel, socketVars, shownVars, tokenVars,
                   streak>>

StopCalled ==
    /\ entities = "removed" /\ ~stopped
    /\ stopped' = TRUE
    /\ cancel' = (pc # "done")
    /\ UNCHANGED <<pc, cause, failures, backoff, socketVars, shownVars, tokenVars, streak>>

Others ==
    \/ \E v \in Data : TelemetryRead(v) \/ SwitchSet(v)
    \/ AckRead \/ SocketCloses \/ KeepaliveSent \/ KeepaliveDies \/ Tick \/ HalfOpens
    \/ TokenExpires \/ Attach \/ Detach \/ StopCalled

Next == Loop \/ Others

Spec == Init /\ [][Next]_vars

\* The loop runs, time passes, and the server is reachable again and again.
Fairness ==
    /\ WF_vars(Loop) /\ WF_vars(Tick) /\ WF_vars(KeepaliveSent \/ KeepaliveDies)
    /\ SF_vars(SocketOpens) /\ SF_vars(Subscribed)
    /\ SF_vars(KeyReceived) /\ SF_vars(LoggedIn)

FairSpec == Spec /\ Fairness
-----------------------------------------------------------------------------
StagesOK ==
    /\ pc \in Requests \cup {"new", "connecting", "subscribing", "receiving", "closing",
                             "sleeping", "done"}
    /\ cause \in {"none", "error", "cancelled"}
    /\ failures \in 0 .. ReloginAfter
    /\ backoff \in BackoffStart .. BackoffMax
    /\ keepalive \in {"none", "running", "dead"}
    /\ entities \in {"adding", "attached", "removed"}

CountersOK ==
    /\ sleep \in 0 .. KeepaliveTicks /\ quiet \in 0 .. StallTicks
    /\ unheard \in 0 .. StallTicks + 1
    /\ expiries \in 0 .. MaxExpiries /\ streak \in 0 .. ReloginAfter

FlagsOK ==
    /\ cancel \in BOOLEAN /\ stopped \in BOOLEAN /\ connected \in BOOLEAN
    /\ alive \in BOOLEAN /\ ackDue \in BOOLEAN /\ tokenOk \in BOOLEAN

Readings == Data \cup {NoReading}
ReadingsOK == data \in Readings /\ seen \in [up : BOOLEAN, data : Readings]

TypeOK == StagesOK /\ CountersOK /\ FlagsOK /\ ReadingsOK

\* Entities show exactly whether the socket is up and what came over it last:
\* no end of a connection, not even a cancelled one, leaves them looking live.
ShownIsTheHub == entities = "attached" => seen = [up |-> connected, data |-> data]

\* No keepalive outlives its connection, and none is counted as connected after
\* the loop has left it: a second one would talk to a closed socket.
KeepaliveHasItsSocket ==
    (keepalive = "running" => connected) /\ (connected => pc = "receiving")

\* Only stop() ends the loop, whatever connecting and logging in raise.
OnlyStopEndsLoop == pc = "done" => stopped

\* stop() ends the loop, although nobody waits for it.
StopEndsLoop == stopped ~> pc = "done"

\* A socket that only looks open does not count as connected for ever.
HalfOpenIsNoticed == (connected /\ ~alive) ~> ~connected

\* Its safety half: on a socket that only looks open, nothing puts off the read
\* deadline and no keepalive revives it; its time can only run down.
DeadlineStands == [][connected /\ ~alive /\ connected' => ~alive' /\ quiet' >= quiet]_vars

\* An expired token, a failed login and a failed device list are all got over.
KeepsReconnecting == []<>(connected \/ stopped)

\* UgreenTelemetryHub is a hub as sensor.py and switch.py know it: no path out of
\* a connection leaves an entity showing its reading as live when the next
\* connection begins.
Surface == INSTANCE HubSurface WITH up <- connected
ImplementsHub == Surface!Spec

(* What the comments, the tests and the README say *)

\* "If six consecutive updates fail to show up the connection is treated as
\* dead": when telemetry stays away beyond the stall timeout, the socket is left.
SilentTelemetryIsNoticed ==
    (connected /\ unheard > StallTicks) ~> (~connected \/ unheard = 0)

\* "A good connection must clear the counter": a re-login is only made after
\* that many failures since a connection was last made, its own end being one.
ReloginNeedsARow == pc \in Requests => streak >= ReloginAfter
=============================================================================
