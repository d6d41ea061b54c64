--------------------------- MODULE CloudControl ---------------------------
(***************************************************************************)
(* Switching over the cloud: set_device_info's request (api.py), the       *)
(* switches' optimistic update of .data (switch.py), the telemetry that    *)
(* replaces .data, and the re-login that renews the token and reads the    *)
(* device list anew.                                                       *)
(*                                                                         *)
(* Requests and the socket are different connections, so an answer may     *)
(* overtake, or be overtaken by, a frame of telemetry.  How the loop gets  *)
(* from one socket to the next, and when it logs in again, is CloudHub's:  *)
(* here it may do either whenever the socket is down.                      *)
(*                                                                         *)
(* External: the server with the account's units, and whoever switches     *)
(* them by hand or changes the account.                                    *)
(***************************************************************************)
EXTENDS Integers, Sequences

CONSTANTS
    Units,      \* the units of the account
    Keys,       \* the switches of a unit
    NoData,     \* .data before any telemetry
    Calls,      \* the turn_on and turn_off calls that can be under way at once
    MaxFrames,  \* bound: frames of telemetry under way
    Budget      \* bound: how often each kind of event happens

Events == {"command", "change", "break", "expiry", "listing"}
Settings == [Keys -> {0, 1}]

ASSUME DataAssumption == NoData \notin Settings
ASSUME BoundAssumption == MaxFrames \in Nat /\ Budget \in [Events -> Nat]

VARIABLES
    units,       \* what each unit's switches are
    first,       \* devices[0]: the unit the device list begins with
    tokenOk,     \* the server accepts api.token
    unit,        \* api.device_name and api.sn
    loop,        \* the loop task: "down", "listing" or "up", its socket being open
    watched,     \* the unit in the socket's URL
    frames,      \* telemetry under way
    data,        \* self.data
    calls,       \* [Calls -> Idle, or what became of the request and what it asks for]
    held,        \* history: what each switch of each unit has been
    source,      \* history: the unit that the last frame put into .data came from
    heard,       \* history: the socket that is open, or was last, has had a frame read
    left         \* how many more of each of Events

accountVars == <<first, tokenOk>>
clientVars == <<unit, loop, watched>>
history == <<held, source, heard>>
vars == <<units, history, accountVars, clientVars, frames, data, calls, left>>

Idle == [stage |-> "idle"]
Requests == [stage : {"sent", "taken", "refused"}, unit : Units, key : Keys, value : {0, 1}]
Now(r, stage) == [stage |-> stage, unit |-> r.unit, key |-> r.key, value |-> r.value]

\* The entry was set up: login has read the device list.
Init ==
    /\ units \in [Units -> Settings] /\ first \in Units /\ tokenOk = TRUE
    /\ unit = first
    /\ loop = "down" /\ watched = first /\ frames = <<>> /\ data = NoData
    /\ calls = [c \in Calls |-> Idle]
    /\ held = [u \in Units |-> [k \in Keys |-> {units[u][k]}]]
    /\ source = first /\ heard = FALSE
    /\ left = Budget

\* A switch of a unit comes to be on or off.
Switched(u, k, v) ==
    /\ units' = [units EXCEPT ![u][k] = v]
    /\ held' = [held EXCEPT ![u][k] = @ \cup {v}]
    /\ UNCHANGED <<source, heard>>

Spend(event) == left[event] > 0 /\ left' = [left EXCEPT ![event] = @ - 1]

-----------------------------------------------------------------------------
(* set_device_info and the switches *)

\* An available switch is turned: Home Assistant calls no other.
Command(c, k, v) ==
    /\ calls[c] = Idle /\ loop = "up" /\ data # NoData
    /\ Spend("command")
    /\ calls' = [calls EXCEPT ![c] = [stage |-> "sent", unit |-> unit, key |-> k, value |-> v]]
    /\ UNCHANGED <<units, history, accountVars, clientVars, frames, data>>

\* The server switches the unit that the request names.
Taken(c) ==
    /\ calls[c].stage = "sent" /\ tokenOk
    /\ calls' = [calls EXCEPT ![c] = Now(calls[c], "taken")]
    /\ Switched(calls[c].unit, calls[c].key, calls[c].value)
    /\ UNCHANGED <<accountVars, clientVars, frames, data, left>>

\* An errcode: the token has expired, or the unit is offline.
Refused(c) ==
    /\ calls[c].stage = "sent"
    /\ calls' = [calls EXCEPT ![c] = Now(calls[c], "refused")]
    /\ UNCHANGED <<units, history, accountVars, clientVars, frames, data, left>>

\* The optimistic update: of the .data there is now.  (Variant: errcode is not
\* looked at.)
AnsweredUnread(c) ==
    /\ calls[c].stage \in {"taken", "refused"}
    /\ calls' = [calls EXCEPT ![c] = Idle]
    /\ data' = [data EXCEPT ![calls[c].key] = calls[c].value]
    /\ UNCHANGED <<units, history, accountVars, clientVars, frames, left>>

Answered(c) ==
    /\ calls[c].stage = "taken"
    /\ calls' = [calls EXCEPT ![c] = Idle]
    /\ data' = [data EXCEPT ![calls[c].key] = calls[c].value]
    /\ UNCHANGED <<units, history, accountVars, clientVars, frames, left>>

\* The request raises: refused, or lost on its way there or back.
Fails(c) ==
    /\ calls[c] # Idle
    /\ calls' = [calls EXCEPT ![c] = Idle]
    /\ UNCHANGED <<units, history, accountVars, clientVars, frames, data, left>>

(* The socket *)

SocketOpens ==
    /\ loop = "down" /\ tokenOk
    /\ loop' = "up" /\ watched' = unit /\ heard' = FALSE
    /\ UNCHANGED <<units, held, source, accountVars, unit, frames, data, calls, left>>

\* .data stays.  (Variant: it is cleared.)
SocketBreaksClearing ==
    /\ loop = "up"
    /\ Spend("break")
    /\ loop' = "down" /\ frames' = <<>> /\ data' = NoData
    /\ UNCHANGED <<units, history, accountVars, unit, watched, calls>>

SocketBreaks ==
    /\ loop = "up"
    /\ Spend("break")
    /\ loop' = "down" /\ frames' = <<>>
    /\ UNCHANGED <<units, history, accountVars, unit, watched, data, calls>>

FrameSent ==
    /\ loop = "up" /\ Len(frames) < MaxFrames
    /\ frames' = Append(frames, units[watched])
    /\ UNCHANGED <<units, history, accountVars, clientVars, data, calls, left>>

\* Telemetry takes the place of .data.  (Variant: only where there is none.)
FrameReadOnce ==
    /\ frames # <<>>
    /\ frames' = Tail(frames)
    /\ data' = IF data = NoData THEN Head(frames) ELSE data
    /\ source' = IF data = NoData THEN watched ELSE source
    /\ heard' = TRUE
    /\ UNCHANGED <<units, held, accountVars, clientVars, calls, left>>

FrameRead ==
    /\ frames # <<>>
    /\ frames' = Tail(frames) /\ data' = Head(frames)
    /\ source' = watched /\ heard' = TRUE
    /\ UNCHANGED <<units, held, accountVars, clientVars, calls, left>>

(* relogin *)

LoggedIn ==
    /\ loop = "down"
    /\ loop' = "listing" /\ tokenOk' = TRUE
    /\ UNCHANGED <<units, history, first, unit, watched, frames, data, calls, left>>

\* refresh_device takes the first unit of the list.  (Variant: it runs beside the
\* socket too, for a command that was refused.)
ListedBeside ==
    /\ loop \in {"listing", "up"}
    /\ loop' = IF loop = "up" THEN "up" ELSE "down"
    /\ unit' = first
    /\ UNCHANGED <<units, history, accountVars, watched, frames, data, calls, left>>

Listed ==
    /\ loop = "listing"
    /\ loop' = "down" /\ unit' = first
    /\ UNCHANGED <<units, history, accountVars, watched, frames, data, calls, left>>

ListFails ==
    /\ loop = "listing"
    /\ loop' = "down"
    /\ UNCHANGED <<units, history, accountVars, unit, watched, frames, data, calls, left>>

(* The world *)

\* A button of the unit, or the vendor's app.
UnitChanges(u, k) ==
    /\ Spend("change")
    /\ Switched(u, k, 1 - units[u][k])
    /\ UNCHANGED <<accountVars, clientVars, frames, data, calls>>

TokenExpires ==
    /\ tokenOk /\ tokenOk' = FALSE
    /\ Spend("expiry")
    /\ UNCHANGED <<units, history, first, clientVars, frames, data, calls>>

\* Another unit comes to be the first of the list.
ListChanges(u) ==
    /\ u # first /\ first' = u
    /\ Spend("listing")
    /\ UNCHANGED <<units, history, tokenOk, clientVars, frames, data, calls>>

Loop == SocketOpens \/ LoggedIn \/ Listed \/ ListFails \/ FrameRead

Next ==
    \/ Loop \/ SocketBreaks \/ FrameSent \/ TokenExpires
    \/ \E c \in Calls, k \in Keys, v \in {0, 1} : Command(c, k, v)
    \/ \E c \in Calls : Taken(c) \/ Refused(c) \/ Answered(c) \/ Fails(c)
    \/ \E u \in Units : ListChanges(u) \/ \E k \in Keys : UnitChanges(u, k)

Spec == Init /\ [][Next]_vars

\* The loop reconnects, frames keep coming and are read, and every request ends.
Fairness ==
    /\ WF_vars(FrameSent) /\ WF_vars(FrameRead)
    /\ SF_vars(SocketOpens) /\ WF_vars(LoggedIn) /\ WF_vars(Listed)
    /\ \A c \in Calls : WF_vars(Answered(c) \/ Fails(c))

FairSpec == Spec /\ Fairness
-----------------------------------------------------------------------------
\* Types; and a call's update finds the .data that made its switch available,
\* whatever the socket did while the request was under way.
TypeOK ==
    /\ units \in [Units -> Settings] /\ first \in Units /\ tokenOk \in BOOLEAN
    /\ unit \in Units /\ watched \in Units
    /\ loop \in {"down", "listing", "up"}
    /\ frames \in Seq(Settings) /\ data \in Settings \cup {NoData}
    /\ calls \in [Calls -> Requests \cup {Idle}]
    /\ held \in [Units -> [Keys -> SUBSET {0, 1}]]
    /\ source \in Units /\ heard \in BOOLEAN
    /\ left \in [Events -> Nat]
    /\ \A c \in Calls : calls[c] # Idle => data # NoData

\* From the first frame of a socket on, a command goes to the unit whose telemetry
\* .data is: the device list is read while there is no socket only.  Not before that
\* frame: .data is kept over a reconnect, so after a re-login that found another
\* unit first in the list, a switch shows one unit and turns the other.
CommandsGoWhereDataIsFrom == loop = "up" /\ heard => unit = source

\* A switch never shows what no unit has been: neither a command that an expired
\* token had refused, nor one that was lost, is shown as done.
ShownWasSo ==
    data # NoData => \A k \in Keys : \E u \in Units : data[k] \in held[u][k]

\* Lost answers, answers that come after newer telemetry, telemetry older than the
\* command: once nobody switches any more, a socket that stays open puts .data right.
SettlesOnTheUnit == <>[](loop = "up" => data = units[watched])

\* Its safety half: once .data is right and so is every frame under way, it stays so
\* while the socket is up, no command is under way and the unit is left alone.
Quiet == loop = "up" /\ \A c \in Calls : calls[c] = Idle
RightFrom(n) == \A i \in n .. Len(frames) : frames[i] = units[watched]
Settled == Quiet /\ data = units[watched] /\ RightFrom(1)
StaysSettled ==
    [][Settled /\ Quiet' /\ units'[watched] = units[watched] => Settled']_vars
=============================================================================
