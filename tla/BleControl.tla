----------------------------- MODULE BleControl -----------------------------
(***************************************************************************)
(* Control over Bluetooth (ble.py, protocol.py, switch.py): any number of  *)
(* concurrent set_device_info() calls against one cached switch state, the *)
(* unit's own reports, and a link that comes and goes.                     *)
(*                                                                         *)
(* Opcode 0x16 replaces the whole switch block, in a layout of its own:    *)
(* what the unit reports has a field the write has not.  A call therefore  *)
(* reads the cache, changes one field, encodes all of them and waits for   *)
(* the write; only then does it put its copy back into the cache.          *)
(*                                                                         *)
(* External: the unit, which applies a write when it gets to it, answers   *)
(* after that, and reports its state in order with its answers; and bleak, *)
(* which fails the calls in flight when the link goes, applied or not.     *)
(***************************************************************************)
EXTENDS Integers, Sequences

CONSTANTS
    Callers,         \* the tasks that may be inside set_device_info at once
    RecvFields,      \* SWITCH_RECV_FIELDS: the layout of a report
    SendFields,      \* SWITCH_SEND_FIELDS: the layout of a write
    RawFields,       \* RAW_FIELDS: kept as the byte they are
    InvertedFields,  \* INVERTED_FIELDS: 0 on the wire means on
    Switchable,      \* the values of SWITCH_KEY_TO_FIELD
    Settings,        \* what the unit is set to at first
    ReportLengths,   \* how many bytes of the block a report may carry
    RawSettings,     \* what a raw field is set to at the unit or in the app
    NoState,         \* _switch_state is None, .data has no such key
    MaxInFlight,     \* bound: messages on their way from the unit
    MaxDrops,        \* bound: how often the link breaks
    ForeignFields,   \* bound: the settings changed at the unit or in the app
    MaxForeign       \* bound: how many such changes

Fields == {RecvFields[i] : i \in DOMAIN RecvFields}
Sent == {SendFields[i] : i \in DOMAIN SendFields}
Bits == {0, 1}
Bytes == 0 .. 255
ValuesOf(f) == IF f \in RawFields THEN Bytes ELSE Bits
Choices(f) == IF f \in RawFields THEN RawSettings ELSE Bits

Injective(layout) ==
    \A i, j \in DOMAIN layout : layout[i] = layout[j] => i = j

ASSUME LayoutAssumption ==
    /\ RecvFields \in Seq(Fields) /\ Injective(RecvFields)
    /\ SendFields \in Seq(Fields) /\ Injective(SendFields)
    /\ Switchable \subseteq Sent \ (RawFields \cup InvertedFields)
    /\ RawFields \cap InvertedFields = {}
ASSUME SettingsAssumption ==
    /\ Settings \in [Fields -> Bytes]
    /\ \A f \in Fields : Settings[f] \in ValuesOf(f)
    /\ RawSettings \subseteq Bytes
ASSUME BoundAssumption ==
    /\ ReportLengths \subseteq 0 .. Len(RecvFields)
    /\ ForeignFields \subseteq Fields
    /\ MaxInFlight \in Nat /\ MaxDrops \in Nat /\ MaxForeign \in Nat
ASSUME NoStateAssumption ==
    /\ NoState \notin Bits
    /\ \A S \in SUBSET Fields : NoState \notin [S -> Bytes]

VARIABLES
    up,       \* available: the link is up
    unit,     \* the unit's settings
    channel,  \* reports and answers on their way to Home Assistant
    cache,    \* self._switch_state
    shown,    \* self.data, the keys of the switches
    call,     \* per caller: "idle", "writing", "applied", "answered", "broken"
    local,    \* per caller: its arguments and its variable `desired'
    drops,    \* bounded by MaxDrops
    foreign,  \* bounded by MaxForeign
    had,      \* history: per field, what its owner set it to so far
    doubt     \* history: fields that changed without Home Assistant being told

callVars == <<call, local>>
bounds == <<drops, foreign>>
history == <<had, doubt>>
vars == <<up, unit, channel, cache, shown, callVars, bounds, history>>

(***************************************************************************)
(* The history variables decide nothing; only properties read them.  A     *)
(* field is in doubt when it changed at the unit and what Home Assistant   *)
(* holds may be from before.  Each report, and each call's copy, carries   *)
(* the fields that changed since it was made.                              *)
(***************************************************************************)

-----------------------------------------------------------------------------
(* The wire: protocol.py *)

\* What one field becomes on the wire, and back.  (Variant: a raw field is
\* inverted like a flag when it is read.)
EncodeField(f, v) ==
    IF f \in RawFields THEN v % 256 ELSE IF f \in InvertedFields THEN 1 - v ELSE v

DecodeInvertsRaw(f, b) ==
    IF f \in RawFields \cup InvertedFields THEN 1 - b
    ELSE IF b # 0 THEN 1 ELSE 0

DecodeField(f, b) ==
    IF f \in RawFields THEN b
    ELSE IF f \in InvertedFields THEN IF b = 0 THEN 1 ELSE 0
    ELSE IF b # 0 THEN 1 ELSE 0

Position(layout, f) == CHOOSE i \in DOMAIN layout : layout[i] = f

\* decode_switch_state: the fields a report is long enough for.
DecodeSwitchState(bytes) ==
    [f \in {RecvFields[i] : i \in 1 .. Len(bytes)} |->
        DecodeField(f, bytes[Position(RecvFields, f)])]

\* encode_switch_state, for a state that has every field of the write layout.
\* (Variant: in the order of the report, as if the block were echoed.)
EncodeEcho(state) ==
    [i \in 1 .. Len(RecvFields) |-> EncodeField(RecvFields[i], state[RecvFields[i]])]

EncodeSwitchState(state) ==
    [i \in 1 .. Len(SendFields) |-> EncodeField(SendFields[i], state[SendFields[i]])]

\* The unit's side of both layouts.
ReportOf(settings, n) ==
    [i \in 1 .. n |-> EncodeField(RecvFields[i], settings[RecvFields[i]])]

Replaced(settings, bytes) ==
    [f \in Fields |-> IF f \in Sent
                      THEN DecodeField(f, bytes[Position(SendFields, f)])
                      ELSE settings[f]]

Report(bytes, D) == [kind |-> "report", bytes |-> bytes, doubt |-> D]
Answer(c) == [kind |-> "answer", caller |-> c]
Unawaited == [kind |-> "unawaited"]  \* an answer whose caller has given up

\* The channel when fields F change behind the reports in it.
Overtaken(F) ==
    [i \in DOMAIN channel |->
        IF channel[i].kind = "report"
        THEN Report(channel[i].bytes, channel[i].doubt \cup F)
        ELSE channel[i]]
-----------------------------------------------------------------------------
Init ==
    /\ up = TRUE /\ unit = Settings /\ channel = <<>>
    /\ cache = NoState /\ shown = [f \in Switchable |-> NoState]
    /\ call = [c \in Callers |-> "idle"]
    /\ local = [c \in Callers |-> NoState]
    /\ drops = 0 /\ foreign = 0
    /\ had = [f \in Fields |-> {Settings[f]}] /\ doubt = {}

\* set_device_info up to the await in _write.  It raises, and changes nothing,
\* when no report came yet, when the cached report was too short to encode, or
\* when the client is not connected.  (Variant: the copy is sent as it was.)
CallUnchanged(c, f, v) ==
    /\ call[c] = "idle"
    /\ cache # NoState
    /\ Sent \subseteq DOMAIN cache
    /\ up
    /\ call' = [call EXCEPT ![c] = "writing"]
    /\ local' = [local EXCEPT ![c] = [field |-> f, value |-> v, desired |-> cache, doubt |-> doubt]]
    /\ UNCHANGED <<up, unit, channel, cache, shown, bounds, history>>

Call(c, f, v) ==
    /\ call[c] = "idle"
    /\ cache # NoState
    /\ Sent \subseteq DOMAIN cache
    /\ up
    /\ call' = [call EXCEPT ![c] = "writing"]
    /\ local' = [local EXCEPT ![c] =
                    [field |-> f, value |-> v, desired |-> [cache EXCEPT ![f] = v], doubt |-> doubt]]
    /\ UNCHANGED <<up, unit, channel, cache, shown, bounds, history>>

\* The unit gets to the write of c: writes in flight at once come in any order.
Apply(c) ==
    /\ call[c] = "writing" /\ Len(channel) < MaxInFlight
    /\ call' = [call EXCEPT ![c] = "applied"]
    /\ unit' = Replaced(unit, EncodeSwitchState(local[c].desired))
    /\ LET moved == {f \in Fields : unit'[f] # unit[f]} \cup {local[c].field} IN
        /\ channel' = Append(Overtaken(moved), Answer(c))
        /\ doubt' = doubt \cup moved
    /\ UNCHANGED <<up, cache, shown, local, bounds, had>>

\* The unit reports its switch block.
SendReport(n) ==
    /\ up /\ Len(channel) < MaxInFlight
    /\ channel' = Append(channel, Report(ReportOf(unit, n), {}))
    /\ UNCHANGED <<up, unit, cache, shown, callVars, bounds, history>>

\* _on_notify: the report replaces the cache, and .data for what it carries.
\* (Variant: .data only for what it does not have yet.)
OnNotifyNewKeys ==
    /\ channel # <<>> /\ Head(channel).kind = "report"
    /\ channel' = Tail(channel)
    /\ LET state == DecodeSwitchState(Head(channel).bytes) IN
        /\ cache' = state
        /\ shown' = [f \in Switchable |->
                         IF f \in DOMAIN state /\ shown[f] = NoState THEN state[f] ELSE shown[f]]
        /\ doubt' = Head(channel).doubt \cup (doubt \ DOMAIN state)
    /\ UNCHANGED <<up, unit, callVars, bounds, had>>

OnNotify ==
    /\ channel # <<>> /\ Head(channel).kind = "report"
    /\ channel' = Tail(channel)
    /\ LET state == DecodeSwitchState(Head(channel).bytes) IN
        /\ cache' = state
        /\ shown' = [f \in Switchable |-> IF f \in DOMAIN state THEN state[f] ELSE shown[f]]
        /\ doubt' = Head(channel).doubt \cup (doubt \ DOMAIN state)
    /\ UNCHANGED <<up, unit, callVars, bounds, had>>

\* The answer completes the future the caller waits for ...
Answered ==
    /\ channel # <<>> /\ Head(channel).kind = "answer"
    /\ channel' = Tail(channel)
    /\ call' = [call EXCEPT ![Head(channel).caller] = "answered"]
    /\ UNCHANGED <<up, unit, cache, shown, local, bounds, history>>

\* (an answer nobody waits for any more does nothing)
Unheard ==
    /\ channel # <<>> /\ Head(channel).kind = "unawaited"
    /\ channel' = Tail(channel)
    /\ UNCHANGED <<up, unit, cache, shown, callVars, bounds, history>>

\* ... and the caller resumes: its copy becomes the cache.  (Variant: it only
\* patches .data.)
ResumeKeepsCache(c) ==
    /\ call[c] = "answered"
    /\ call' = [call EXCEPT ![c] = "idle"]
    /\ local' = [local EXCEPT ![c] = NoState]
    /\ shown' = [shown EXCEPT ![local[c].field] = local[c].value]
    /\ doubt' = local[c].doubt
    /\ UNCHANGED <<up, unit, channel, cache, bounds, had>>

Resume(c) ==
    /\ call[c] = "answered"
    /\ call' = [call EXCEPT ![c] = "idle"]
    /\ local' = [local EXCEPT ![c] = NoState]
    /\ cache' = local[c].desired
    /\ shown' = [shown EXCEPT ![local[c].field] = local[c].value]
    /\ doubt' = local[c].doubt
    /\ UNCHANGED <<up, unit, channel, bounds, had>>

\* The write fails, times out or is cancelled with its caller, whether or not the
\* unit has taken it: the caller leaves the cache alone, and an answer on its way
\* has nobody to go to.  (A write that reaches the unit after its caller gave up
\* is Apply before Fail here: reports sent in between are still in the channel.)
Fail(c) ==
    /\ call[c] # "idle"
    /\ call' = [call EXCEPT ![c] = "idle"]
    /\ local' = [local EXCEPT ![c] = NoState]
    /\ channel' = [i \in DOMAIN channel |->
                      IF channel[i] = Answer(c) THEN Unawaited ELSE channel[i]]
    /\ UNCHANGED <<up, unit, cache, shown, bounds, history>>

\* The link breaks; what is on its way is lost, an applied write's answer too.
\* The cache stays (_connect_once and _disconnect do not touch it).
LinkDown ==
    /\ up /\ drops < MaxDrops
    /\ up' = FALSE /\ channel' = <<>> /\ drops' = drops + 1
    /\ call' = [c \in Callers |-> IF call[c] \in {"writing", "applied"} THEN "broken" ELSE call[c]]
    /\ UNCHANGED <<unit, cache, shown, local, foreign, history>>

LinkUp ==
    /\ ~up
    /\ up' = TRUE
    /\ UNCHANGED <<unit, channel, cache, shown, callVars, bounds, history>>

\* Any setting of the block changed at the unit itself, or in the app.
ForeignChange(f, v) ==
    /\ foreign < MaxForeign /\ v # unit[f]
    /\ foreign' = foreign + 1
    /\ unit' = [unit EXCEPT ![f] = v]
    /\ had' = [had EXCEPT ![f] = @ \cup {v}]
    /\ doubt' = doubt \cup {f}
    /\ channel' = Overtaken({f})
    /\ local' = [c \in Callers |-> IF call[c] = "idle" THEN local[c]
                                   ELSE [local[c] EXCEPT !.doubt = @ \cup {f}]]
    /\ UNCHANGED <<up, cache, shown, call, drops>>

CallerStep(c) ==
    \/ \E f \in Switchable, v \in Bits : Call(c, f, v)
    \/ Apply(c) \/ Resume(c) \/ Fail(c)

Next ==
    \/ \E c \in Callers : CallerStep(c)
    \/ \E n \in ReportLengths : SendReport(n)
    \/ OnNotify \/ Answered \/ Unheard \/ LinkDown \/ LinkUp
    \/ \E f \in ForeignFields : \E v \in Choices(f) : ForeignChange(f, v)

Spec == Init /\ [][Next]_vars

\* The unit keeps reporting, whole blocks among them, and what arrives is handled.
Fairness ==
    /\ WF_channel(channel # <<>> /\ channel' = Tail(channel))
    /\ SF_vars(SendReport(Len(RecvFields)))

FairSpec == Spec /\ Fairness
-----------------------------------------------------------------------------
Stages == {"idle", "writing", "applied", "answered", "broken"}

\* What the unit can be set to.
UnitSettings == {s \in [Fields -> Bytes] : \A f \in Fields : s[f] \in ValuesOf(f)}

TypeOK ==
    /\ up \in BOOLEAN
    /\ unit \in UnitSettings
    /\ call \in [Callers -> Stages]
    /\ drops \in 0 .. MaxDrops /\ foreign \in 0 .. MaxForeign
    /\ Len(channel) =< MaxInFlight
    /\ shown \in [Switchable -> Bits \cup {NoState}]
    /\ \A c \in Callers : call[c] # "idle" => local[c].field \in Switchable
    /\ had \in [Fields -> SUBSET Bytes] /\ doubt \subseteq Fields

\* A setting without a switch only ever has a value its owner gave it, at the unit
\* or in the app: no command, and no report decoded for the next one, gives it
\* another field's byte, an inverted one or one of its own.  In development
\* exactly this went wrong and switched battery preserving off (ble.py, the
\* comment in set_device_info; README, the two layouts of 0x16).  It may be put
\* back to an older value of its owner's: see MovesOnlyUnknowns.
NoSettingInvented == \A f \in Fields \ Switchable : unit[f] \in had[f]

\* An answered call has told the truth: the unit is set as asked, unless somebody
\* at the unit has changed that very switch since the call began.
AnsweredMeansSet ==
    \A c \in Callers : call[c] = "answered" =>
        unit[local[c].field] = local[c].value \/ local[c].field \in local[c].doubt

\* The two caches say the same of every switch: what the entity shows is what
\* the next write will send for it.  Only a switch that changed without Home
\* Assistant being told can show one and be sent as the other.
CachesAgree ==
    cache # NoState =>
        \A f \in (Switchable \cap DOMAIN cache) \ doubt : shown[f] = cache[f]

\* Applying a command changes nothing but the switch it names, which is what
\* sending the whole block from a known state is for (ble.py, set_device_info).
MovesOnlyItsSwitch(c) ==
    call[c] = "writing" /\ call'[c] = "applied"
        => \A f \in Fields \ {local[c].field} : unit'[f] = unit[f]

OnlyTheNamedSwitchMoves == [][\A c \in Callers : MovesOnlyItsSwitch(c)]_vars

\* The same, as far as it goes with one caller, over any breaks of the link and
\* with the cache kept from before them: the other fields a command moves are
\* those that changed at the unit - by a hand there, or by a command that reached
\* it and failed for its caller - with no report of it before this call began.
MovesOnlyUnknowns(c) ==
    call[c] = "writing" /\ call'[c] = "applied"
        => \A f \in Fields \ {local[c].field} : unit'[f] = unit[f] \/ f \in local[c].doubt

OnlyUnknownsMoveToo == [][\A c \in Callers : MovesOnlyUnknowns(c)]_vars

\* When the link stays up and nobody operates a switch, the entities come to
\* show what the unit is set to, whatever was lost or overwritten before.
Quiet == up /\ \A c \in Callers : call[c] = "idle"
ShownIsTrue == \A f \in Switchable : shown[f] = unit[f]
SettlesOnTheUnit == <>[]Quiet => <>[]ShownIsTrue

\* Its safety half: once the entities show what the unit is set to, and every
\* report on its way says so too, only a command, a break of the link or a hand at
\* the unit can change that.
SaysSo(report) ==
    LET state == DecodeSwitchState(report.bytes) IN
        \A f \in Switchable \cap DOMAIN state : state[f] = unit[f]

SaySoFrom(k) == \A i \in k .. Len(channel) : channel[i].kind = "report" => SaysSo(channel[i])

Settled == Quiet /\ ShownIsTrue /\ SaySoFrom(1)
StaysSettled == [][Settled /\ Quiet' /\ UNCHANGED foreign => Settled']_vars
=============================================================================
