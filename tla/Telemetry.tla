----------------------------- MODULE Telemetry -----------------------------
(***************************************************************************)
(* What the Bluetooth hub makes of the unit's reports: u16 and             *)
(* telemetry_from_frame (protocol.py), their merging into .data by         *)
(* _on_notify, the raw frames, and the flashlight (ble.py).                *)
(*                                                                         *)
(* A frame is an opcode and a payload of bytes; framing, CRC and buffer    *)
(* are FrameStream's, and the writing of the switch block is BleControl's. *)
(* Opcodes go by the names of protocol.py, keys by their own.              *)
(*                                                                         *)
(* External: the unit.  Its model fixes how many bytes it fills in; it     *)
(* pushes every block again and again, and answers a write once applied.   *)
(***************************************************************************)
EXTENDS Integers, Sequences

CONSTANTS
    Opcodes,  \* the opcodes the unit pushes
    Blocks,   \* [Opcodes -> the payloads a full block can have]
    Sizes,    \* how many bytes of each block a model can fill in
    Changes,  \* bound: how often the unit changes, by itself or on command
    None      \* Python's None

ASSUME BlocksAssumption ==
    /\ \A op \in Opcodes : Blocks[op] \subseteq Seq(0 .. 255)
    /\ "light" \in Opcodes => {<<0>>, <<1>>} \subseteq Blocks["light"]
ASSUME BoundsAssumption == Sizes \subseteq Nat /\ Changes \in Nat
ASSUME NoneAssumption == None \notin Int

VARIABLES
    up,       \* .available
    data,     \* .data
    size,     \* the bytes of a block that this unit fills in
    unit,     \* the unit's blocks
    changes,  \* bounded by Changes
    lamp      \* set_device_info("lamp_sw", v): its progress and v

vars == <<up, data, size, unit, changes, lamp>>

-----------------------------------------------------------------------------
(* The codec *)

\* (Variant: the second byte is not looked for.)
U16Padded(d, at) ==
    IF at + 1 > Len(d) THEN None
    ELSE d[at + 1] + 256 * (IF at + 2 > Len(d) THEN 0 ELSE d[at + 2])

U16(d, at) == IF at + 2 > Len(d) THEN None ELSE d[at + 1] + 256 * d[at + 2]

U8(d, at) == IF Len(d) > at THEN d[at + 1] ELSE None

\* The ways a value is read, and what they give for a payload.
Word(n) == [how |-> "word", at |-> n]
Byte(n) == [how |-> "byte", at |-> n]
Flag(n) == [how |-> "flag", at |-> n]
Celsius(n) == [how |-> "celsius", at |-> n]
SumOfFour(n) == [how |-> "sum", at |-> n]

TemperatureOffset == 40

ReadAs(r, d) ==
    LET word(n) == U16(d, r.at + n) IN
    CASE r.how = "byte" -> U8(d, r.at)
      [] r.how = "word" -> word(0)
      [] r.how = "flag" ->
            IF U8(d, r.at) = None THEN None ELSE IF U8(d, r.at) = 0 THEN 0 ELSE 1
      [] r.how = "celsius" -> IF word(0) = None THEN None ELSE word(0) - TemperatureOffset
      [] r.how = "sum" ->
            IF \E n \in {0, 2, 4, 6} : word(n) = None THEN None
            ELSE word(0) + word(2) + word(4) + word(6)

\* telemetry_from_frame: the keys of each opcode, and where they are read.
BatteryBlock ==
    [battery_percentage |-> Byte(23), bat_health |-> Byte(16), bat_cycle_num |-> Byte(17),
     bat_cap_remain |-> Word(24), charge_remain_time |-> Word(19),
     discharge_remain_time |-> Word(21),
     cell_voltage_1 |-> Word(2), cell_voltage_2 |-> Word(4), cell_voltage_3 |-> Word(6),
     cell_voltage_4 |-> Word(8), cell_voltage_5 |-> Word(10), cell_voltage_6 |-> Word(12),
     cell_voltage_7 |-> Word(14)]

Layout ==
    [temps |-> [bat_temp1 |-> Celsius(0), bat_temp2 |-> Celsius(2),
                inverter_temp1 |-> Celsius(4), inverter_temp2 |-> Celsius(6)],
     battery |-> BatteryBlock,
     totals |-> [charge_power_all |-> Word(0), discharge_pow |-> Word(2)],
     ac |-> [ac_discharge_pow |-> Word(6)],
     ports |-> [car_discharge_pow |-> Word(8), usb_discharge_pow |-> SumOfFour(0)],
     work_mode |-> [work_mode |-> Byte(0)],
     light |-> [lamp_sw |-> Flag(0)],
     switches |-> [switch_ac |-> Flag(7), switch_dc |-> Flag(3), usb_sw |-> Flag(2)]]

\* A payload that ends before a value leaves its key out.
TelemetryFromFrame(op, d) ==
    LET reads == IF op \in DOMAIN Layout THEN Layout[op] ELSE <<>> IN
    [k \in {k \in DOMAIN reads : ReadAs(reads[k], d) # None} |-> ReadAs(reads[k], d)]

\* BLE_RAW_KEYS: frames whose payload is shown as it came.
RawKey ==
    [fault |-> "raw_frame_01", ac |-> "raw_frame_0b", ports |-> "raw_frame_0c",
     brightness |-> "raw_frame_10", screen_timeout |-> "raw_frame_11",
     dc_charge_current |-> "raw_frame_14", low_battery_alarm |-> "raw_frame_15",
     timers |-> "raw_frame_17"]

Raw(op, d) == [k \in {RawKey[o] : o \in DOMAIN RawKey \cap {op}} |-> d]

\* dict.update
Updated(dict, values) ==
    [k \in DOMAIN dict \cup DOMAIN values |->
        IF k \in DOMAIN values THEN values[k] ELSE dict[k]]

Values(op, d) == Updated(TelemetryFromFrame(op, d), Raw(op, d))

-----------------------------------------------------------------------------
\* What a unit that fills in n bytes sends of a block, and what that says.
Filled(b, n) == SubSeq(b, 1, IF n < Len(b) THEN n ELSE Len(b))

Reports ==
    [op \in Opcodes |-> [b \in Blocks[op] |-> [n \in Sizes |-> Values(op, Filled(b, n))]]]

Report(op) == Reports[op][unit[op]][size]

Idle == [stage |-> "idle", want |-> 0]

Init ==
    /\ up = FALSE /\ data = <<>> /\ lamp = Idle
    /\ size \in Sizes
    /\ unit \in {u \in [Opcodes -> UNION {Blocks[op] : op \in Opcodes}] :
                    \A op \in Opcodes : u[op] \in Blocks[op]}
    /\ changes = 0

\* A new link: .data is what it was.
Connect ==
    /\ ~up
    /\ up' = TRUE
    /\ UNCHANGED <<data, size, unit, changes, lamp>>

\* The link goes; a write in flight will fail.
Drop ==
    /\ up
    /\ up' = FALSE
    /\ lamp' = IF lamp = Idle THEN Idle ELSE [lamp EXCEPT !.stage = "lost"]
    /\ UNCHANGED <<data, size, unit, changes>>

\* A good frame: every value it carries is merged into .data.  (Variant: only
\* keys .data has not got.)
OnNotifyNewKeys(op) ==
    /\ up
    /\ data' = Updated(Report(op), data)
    /\ UNCHANGED <<up, size, unit, changes, lamp>>

OnNotify(op) ==
    /\ up
    /\ data' = Updated(data, Report(op))
    /\ UNCHANGED <<up, size, unit, changes, lamp>>

\* set_device_info("lamp_sw", v): write, wait for the answer, patch .data.
LampCalled(v) ==
    /\ up /\ lamp = Idle /\ changes < Changes
    /\ lamp' = [stage |-> "writing", want |-> v]
    /\ changes' = changes + 1
    /\ UNCHANGED <<up, data, size, unit>>

LampApplied ==
    /\ lamp.stage = "writing"
    /\ unit' = [unit EXCEPT !["light"] = <<lamp.want>>]
    /\ lamp' = [lamp EXCEPT !.stage = "applied"]
    /\ UNCHANGED <<up, data, size, changes>>

LampDone ==
    /\ lamp.stage = "applied"
    /\ data' = Updated(data, [lamp_sw |-> lamp.want])
    /\ lamp' = Idle
    /\ UNCHANGED <<up, size, unit, changes>>

LampFails ==
    /\ lamp # Idle
    /\ lamp' = Idle
    /\ UNCHANGED <<up, data, size, unit, changes>>

\* The unit's readings move, or a button is pressed.
UnitChanges(op) ==
    /\ changes < Changes
    /\ changes' = changes + 1
    /\ \E b \in Blocks[op] : unit' = [unit EXCEPT ![op] = b]
    /\ UNCHANGED <<up, data, size, lamp>>

Lamp ==
    "light" \in Opcodes
    /\ (LampCalled(0) \/ LampCalled(1) \/ LampApplied \/ LampDone \/ LampFails)

Next == Connect \/ Drop \/ Lamp \/ \E op \in Opcodes : OnNotify(op) \/ UnitChanges(op)

Spec == Init /\ [][Next]_vars

\* While the link is up every block is pushed again and again; a write ends.
FairSpec ==
    /\ Spec
    /\ \A op \in Opcodes : WF_vars(OnNotify(op))
    /\ WF_vars(LampDone \/ LampFails)

-----------------------------------------------------------------------------
\* const.py's SWITCHES.
Switches == {"switch_ac", "switch_dc", "usb_sw", "lamp_sw"}

\* The keys of raw frames.
RawKeys == {RawKey[op] : op \in DOMAIN RawKey}

TypeOK ==
    /\ up \in BOOLEAN
    /\ size \in Sizes /\ changes \in 0 .. Changes
    /\ lamp.stage \in {"idle", "writing", "applied", "lost"} /\ lamp.want \in {0, 1}
    /\ \A k \in DOMAIN data \cap Switches : data[k] \in {0, 1}

Pairs(f) == {<<k, f[k]>> : k \in DOMAIN f}

\* What the unit's full blocks say.
Readings ==
    UNION {UNION {Pairs(TelemetryFromFrame(op, b)) : b \in Blocks[op]} : op \in Opcodes}

\* A model that fills in fewer bytes has fewer readings, never other ones: every
\* value is one that some full block of the unit carries, whatever byte the
\* payload stops at, or what the flashlight was set to.
NoValueIsMadeUp ==
    \A k \in DOMAIN data \ (RawKeys \cup {"lamp_sw"}) : <<k, data[k]>> \in Readings

\* .data says what the unit holds of a block.
Said(op) == Pairs(Report(op)) \subseteq Pairs(data)

\* Once the link stays, .data comes to say of every block what the unit holds,
\* whatever reports and optimistic updates of the flashlight crossed.
SettlesOnTheUnit == <>[](up /\ lamp = Idle) => <>[](\A op \in Opcodes : Said(op))

\* Its safety half: once .data says what a block holds, no other block's report,
\* no break of the link and no command but the block's own takes that back.
StaysSaid ==
    [][\A op \in Opcodes :
          Said(op) /\ unit'[op] = unit[op] /\ (op = "light" => lamp = Idle) => Said(op)']_vars
=============================================================================
