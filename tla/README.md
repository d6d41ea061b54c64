# Specifications of ugreen-powerroam

TLA+ models of the Home Assistant integration in
`custom_components/ugreen_powerroam/`, TLC runs that check them on small instances,
and TLAPS proofs of their safety properties for every value of the constants.

File and line references are to the repository, without the directory
`custom_components/ugreen_powerroam/`.

- [The system](#the-system): its parts, their state, how they interact, what is hard
- [The modules](#the-modules): what models what, action by action
- [The runs](#the-runs): what is checked, bounds, fairness
- [What the runs found](#what-the-runs-found)
- [The proofs](#the-proofs)
- [What is assumed, and what is left out](#what-is-assumed-and-what-is-left-out)
- [Plan](#plan)

## The system

A power station ("unit") is followed by one config entry, over one of two transports.
Everything runs on one asyncio event loop, so code between two `await`s is atomic and
every `await` is a place where other tasks, callbacks and timers run.

| Part | Source | State | Operations | Interacts with |
|---|---|---|---|---|
| Bluetooth connection | `ble.py:202-353` | loop task, backoff, `_client`, `_disconnected`, `_notify_handle`, `_stopped` | `start`, `stop`, `_run`, `_connect_once`, `_disconnect`, `_on_disconnect`, `_schedule_notify` | bleak (awaits, disconnect callback), entities (listeners), control |
| Bluetooth control | `ble.py:254-289`, `protocol.py:225-308` | `_switch_state`, `data` | `set_device_info`, `_write`, the 0x16 branch of `_on_notify` | the unit (whole-block writes, answers, reports), switch entities |
| Stream decoder | `protocol.py:131-196`, `ble.py:357-375` | `_buffer` | `decode_stream`, `_on_notify` | bleak's notifications |
| Telemetry mapping | `protocol.py:311-452` | none | `telemetry_from_frame`, `u16` | decoder, `data` |
| Cloud hub | `api.py:182-312` | loop task, `_connected`, keepalive task, `failures`, `backoff`, `data` | `start`, `stop`, `_run`, `_connect_once`, `_keepalive` | UGREEN's socket, API client, entities |
| API client | `api.py:66-180` | `token`, `user_id`, `device_name`, `sn` | `login`, `relogin`, `refresh_device`, `set_device_info` | UGREEN's HTTPS API |
| Energy meter | `energy.py`, `sensor.py:150-217` | `total_kwh`, `_power_w`, `_since` | `update`, `_advance`, `async_update`, restore | either hub, Home Assistant's poll and storage |
| Sensors, switches | `sensor.py`, `switch.py` | what they last wrote | listener callbacks, `async_turn_on/off` | either hub |
| Entry setup, unload | `__init__.py` | `hass.data` | `async_setup_entry`, `async_unload_entry` | hubs, platforms |
| Config flow, serial probe | `config_flow.py`, `ble.py:413-454` | unique id, address, list shown | the steps; `async_probe_serial` | Home Assistant's flow manager, the unit, the cloud |
| Diagnostics | `diagnostics.py` | none | redact a snapshot | everything, read only |

What makes each part correct, and hard to test:

- **Bluetooth connection.** The unit accepts one link. A link that some path forgets
  locks out every later attempt, and the paths are many: a drop while connecting,
  subscribing or asking for the serial, a cancellation by `stop()` at any of these
  awaits, a disconnect that fails or swallows the cancellation. The loop must survive
  all of it, come back, and end when told to. Entities learn of anything only by being
  called, so every way a link ends or begins must call them, and coalescing must not
  lose a change.
- **Bluetooth control.** Opcode 0x16 replaces eleven settings at once, in another
  layout than the unit reports them. A command reads the cache, waits for the write,
  and writes the cache: other commands, reports and link losses fall into that wait.
- **Cloud hub.** A half-open socket looks healthy; only a deadline finds it. Tokens
  expire; a re-login has three requests that fail one by one. `stop()` does not wait.
- **Decoder.** Notifications cut frames anywhere, damage may hit a length, padding and
  half a header look alike.
- **Energy meter.** Polls, reports, breaks and restarts end intervals in any order; a
  total may be neither counted twice nor fall.
- **Config flow.** A flow waits for a user, a probe, a login, while other flows create
  entries. Its unique id changes on the way. The probe takes the unit's only link, and
  must give it back whatever fails, and return what it heard however late.
- **Telemetry mapping.** Units of other models fill in fewer bytes. A value read past the
  end of what was sent would be made up.
- **Commands over the cloud.** Requests and telemetry use different connections: an answer
  overtakes a frame or is overtaken by one, is lost after the unit was switched, or is a
  refusal. A re-login reads the device list again, beside all that.
- **Entry.** A set-up fails half way, is retried, reloaded, or unloaded while a hub still
  holds the link; no entity may be left with a hub that is gone.

`PROJECT.json` lists these hazards one by one, each at its line, with the properties
that cover it, or why none does.

## The modules

| Module | Models | Proofs |
|---|---|---|
| `HubSurface` | what entities may rely on of either transport: the abstract hub | - |
| `BleLink` | the connection side of `UgreenBleDevice`; implements `HubSurface` | `BleLinkProofs` |
| `BleControl` | concurrent control calls, both 0x16 layouts, the caches | `BleControlProofs` |
| `FrameStream` | `decode_stream` and the buffer between notifications | `NotifyProofs` |
| `Telemetry` | `u16`, `telemetry_from_frame`, raw frames, their merging into `.data`, the light | `NotifyProofs` |
| `CloudHub` | `UgreenTelemetryHub` and the re-login; implements `HubSurface` | `CloudHubProofs` |
| `CloudControl` | commands over HTTPS against telemetry, token and device list | `CloudControlProofs` |
| `EnergyMeter` | `UgreenEnergySensor` and `PowerIntegrator` on either hub | `EnergyMeterProofs` |
| `Entry` | set-up, retry, reload and unload of an entry | `EntryProofs` |
| `ConfigFlow` | the config flow, with the serial probe taken as its outcome | `ConfigFlowProofs` |

How they compose: `BleLink` and `CloudHub` each `INSTANCE HubSurface` and are shown to
implement it; the others take the outcome of a neighbour as a choice (`ConfigFlow` of the
serial probe, `CloudControl` of `CloudHub`'s loop, `Entry` and `EnergyMeter` of either
hub).

Each but `HubSurface` has a module `...MC` that gives TLC the values of its constants, and a `.cfg` per
run. Some actions have a twin before them, called a *variant* in its comment: the same
action with a plausible slip (a guard dropped, a reset forgotten). No specification
uses a variant; each is there to show that a property notices it, by putting it in the
place of the real one.

### HubSurface

What `sensor.py` and `switch.py` know of a hub: `.available` (`up`), `.data`, and being
called. `Rises` is the promise that counts: a hub becomes available again only when no
attached entity shows itself available from before, so an outage, however short, is
always shown. `Told` says that an entity shows nothing but what the hub said at one
moment. `Settles` is the liveness: entities agree with the hub again and again.

| `HubSurface` | `BleLink` | `CloudHub` |
|---|---|---|
| `up` | `Available`: a client that is connected | `connected` |
| `data`, `entities`, `seen` | the same | the same |
| `Rises` | `Connected`, while every entity shows unavailable | `Subscribed` |
| `Falls` | the link drops or is closed, told later | the `finally` clause, told at once |

### BleLink

`pc` is where the loop task is suspended; an action is what runs up to its next await.

| Code | Actions |
|---|---|
| `_run` | `StartsAttempt` / `AttemptVisible` / `AttemptInvisible`, `AfterAttempt` |
| `establish_connection` | `UnitAccepts`, `AttemptDrops`, `EstablishFails` |
| `_connect_once` | `Connected`, `Subscribed`, `Asked`, `WaitReturns`, `LinkError` |
| `_disconnect` | `Close`, `DisconnectReturns` |
| cancellation by `stop()` | `CancelledInLink`, `CancelledOutside` |
| `_on_disconnect` | `posted` (queued by `call_soon_threadsafe`), `EventSet` |
| `_schedule_notify` | `NotifyNow` inside other actions; `timer`, `TimerFires` |
| `_on_notify` | `OnNotify`: a report with or without the serial changes `data`, arms the timer |
| `set_device_info` | `CommandSent`, `CommandDone`, `CommandFails` |
| setup and unload | `Attach`, `Detach`, `StopCalled`, `StopReturns` |

`seen` is what the entities wrote when last called: `.available` and `.data` at that
moment. `link` is the radio link of the current client (`up`) or of a client that
nobody refers to any more after its `disconnect()` failed (`orphan`); an orphan keeps
the unit busy until it drops.

### BleControl

A caller goes from `writing` to `applied` (the unit has taken the block), `answered`
(its response has arrived) and back to `idle` when it resumes; `broken` is a write cut
off by the link. At any of these a call may fail (`Fail`: an error, a timeout, a caller
that is cancelled), and an answer still on its way then has nobody to go to
(`Unawaited`, `Unheard`). `ForeignChange` is a hand at the unit or in the app: it changes
any setting of the block, with a switch here or without (`Choices` gives its values).
`channel` holds reports and answers in the order in which the unit sent
them: a report sent before a write was applied may arrive while the caller waits.
`EncodeSwitchState` and `DecodeSwitchState` convert by name between the two layouts,
with the inverted and the raw field; `BleControlMC` has the layouts of `protocol.py` as
they are.

Two variables are history, read by properties only. `had` is what the owner has set each
field to so far. `doubt` is the set of fields that changed at the unit, by a hand or by a
command, without Home Assistant having been told: a report takes the fields it carries
out, and puts in those that changed after it was made; a call that resumes restores what
was in doubt when it copied the cache, with what was changed by hand since.

### Telemetry

A frame is an opcode and a payload. `Layout` has every offset of `telemetry_from_frame`,
each with the way it is read; a payload that ends before a value leaves its key out.
`size` is how many bytes the unit's model fills in; `Reports` says, for every block and
size, what the frame comes to. `OnNotify` merges what a frame gives
into `.data`; `Connect` and `Drop` leave `.data` alone, as the code does. The light is
here and not in `BleControl` because its write has no cache: `LampCalled`, `LampApplied`
(by the unit), `LampDone` (the optimistic update of `ble.py`), `LampFails`.

### CloudHub

One action per await of `_run`, `_connect_once`, `_keepalive`, `relogin` and `login`;
the latter's three requests are `key`, `login` and `devices`. Time is counted only while
the socket is read, as `quiet` (since the deadline was set), `sleep` (of the keepalive
task) and, for the properties, `unheard` (since telemetry). `failures` saturates at
`ReloginAfter`, since the code only compares it with that.

### CloudControl

A call is `sent`, then `taken` or `refused` by the server, and ends with `Answered` (the
switch's optimistic update of the `.data` there is by then) or `Fails`. `frames` is the
telemetry under way on the socket, in order; nothing orders it against answers. `unit` is
what the API client remembers of the device list, `watched` the unit in the socket's URL.
`LoggedIn`, `Listed` and `ListFails` are
`relogin()`. When the loop logs in is left open: it may whenever the socket is down, which
includes everything `CloudHub` does. Three variables are history: `held`, what each switch
has ever been, `source`, the unit that the last frame put into `.data` came from, and
`heard`, that the socket has had a frame read.

### EnergyMeter

Instead of a clock the module keeps what the code computes from it: the age of the last
frame and the time since `_since`. `Advance` is `PowerIntegrator.update` as called by
`_advance`, with the live reading of the hub after the step. On the cloud a change of the
socket and its notification are one step (`api.py:280-281`, `311-312`). Over Bluetooth
`.available` follows the radio at once, and the notification comes later
(`LinkChanges`, `NotifyNow`). `ledger` adds up, tick by tick, the reading that is held;
`overrun` counts the ticks held without a live reading. Energy is in watts times ticks;
a watt-hour is `WattHour` of them, and `Rounded` is `native_value`. Halves are rounded
up where Python rounds to even, which is the same for the odd `WattHour` of the run;
the proofs hold for either parity.

### FrameStream

The loop of `decode_stream` is the recursive function `Loop`: for every position what
comes of going on there, which is `Round`, one time through the loop, applied to what
comes of going on at later positions. Prefix and opcode, which the loop does not look at,
are left out; length and checksum take one byte each. What it should find is stated about
the whole stream at once: `Counts` is the set of places where a good frame starts that is
neither inside an earlier one nor behind a header whose bytes are still awaited.

### Entry

`transport` is what the entry was made for, one run has both.
`stage` is where `async_setup_entry` or `async_unload_entry` is suspended, `state` Home
Assistant's state of the entry. Every set-up makes a new hub; `stored` is the one in
`hass.data`, and `attached` says which hub each platform's entities listen to. A hub is
`running`, `stopping` or `stopped`; the Bluetooth unload waits for the end of `stop()`
(`UnloadOk`, `StopReturns`), the cloud's does not. `link` is the hub that has the unit's
only link, or had it when it ended: a disconnect that fails or is cancelled is suppressed
(`ble.py:352-353`), so `HubEnds` may leave the link behind, as `BleLink`'s `orphan`,
until the unit drops it. `dropped` is history: hubs of set-ups whose forwarding of platforms failed,
which nothing stops.

### ConfigFlow

A flow is a record of where it waits. Steps without an await between them are one
action, so looking for an entry and creating one are atomic, and waiting for the user, the
probe or the cloud is not. The unique id of a waiting flow is the address of its unit
(`HasUid`). `CreateEntry` is what Home Assistant does: it drops the other flows of the
same unique id, and replaces the entry that had it.

## The runs

Every passing run finishes over the complete state space of its instance.

| Run | Instance | Shows |
|---|---|---|
| `BleLink` | two contents of `.data`, backoff 5 to 15 | no live link without an owner; `stop()` comes back and leaves nothing running; the device keeps coming back; it implements `HubSurface`, and entities catch up |
| `BleControl` | one caller, real layouts, short and whole reports, one drop, calls that fail at any point, one change by hand of `ac`, `ac_frequency_hz` or `battery_health`, two messages in flight | no setting gets a value its owner never gave it; answered means set; caches agree; besides its own switch a command moves only what changed unreported; entities settle on the unit |
| `FrameStream` | four byte values, payloads of at most one byte, every stream of eight bytes in cuts of one and two | cuts are invisible; good frames found; buffer bounded |
| `Telemetry` | five blocks of the real length, every model from 0 to 28 bytes, two changes | no value is made up; `.data` settles on the unit, whatever reports and optimistic updates crossed |
| `CloudHub` | two contents of `.data`, re-login after two failures, deadline of three ticks, one token expiry | entities always show the hub; keepalives die with their socket; `stop()` ends the loop; half-open sockets and expired tokens are got over; it implements `HubSurface` |
| `CloudControl` | two units, one switch, two calls, two frames under way | from the first frame of a socket on, commands go where the data is from; nothing is shown that never was; lost, late and refused answers are put right by telemetry |
| `EnergyMeter` | readings -1, 1, 2 and none, stale after two ticks, poll every three, ten ticks, one crash | every tick counted once; overrun at most a poll; nothing held while the socket is down; the total never falls |
| `Entry` | either transport, both platforms, three hubs | entities have their hub; every running hub is reachable but those of failed forwardings; over Bluetooth, no earlier hub that is still at work has the link of a new one |
| `ConfigFlow` | three flows, two units | entries never replaced; no flow waits for what is configured; duplicates have a failed probe |
| `BleControlTwo` | two callers, nothing else | violation: a command moves another switch |
| `CloudStall` | ticks of five seconds | violation: silent telemetry goes unnoticed |
| `CloudRelogin` | re-login after three failures | violation: a re-login after three failures with a connection made among them |

Why the bounds are enough:

- `BleLink`: the only number is the backoff. 5, 10, 15 takes it through doubling, the
  cap and the reset. Two contents of `.data` make "changed" and "the same again" differ.
- `BleControl`: interference needs one drop and one change by hand; each bound gives one,
  and with two messages in flight a report can be ahead of or behind an answer. Calls and
  failures have no bound. `ForeignFields` has a field of each kind: one with a switch, a
  raw one, and a flag without a switch. The run has one caller, because `BleControlTwo`
  shows what two do. For any number of overlapping calls it is proved that no setting is
  given a value its owner never gave it, and for any number of callers whose calls do not
  overlap, that answered means set, the caches agree, and only the unknown moves too. The
  run takes some three minutes (a million states).
- `CloudHub`: the deadline lies between the third and the fourth keepalive (90 and 25
  seconds), which `StallTicks = 3` with a tick per keepalive keeps. With
  `ReloginAfter = 2` a first failure does not log in and a second does. `CloudStall`
  has ticks of five seconds: 18 and 5.
- `EnergyMeter`: a tick is ten seconds (stale after 20, poll every 30). Ten ticks hold
  three polls, a silence, its end and a restart. The theorems have no bound.
- `FrameStream`: a frame is four or five bytes, so eight hold a good frame behind or
  inside a damaged one, two frames back to back, or a half header at a cut. Bytes 2 and 3
  are both header bytes and impossible lengths.
- `Telemetry`: the blocks have the lengths the unit was seen to send
  (`tests/test_protocol.py`) and a different byte at each place, so a value read at a
  wrong place, or cut in the middle, shows. Between them they have all five ways in which
  a value is read, and a raw frame. Crossing needs one command and one change.
- `CloudControl`: two calls are enough to overlap, two frames for one from before a
  command and one from after it, two units to tell which is meant. The loop begins without
  a socket, so one break gives a second one, with a re-login before either, after which
  `.data` may be of the unit that was first before. The theorems have no bound.
- `Entry`: with three hubs one can be dropped, one replaced and one started anew.
- `ConfigFlow`: interference needs two flows for one unit and one flow more that
  outruns them.

Deadlock is checked except where the system may really stop: in `BleLink` and `CloudHub`
(with `CloudStall` and `CloudRelogin`) when `stop()` has returned, or the loop has ended,
and every entity is detached; in `Entry` when the bound on hubs is used up; in
`CloudControl` when the bounds on events are.

Fairness, and why the code justifies it:

- A step of a task whose await is over is taken (`WF` of `Task`, `Loop`, of timers and
  queued callbacks): the event loop runs what is ready, and the bleak and aiohttp calls
  have timeouts of their own.
- The unit is seen, accepts a link, and stays through a connect *again and again*
  (`SF` of `AttemptVisible`, `UnitAccepts` and `Connected /\ link = "up"`), and so does
  the cloud's server with the socket and the login (`SF` of `SocketOpens`, `Subscribed`,
  `KeyReceived`, `LoggedIn`). These are assumptions about the world, without which
  no program could keep a connection.
- The unit reports again and again (`SF` of `SendReport` with a whole block), and what
  arrives is handled, report or answer (`WF` of the steps that take a message off
  `channel`): it pushes its status every 0.6 s (`const.py:47-49`). (`BleControl`)
- While the link is up, every block is pushed again and again (`Telemetry`), and a write
  ends, with an answer or an error.
- Over the cloud, telemetry is sent and read, every request ends (`aiohttp` has its
  timeout), and the socket opens again and again (`SF` of `SocketOpens` in
  `CloudControl`).
- Nothing is assumed of the user, of callers, of drops, or, in `CloudHub`,
  of the arrival of telemetry.

## What the runs found

Three runs are expected to end in a violation; each shows a place where the code does
not do what the repository says it does.

| Run | What happens |
|---|---|
| `BleControlTwo` | Two switches toggled at once (a scene): the second command copies the cached block during the first one's write, and puts the first switch back (`ble.py:274-278`; the comment at `ble.py:266-268`). |
| `CloudStall` | Telemetry stops, keepalives are still acknowledged: every acknowledgement renews the deadline of 90 s, and the last reading is shown as live for ever (`api.py:287-289`; `const.py:22-24`). |
| `CloudRelogin` | `_connect_once` never returns, so the reset after it is never reached: a connect fails, the next connection is made and later closed by the server, one more connect fails, and the hub logs in again, though only two failures, the end of that connection and the last connect, followed a connection that was made (`api.py:226-228`; `tests/test_reconnect.py:200-201`). |

Other differences met while modelling, which no run shows. The modules have the behaviour
of the first six, the timer and the callback; the others are read off the code.

- The cached block is kept over a reconnect, and by a call that fails after the unit took
  its write. A command sent before the next report is encoded from it, and puts back what
  changed in between: a switch, or a setting without one. Battery preservation turned on
  in the app while Home Assistant had no link is turned off again by a toggle of `ac` that
  is quicker than the first report (`ble.py:269-276`), though the transport "refuses to
  send one before the device has reported in" (`README.md:280-281`) and the check is there
  so that no such setting changes (`ble.py:266-268`). With the link up, a change at the
  unit that the command crosses on its way is put back too. `OnlyUnknownsMoveToo` and
  `NoSettingInvented` are what does hold: nothing else moves, and a setting without a switch
  only to an older value of the owner's.
- A disconnect that fails, or is cancelled by `stop()`, is suppressed (`ble.py:352-353`):
  an unload returns, and a reload makes its hub, with the old link perhaps still up; the
  unit's only link is then taken until it drops. `LinkIsFree` is what does hold: no other
  hub still at work is in the way.
- A unit configured under its serial is offered again under its address; the probe fails,
  as it does while the first entry holds the unit's only link, and a second entry is
  created (`config_flow.py:157-161`; `README.md:191-193`). `TwoEntriesMeanFallback` is what
  does hold.
- After a reconnect `.data` of the link before counts as live until each block has been
  reported again (`ble.py:135`; the docstring at `ble.py:129`).
- Over an open but silent Bluetooth link the last reading is counted beyond the 20
  seconds, up to the next poll (`sensor.py:192`; `README.md:110-112`), and when the cloud
  socket comes back the reading from before the outage is counted on with until telemetry
  arrives (`sensor.py:196`; the docstring at `sensor.py:156-158`). `OverrunBounded` and
  `NothingHeldWhileDown` are what does hold.
- A re-login reads the device list again; if it begins with another unit by then, entities
  made for the first show and switch that one (`api.py:145`; `README.md:322`: the list "is
  read once at setup"). From the socket's opening to its first frame they still show the
  first unit, whose `.data` is kept, and switch the other, and the answer to a command
  given before then changes what is shown of whichever unit `.data` is of when it comes.
  `CommandsGoWhereDataIsFrom` is what does hold: from the first frame of a socket on,
  commands go to the unit whose telemetry is shown.
- A listener that raises at `api.py:281`, before the `try` whose `finally` takes
  `_connected` back, leaves the hub available, and a keepalive task running, with no socket
  open (the docstring at `api.py:196-199`). It takes telemetry that Home Assistant refuses
  to write.
- The serial probe decodes each notification by itself (`ble.py:433`), so a unit that
  answers in two notifications is taken for one that does not answer.
- A frame that arrives while `stop()` waits leaves a debounce timer behind, which
  `tests_ha/test_ble.py:544` rules out for a device that was never started.
- A disconnect callback does not look which client it is for (`ble.py:341`): the late end
  of a forgotten link ends the next one. It costs a reconnect.
- A short 0x16 report makes a command end in a `ValueError` that callers do not expect
  (`protocol.py:294`).

## The proofs

The proofs are of `Spec`, for all values of the constants that satisfy the named
assumptions of the modules, and check with no obligation left.

| Module | Theorems | Assumptions used |
|---|---|---|
| `BleLinkProofs` | the invariants of the run; `BreakIsRemembered`, `ShownUpIsOwned`, `ChangeIsOnItsWay`, `OnlyStopEndsLoop`, `LostRestartsBackoff`, `NoAttemptAfterStop` and `WindsDown`, which no run repeats; `DeviceIsAHub`: every step is one of `HubSurface`'s | backoff bounds are ordered natural numbers, the first positive |
| `BleControlProofs` | `TypeOK` and `NoSettingInvented` for any two layouts, any callers and bounds; that writing back a report changes nothing; `StaysSettled`; for behaviours in which calls do not overlap (`Alone`), `AnsweredMeansSet`, `CachesAgree` and `OnlyUnknownsMoveToo` | layouts name each field once; switches are fields that are sent, neither raw nor inverted; "not known" is no bit and no state |
| `NotifyProofs`, of `FrameStream` | `CutsAreInvisible`, `GoodFramesAreFound`, `BufferIsBounded`, for streams and payloads of any length over any bytes, and any checksum; `DecodingGoesOn` | the two header bytes differ; a frame that lacks a byte fits into the buffer (`BufferAssumption`; in the code 264 bytes at most, into 1024) |
| `NotifyProofs`, of `Telemetry` | that decoding a payload cut short only omits, for every opcode and payload; that no key has two sources; `NoValueIsMadeUp` and `StaysSaid` for any blocks, and `TypeOK`, which no run repeats | blocks are bytes; both contents of the light's block are possible; `None` is no integer |
| `CloudHubProofs` | the two invariants of the run, `TypeOK` and `OnlyStopEndsLoop`, which no run repeats, `DeadlineStands`, and `CloudIsAHub` | backoff as above, positive thresholds |
| `CloudControlProofs` | `TypeOK`, `CommandsGoWhereDataIsFrom`, `ShownWasSo` and `StaysSettled` for any units, switches, calls and frames | "no data" is no setting |
| `EnergyMeterProofs` | the four invariants and `TotalNeverFalls` | polling interval and watt-hour are positive, the mark for no reading is no integer |
| `EntryProofs` | the four invariants, for either transport and any number of hubs and platforms | none beyond the types |
| `ConfigFlowProofs` | the two invariants, `NeverReplaces`, and `TypeOK`, which no run repeats | none |

None of the safety properties is inductive by itself. What was missing, module by
module:

- **BleLink.** `LinkIsOwned` needs to know when `_client` is set: exactly while the task
  is inside the `try` of `_connect_once` (`ClientWhileInLink`). That nothing starts after
  `stop()` needs that the cancellation is on its way, or was swallowed by the disconnect
  that is under way, or has ended the task (`CancelReachesTask`).
- **BleControl.** Say a state is *faithful* when every field without a switch has a value
  in `had`. Decoding a report of a faithful unit, changing one switch and encoding for the
  other layout keep faithfulness, because each goes through the fields' names. So the
  unit, every message under way, the cache and every caller's copy are faithful together,
  however old; a hand at the unit adds to `had` only. A conversion by position would break
  the first link of that chain.
  `AnsweredMeansSet`, `CachesAgree` and `OnlyUnknownsMoveToo` are about one call at a time
  (`BleControlTwo` shows what overlapping ones do), so their theorems are of `Spec /\ []Alone`: any number
  of callers, one inside `set_device_info` at a time. With the one caller of the run
  `Alone` is always true. What they need is that everything Home Assistant holds is what
  the unit is set to, but for the fields in doubt: of the cache (`CacheTrue`), of a report
  under way, with the doubt it carries (`ReportsTrue`), of a caller's copy (`CopyTrue`), and
  of what is shown (`ShownTrue`). A write in flight is then a copy of what the unit is set
  to, but for its own switch and what was in doubt when it was made. A break of the link
  or a failing call changes neither side of these, which is why they hold over them.
- **FrameStream.** `CutsAreInvisible` is not inductive: it says nothing of the bytes that
  come next. `StreamInv` says that for every continuation of the stream the frames
  handled so far, with those of the kept bytes and the continuation, are those of the whole
  stream decoded at once. It is kept because decoding can be cut anywhere
  (`DecodingGoesOn`): more bytes change no frame that was complete, and the bytes from a
  header on are decoded as if nothing had been before them (`Shifted`). What is kept lacks
  a byte of a frame (`WhatIsKeptWaits`); that is `BufferIsBounded`, and by
  `BufferAssumption` the buffer is never thrown away. `GoodFramesAreFound` is then about
  one decoding of a whole stream: at a position that is inside no good frame and behind no
  awaited header (`Clear`), the loop finds the frames from there on and no others
  (`LoopFinds`). All of this is by induction from the end of the buffer back, since the loop at
  a position is defined by later ones. The library's induction theorems cannot be used
  here, but that a set of naturals that is not empty has a least element can (`Least`,
  `Induction`, `InductionDown`, said of a set of positions).
- **CloudHub.** The hub counts as connected exactly while its task reads the socket, and
  a cancellation is on its way or has taken effect exactly after `stop()`.
- **Refinements.** `Rises` asks that no entity shows itself available when the hub comes
  up. In `BleLink` this follows from `ShownUpIsOwned`: what is shown as available rests on
  a client, and a new link is made only when there is none. In `CloudHub` it follows from
  `ShownIsTheHub`.
- **Telemetry.** What `.data` says comes from full blocks because every frame's does
  (`TruncationOnlyOmits`), by cases over the five ways in which a value is read. Blocks do
  not undo each other because no key has two sources (`KeysApart`).
- **Safety halves of liveness.** `StaysSettled` (`BleControl`, `CloudControl`), `StaysSaid`
  (`Telemetry`), `DeadlineStands` (`CloudHub`) and `WindsDown` (`BleLink`) are the parts of
  `SettlesOnTheUnit`, `HalfOpenIsNoticed` and `StopReturnsEventually` that need no fairness: what has been reached is not lost again, old
  reports and frames under way only run out (`OldReportsRunOut`, `OldFramesRunOut`), and a
  deadline is not put off. After `stop()` the loop task has two steps at most left, and
  waits for bleak or has a cancellation pending. That reports come and time passes is left to the runs.
- **CloudControl.** Frames under way say what was so, and what the server has taken is so
  from then on; both are in the invariant. `CommandsGoWhereDataIsFrom` needs two facts
  (`Watching`): the device list is read only while there is no socket, so an open socket
  is that of the unit commanded, and once it has had a frame read, `.data` is from there.
- **Entry.** The invariant says of every stage what it knows of the stored hub and of the
  platforms (`Stages`), and that over Bluetooth a stopping hub holds up its unload, so
  that a link which is not the new hub's is that of a hub dropped or ended (`Links`).
- **EnergyMeter.** `OverrunBounded` holds because the overrun lies within the interval
  that runs, whose length the poll bounds, and a reading that is advanced over while
  there is no live one is dropped. `TotalNeverFalls` needs that what Home Assistant has
  stored is whole watt-hours, so that rounding it once more does not lower it.
- **ConfigFlow.** A flow whose probe fails creates its entry without looking whether the
  address is configured by now. It need not look: an entry that was created meanwhile
  has taken the flows of its id with it (`WaitingIsUnconfigured`). Hence no two entries
  share an id.

Only model-checked: the liveness properties (`StopReturnsEventually`, `KeepsReconnecting`,
`KeepsTelling`, `SettlesOnTheUnit`, `StopEndsLoop`, `HalfOpenIsNoticed`, and `HubSurface`'s
`Settles`), since TLAPS proves no liveness under fairness and no `ENABLED`. Every invariant
and action property of the passing runs is a theorem.

## What is assumed, and what is left out

Assumed of code that is not in this repository:

- *bleak*: `establish_connection` cancelled or failing leaves no link behind;
  `disconnect()` may fail and leave one that drops by itself some day; the disconnect
  callback is called, from another thread, for every link that ends; a write ends with an
  answer, an error, or the link.
- *the unit*: one link at a time; takes a write, then answers it; sends reports and
  answers in order.
- *aiohttp, the server*: a socket opens only with a valid token; frames may stop without
  the socket closing; a command either switches the unit it names or is refused.
- *Home Assistant*: listeners do not raise; set-up and unload
  of an entry wait for each other; an unavailable switch is not called; sensors are polled at a fixed interval; a
  sensor's state is stored now and then and at every orderly end, and restored; the flow
  manager drops the flows of an entry's unique id, and replaces the entry that had it.
- *listeners are called in one step*: they run without an await.

Not modelled:

- `diagnostics.py`: a snapshot of what the hubs hold, in which a pure function of
  dictionaries and strings replaces keys and payloads. It keeps no state, and nothing is
  awaited while it reads.
- The encryption of the password, HTTP error codes, and the shape of a telemetry message
  (`parse_telemetry_frame`): pure functions of data, tested by the repository's tests.
- The serial probe's own steps (`ble.py:413-454`): one attempt that ends with its caller.
  `ConfigFlow` has every outcome of it.
- Listeners that raise.
- The two sensors of the Bluetooth link (`sensor.py:111-148`): polled, without state of
  their own, available whenever they have a value. Entity names, units, icons.
- `scripts/hardware_check.py`: a manual, sequential check of a real unit that is not part
  of the integration. `strings.json`, `manifest.json`: texts and metadata.
- Home Assistant's reauthentication after `ConfigEntryAuthFailed`: the integration has no
  step for it.
- That a command over Bluetooth may end in a `ValueError` after a short report:
  `BleControl` has the report and the call that then ends, but not the type of its error.

## Plan

The modules were written in the order `BleLink`, `BleControl`, `CloudHub`, `EnergyMeter`,
`FrameStream`, `ConfigFlow`, `HubSurface` with its two refinements, `Telemetry`, `Entry`,
`CloudControl`, each but `HubSurface` with its proofs. What could follow:

1. Larger composition: `CloudControl` over `CloudHub`'s own loop instead of an abstract
   one, and `EnergyMeter` over `HubSurface`.
2. The serial probe step by step, and `CloudHub` with listeners that raise.
