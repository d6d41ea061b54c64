----------------------------- MODULE ConfigFlow -----------------------------
(***************************************************************************)
(* The config flow (config_flow.py) with its serial probe (ble.py): which  *)
(* entries come to exist, and under which identity, when discoveries, the  *)
(* user's own additions and removals interleave at every await.            *)
(*                                                                         *)
(* A power station is known by its address over the radio, by its IoT      *)
(* serial to the cloud.  A Bluetooth flow starts with the address as its   *)
(* unique id and hopes to end with the serial.                             *)
(*                                                                         *)
(* External: what units an adapter sees and whether they answer; the       *)
(* cloud; and Home Assistant's flow manager, which drops the other flows   *)
(* of an entry's unique id, and the entry that had it before.              *)
(***************************************************************************)
CONSTANTS
    Flows,  \* flows that may be open at a time
    Units   \* the power stations of the user

VARIABLES
    flows,   \* what each flow waits for
    entries  \* the config entries

vars == <<flows, entries>>

\* Unique ids.
Address(u) == [kind |-> "address", of |-> u]
Serial(u) == [kind |-> "serial", of |-> u]

\* What parse_identity reads from the reply to CMD_GET_SERIAL, where the IoT
\* serial comes first.  (Variant, as shipped in v1.1.0: the device's own.)
DeviceSerial(u) == [kind |-> "device", of |-> u]
ParseIdentity(u) == Serial(u)

\* A flow is not there, shows the list of units, waits for the user to confirm
\* one, for its probe, for credentials, or for the cloud.
NoFlow == [at |-> "none"]
Listing(offered) == [at |-> "list", offered |-> offered]
Confirming(u) == [at |-> "confirm", unit |-> u]
Probing(u) == [at |-> "probe", unit |-> u]
Credentials == [at |-> "credentials"]
SigningIn == [at |-> "login"]

Entry(uid, transport, u) == [uid |-> uid, transport |-> transport, unit |-> u]

Init == flows = [f \in Flows |-> NoFlow] /\ entries = {}

-----------------------------------------------------------------------------
\* The unique id a flow has while it waits: set once a unit is chosen.
HasUid(f, uid) == flows[f].at \in {"confirm", "probe"} /\ uid = Address(flows[f].unit)

InProgress(f, uid) == \E g \in Flows \ {f} : HasUid(g, uid)

\* _abort_if_unique_id_configured
Configured(uid) == \E e \in entries : e.uid = uid

Goto(f, flow) == flows' = [flows EXCEPT ![f] = flow]
Abort(f) == Goto(f, NoFlow) /\ UNCHANGED entries

\* async_create_entry, and what the flow manager does with it.
CreateEntry(f, entry) ==
    /\ flows' = [g \in Flows |-> IF g = f \/ HasUid(g, entry.uid) THEN NoFlow ELSE flows[g]]
    /\ entries' = {e \in entries : e.uid # entry.uid} \cup {entry}

-----------------------------------------------------------------------------
\* async_step_bluetooth: a unit was spotted.
Discovered(f, u) ==
    /\ flows[f] = NoFlow
    /\ ~InProgress(f, Address(u)) /\ ~Configured(Address(u))
    /\ Goto(f, Confirming(u))
    /\ UNCHANGED entries

\* async_step_bluetooth_pick without input: list the visible units whose address
\* is no entry's unique id, unless there are none.
ShowPick(f, visible) ==
    LET offered == {u \in visible : ~Configured(Address(u))}
    IN  /\ flows[f] = NoFlow
        /\ offered # {}
        /\ Goto(f, Listing(offered))
        /\ UNCHANGED entries

\* ... and with the unit picked, some time later.  (Variant: the list is believed.)
PickBelieved(f, u) ==
    /\ flows[f].at = "list" /\ u \in flows[f].offered
    /\ Goto(f, Confirming(u))
    /\ UNCHANGED entries
Pick(f, u) ==
    /\ flows[f].at = "list" /\ u \in flows[f].offered
    /\ IF Configured(Address(u)) THEN Abort(f)
       ELSE Goto(f, Confirming(u)) /\ UNCHANGED entries

\* async_step_bluetooth_confirm with input calls async_probe_serial ...
Confirm(f) ==
    /\ flows[f].at = "confirm"
    /\ Goto(f, Probing(flows[f].unit))
    /\ UNCHANGED entries

\* ... which returns the identity.  (Variant: it is not looked for among the
\* entries.)
ProbeAnswersUnchecked(f) ==
    LET u == flows[f].unit
    IN  /\ flows[f].at = "probe"
        /\ CreateEntry(f, Entry(ParseIdentity(u), "ble", u))
ProbeAnswers(f) ==
    LET u == flows[f].unit
    IN  /\ flows[f].at = "probe"
        /\ IF Configured(ParseIdentity(u)) THEN Abort(f)
           ELSE CreateEntry(f, Entry(ParseIdentity(u), "ble", u))

\* ... or None, or fails: out of reach, taken by another link, no reply in time,
\* or a reply without the IoT serial.  The unique id stays the address.
ProbeFails(f) ==
    LET u == flows[f].unit
    IN  /\ flows[f].at = "probe"
        /\ CreateEntry(f, Entry(Address(u), "ble", u))

\* async_step_cloud without input.
ShowCredentials(f) ==
    /\ flows[f] = NoFlow
    /\ Goto(f, Credentials)
    /\ UNCHANGED entries

\* ... with input it signs in,
Submit(f) ==
    /\ flows[f].at = "credentials"
    /\ Goto(f, SigningIn)
    /\ UNCHANGED entries

\* ... which fails, and the form is shown again,
LoginFails(f) ==
    /\ flows[f].at = "login"
    /\ Goto(f, Credentials)
    /\ UNCHANGED entries

\* ... or finds the unit that the account lists first.
LoginSucceeds(f, u) ==
    /\ flows[f].at = "login"
    /\ IF InProgress(f, Serial(u)) \/ Configured(Serial(u)) THEN Abort(f)
       ELSE CreateEntry(f, Entry(Serial(u), "cloud", u))

\* The user closes a flow, whatever it waits for, or removes an entry.
Dismiss(f) == flows[f] # NoFlow /\ Abort(f)
Remove(e) == entries' = entries \ {e} /\ UNCHANGED flows

Step(f) ==
    \/ \E u \in Units : Discovered(f, u) \/ Pick(f, u) \/ LoginSucceeds(f, u)
    \/ \E visible \in SUBSET Units : ShowPick(f, visible)
    \/ Confirm(f) \/ ProbeAnswers(f) \/ ProbeFails(f)
    \/ ShowCredentials(f) \/ Submit(f) \/ LoginFails(f)
    \/ Dismiss(f)

Next == (\E f \in Flows : Step(f)) \/ (\E e \in entries : Remove(e))

Spec == Init /\ [][Next]_vars
-----------------------------------------------------------------------------
FlowStates ==
    {NoFlow, Credentials, SigningIn}
        \cup {Listing(offered) : offered \in (SUBSET Units) \ {{}}}
        \cup {Confirming(u) : u \in Units} \cup {Probing(u) : u \in Units}

\* A flow is somewhere in config_flow.py, and never at an empty list; an entry is
\* for a unit, under one of the unit's own ids.
TypeOK ==
    /\ flows \in [Flows -> FlowStates]
    /\ \A e \in entries :
         /\ e.unit \in Units /\ e = Entry(e.uid, e.transport, e.unit)
         /\ e.uid = Serial(e.unit) \/ (e.uid = Address(e.unit) /\ e.transport = "ble")

\* Creating an entry never throws away one that was there, which async_create_entry
\* does without asking: an entry leaves only when the user removes it, however
\* long the flow has waited since it looked.
NeverReplaces ==
    [][\A e \in entries : e \notin entries' => entries' = entries \ {e}]_vars

\* No flow waits to configure what is configured under the same id by now, be it
\* through another flow for the same unit or from a list shown before.
WaitingIsUnconfigured ==
    \A f \in Flows, e \in entries : ~HasUid(f, e.uid)

\* The duplicate guard of async_step_cloud and async_step_bluetooth_confirm: of two
\* entries for one power station one has fallen back to the address.
TwoEntriesMeanFallback ==
    \A e, d \in entries :
        e.unit = d.unit => e = d \/ Address(e.unit) \in {e.uid, d.uid}
=============================================================================
