-------------------------- MODULE ConfigFlowProofs --------------------------
(***************************************************************************)
(* Proofs about ConfigFlow, for any set of flows and units.                *)
(*                                                                         *)
(* NeverReplaces looks like a property of one step, but a flow whose probe *)
(* fails creates its entry without looking whether its id is configured by *)
(* now.  It need not look: WaitingIsUnconfigured holds of every flow that  *)
(* waits, because an entry that is created takes the flows of its id with  *)
(* it.  With it no two entries ever share an id, from which the duplicate  *)
(* guard follows.                                                          *)
(***************************************************************************)
EXTENDS ConfigFlow, TLAPS

UniqueIds == \A e, d \in entries : e.uid = d.uid => e = d

IInv == TypeOK /\ WaitingIsUnconfigured /\ UniqueIds

-----------------------------------------------------------------------------
(* What the steps are made of *)

LEMMA EntryFields ==
    ASSUME NEW uid, NEW transport, NEW u
    PROVE  /\ Entry(uid, transport, u).uid = uid
           /\ Entry(uid, transport, u).transport = transport
           /\ Entry(uid, transport, u).unit = u
  BY DEF Entry

LEMMA FlowStateOf ==
    ASSUME NEW state \in FlowStates
    PROVE  state.at \in {"confirm", "probe"} => state.unit \in Units
  BY DEF FlowStates, NoFlow, Credentials, SigningIn, Listing, Confirming, Probing

\* Moving one flow to a state that is no flow's id, or an id nobody has, keeps the
\* invariant.
LEMMA GotoKeeps ==
    ASSUME IInv, NEW f \in Flows, NEW state \in FlowStates,
           Goto(f, state), UNCHANGED entries,
           state.at \in {"confirm", "probe"} => ~Configured(Address(state.unit))
    PROVE  IInv'
<1>1. TypeOK'
  BY DEF IInv, TypeOK, Goto
<1>2. ASSUME NEW g \in Flows, NEW e \in entries
      PROVE  ~HasUid(g, e.uid)'
  <2>1. CASE g = f
    BY <2>1 DEF IInv, TypeOK, Goto, HasUid, Configured
  <2>2. CASE g # f
    BY <2>2 DEF IInv, TypeOK, WaitingIsUnconfigured, Goto, HasUid
  <2> QED BY <2>1, <2>2
<1>3. WaitingIsUnconfigured'
  BY <1>2 DEF WaitingIsUnconfigured
<1>4. UniqueIds'
  BY DEF IInv, UniqueIds
<1> QED BY <1>1, <1>3, <1>4 DEF IInv

\* An entry created under an id that nothing is configured under keeps it too, and
\* replaces nothing.
LEMMA CreateKeeps ==
    ASSUME IInv, NEW f \in Flows, NEW u \in Units, NEW uid, NEW transport,
           uid = Serial(u) \/ (uid = Address(u) /\ transport = "ble"),
           ~Configured(uid),
           CreateEntry(f, Entry(uid, transport, u))
    PROVE  IInv' /\ entries' = entries \cup {Entry(uid, transport, u)}
<1> DEFINE new == Entry(uid, transport, u)
<1>1. new.uid = uid /\ new.transport = transport /\ new.unit = u
  BY EntryFields
<1> HIDE DEF new
<1>2. entries' = entries \cup {new}
  BY <1>1 DEF CreateEntry, Configured, new
<1>3. TypeOK'
  <2>1. NoFlow \in FlowStates
    BY DEF FlowStates
  <2>2. flows' \in [Flows -> FlowStates]
    BY <2>1 DEF IInv, TypeOK, CreateEntry
  <2>3. ASSUME NEW e \in entries'
        PROVE  /\ e.unit \in Units /\ e = Entry(e.uid, e.transport, e.unit)
               /\ e.uid = Serial(e.unit) \/ (e.uid = Address(e.unit) /\ e.transport = "ble")
    <3>1. CASE e \in entries
      BY <3>1 DEF IInv, TypeOK
    <3>2. CASE e = new
      BY <3>2, <1>1 DEF new
    <3> QED BY <3>1, <3>2, <1>2
  <2> QED BY <2>2, <2>3 DEF TypeOK
<1>4. WaitingIsUnconfigured'
  <2> SUFFICES ASSUME NEW g \in Flows, NEW e \in entries'
               PROVE  ~HasUid(g, e.uid)'
    BY DEF WaitingIsUnconfigured
  <2>1. CASE flows'[g] = NoFlow
    BY <2>1 DEF HasUid, NoFlow
  <2>2. CASE flows'[g] # NoFlow
    <3>1. flows'[g] = flows[g] /\ ~HasUid(g, uid)
      BY <2>2, <1>1 DEF CreateEntry, new
    <3>2. \A id : HasUid(g, id)' <=> HasUid(g, id)
      BY <3>1 DEF HasUid
    <3> QED BY <3>1, <3>2, <1>1, <1>2 DEF IInv, WaitingIsUnconfigured
  <2> QED BY <2>1, <2>2
<1>5. UniqueIds'
  BY <1>1, <1>2 DEF IInv, UniqueIds, Configured
<1> QED BY <1>2, <1>3, <1>4, <1>5 DEF IInv, new

-----------------------------------------------------------------------------
(* IInv is an inductive invariant, and no step replaces an entry. *)

LEMMA InitEstablishes == Init => IInv
  BY DEF Init, IInv, TypeOK, WaitingIsUnconfigured, UniqueIds, FlowStates, HasUid, NoFlow

Kept == \A e \in entries : e \notin entries' => entries' = entries \ {e}

LEMMA AbortKeeps ==
    ASSUME IInv, NEW f \in Flows, Abort(f)
    PROVE  IInv' /\ Kept
  BY GotoKeeps DEF Abort, FlowStates, NoFlow, Kept

LEMMA StepKeeps ==
    ASSUME IInv, NEW f \in Flows, Step(f)
    PROVE  IInv' /\ Kept
<1>1. ASSUME NEW u \in Units, Discovered(f, u) PROVE IInv' /\ Kept
  BY <1>1, GotoKeeps DEF Discovered, FlowStates, Confirming, Kept
<1>2. ASSUME NEW u \in Units, Pick(f, u) PROVE IInv' /\ Kept
  BY <1>2, GotoKeeps, AbortKeeps DEF Pick, FlowStates, Confirming, Kept
<1>3. ASSUME NEW u \in Units, LoginSucceeds(f, u) PROVE IInv' /\ Kept
  BY <1>3, CreateKeeps, AbortKeeps DEF LoginSucceeds, Kept
<1>4. ASSUME NEW visible \in SUBSET Units, ShowPick(f, visible) PROVE IInv' /\ Kept
  <2> DEFINE offered == {u \in visible : ~Configured(Address(u))}
  <2>1. offered \in (SUBSET Units) \ {{}} /\ Goto(f, Listing(offered)) /\ UNCHANGED entries
    BY <1>4 DEF ShowPick
  <2> HIDE DEF offered
  <2>2. Listing(offered) \in FlowStates
    BY <2>1 DEF FlowStates
  <2> QED BY <2>1, <2>2, GotoKeeps DEF Listing, Kept
<1>5. ASSUME Confirm(f) PROVE IInv' /\ Kept
  <2>1. flows[f].unit \in Units
    BY <1>5, FlowStateOf DEF Confirm, IInv, TypeOK
  <2>2. ~Configured(Address(flows[f].unit))
    BY <1>5 DEF Confirm, IInv, WaitingIsUnconfigured, HasUid, Configured
  <2> QED BY <1>5, <2>1, <2>2, GotoKeeps DEF Confirm, FlowStates, Probing, Kept
<1>6. ASSUME ProbeAnswers(f) PROVE IInv' /\ Kept
  <2>1. flows[f].unit \in Units
    BY <1>6, FlowStateOf DEF ProbeAnswers, IInv, TypeOK
  <2> QED BY <1>6, <2>1, CreateKeeps, AbortKeeps DEF ProbeAnswers, ParseIdentity, Kept
<1>7. ASSUME ProbeFails(f) PROVE IInv' /\ Kept
  <2>1. flows[f].unit \in Units
    BY <1>7, FlowStateOf DEF ProbeFails, IInv, TypeOK
  <2>2. ~Configured(Address(flows[f].unit))
    BY <1>7 DEF ProbeFails, IInv, WaitingIsUnconfigured, HasUid, Configured
  <2> QED BY <1>7, <2>1, <2>2, CreateKeeps DEF ProbeFails, Kept
<1>8. ASSUME ShowCredentials(f) PROVE IInv' /\ Kept
  BY <1>8, GotoKeeps DEF ShowCredentials, FlowStates, Credentials, Kept
<1>9. ASSUME Submit(f) PROVE IInv' /\ Kept
  BY <1>9, GotoKeeps DEF Submit, FlowStates, SigningIn, Kept
<1>10. ASSUME LoginFails(f) PROVE IInv' /\ Kept
  BY <1>10, GotoKeeps DEF LoginFails, FlowStates, Credentials, Kept
<1>11. ASSUME Dismiss(f) PROVE IInv' /\ Kept
  BY <1>11, AbortKeeps DEF Dismiss
<1> QED BY <1>1, <1>2, <1>3, <1>4, <1>5, <1>6, <1>7, <1>8, <1>9, <1>10, <1>11 DEF Step

LEMMA RemoveKeeps ==
    ASSUME IInv, NEW e \in entries, Remove(e)
    PROVE  IInv' /\ Kept
<1>1. entries' = entries \ {e} /\ UNCHANGED flows
  BY DEF Remove
<1>2. TypeOK'
  BY <1>1 DEF IInv, TypeOK
<1>3. WaitingIsUnconfigured'
  BY <1>1 DEF IInv, WaitingIsUnconfigured, HasUid
<1>4. UniqueIds'
  BY <1>1 DEF IInv, UniqueIds
<1> QED BY <1>1, <1>2, <1>3, <1>4 DEF IInv, Kept

LEMMA NextKeeps == IInv /\ [Next]_vars => IInv' /\ Kept
<1> SUFFICES ASSUME IInv, [Next]_vars PROVE IInv' /\ Kept
  OBVIOUS
<1>1. ASSUME NEW f \in Flows, Step(f) PROVE IInv' /\ Kept
  BY <1>1, StepKeeps
<1>2. ASSUME NEW e \in entries, Remove(e) PROVE IInv' /\ Kept
  BY <1>2, RemoveKeeps
<1>3. CASE UNCHANGED vars
  BY <1>3 DEF vars, IInv, TypeOK, WaitingIsUnconfigured, UniqueIds, HasUid, Kept
<1> QED BY <1>1, <1>2, <1>3 DEF Next

LEMMA Inductive == Spec => []IInv
  BY InitEstablishes, NextKeeps, PTL DEF Spec

-----------------------------------------------------------------------------
(* Theorems *)

\* Flows and entries are what config_flow.py makes them: an entry is for a unit,
\* under one of the unit's own ids.
THEOREM TypeCorrect == Spec => []TypeOK
<1>1. IInv => TypeOK
  BY DEF IInv
<1> QED BY <1>1, Inductive, PTL

\* No flow waits to configure what is configured by now.
THEOREM WaitingAlwaysUnconfigured == Spec => []WaitingIsUnconfigured
<1>1. IInv => WaitingIsUnconfigured
  BY DEF IInv
<1> QED BY <1>1, Inductive, PTL

\* However many flows interleave, async_create_entry never replaces an entry.
THEOREM NeverReplacesAny == Spec => NeverReplaces
<1>1. IInv /\ [Next]_vars => [Kept]_vars
  BY NextKeeps
<1> QED BY <1>1, Inductive, PTL DEF Spec, NeverReplaces, Kept

\* Whoever has two entries for a unit has one whose probe failed.
THEOREM DuplicatesAreFallbacks == Spec => []TwoEntriesMeanFallback
<1>1. IInv => TwoEntriesMeanFallback
  BY DEF IInv, TypeOK, UniqueIds, TwoEntriesMeanFallback
<1> QED BY <1>1, Inductive, PTL
=============================================================================
