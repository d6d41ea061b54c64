-------------------------- MODULE BleControlProofs --------------------------
(***************************************************************************)
(* That control over Bluetooth invents no setting - for any layouts with   *)
(* distinct fields, any number of concurrent callers, link losses, failed  *)
(* calls, short reports and changes made elsewhere.                        *)
(*                                                                         *)
(* The argument is about names: a state is Faithful when each field nobody *)
(* can switch has a value its owner gave it.  Decoding a report of a       *)
(* faithful unit, changing one switch, and encoding the result for the     *)
(* other layout all keep faithfulness, because each converts through the   *)
(* names of the fields; so the unit, every message, the cache and every    *)
(* caller's copy stay faithful together.                                   *)
(*                                                                         *)
(* Of what a call tells, of the two caches, and of what a write moves, the *)
(* second half speaks, for behaviours in which calls, of any number of     *)
(* callers, do not overlap (Alone): those that do break all three.  There  *)
(* the argument is about doubt: what Home Assistant holds, and what a      *)
(* report or a copy says, is so but for the fields in doubt, and later     *)
(* reports leave less in doubt than the ones before them.                  *)
(***************************************************************************)
EXTENDS BleControl, TLAPS

Kept == Fields \ Switchable

\* A whole state of the unit, and a possibly partial one in Home Assistant, for
\* owners who gave each field the values H[f].
FaithfulUnit(H) == {s \in UnitSettings : \A f \in Kept : s[f] \in H[f]}

Faithful(state, H) ==
    /\ DOMAIN state \subseteq Fields
    /\ \A f \in DOMAIN state : state[f] \in ValuesOf(f)
    /\ \A f \in DOMAIN state \cap Kept : state[f] \in H[f]

Messages(H) ==
    {Report(ReportOf(s, n), D) : s \in FaithfulUnit(H), n \in 0 .. Len(RecvFields), D \in SUBSET Fields}
        \cup {Answer(c) : c \in Callers} \cup {Unawaited}

FaithfulCall(c) ==
    /\ local[c].field \in Switchable
    /\ local[c].value \in Bits
    /\ DOMAIN local[c] = {"field", "value", "desired", "doubt"} /\ local[c].doubt \subseteq Fields
    /\ Faithful(local[c].desired, had)
    /\ Sent \subseteq DOMAIN local[c].desired

\* An answer on its way has one caller waiting for it, and no double.
IsAnswerTo(i, c) == channel[i].kind = "answer" /\ channel[i].caller = c

AnswersAwaited ==
    /\ \A i \in 1 .. Len(channel), c \in Callers : IsAnswerTo(i, c) => call[c] = "applied"
    /\ \A i, j \in 1 .. Len(channel), c \in Callers :
          IsAnswerTo(i, c) /\ IsAnswerTo(j, c) => i = j

Histories == [Fields -> SUBSET Bytes]

IInv ==
    /\ had \in Histories /\ doubt \subseteq Fields
    /\ unit \in FaithfulUnit(had)
    /\ channel \in Seq(Messages(had))
    /\ cache = NoState \/ Faithful(cache, had)
    /\ call \in [Callers -> Stages]
    /\ DOMAIN local = Callers
    /\ \A c \in Callers : call[c] # "idle" => FaithfulCall(c)
    /\ AnswersAwaited

-----------------------------------------------------------------------------
(* One field survives the wire, raw, inverted or plain (protocol.py). *)
LEMMA FieldRoundTrip ==
    ASSUME NEW f, NEW v \in ValuesOf(f)
    PROVE  DecodeField(f, EncodeField(f, v)) = v
BY DEF ValuesOf, Bits, Bytes, DecodeField, EncodeField

(* In a layout without repetitions a field is found where it is. *)
LEMMA PositionOfField ==
    ASSUME NEW S, NEW layout \in Seq(S), Injective(layout), NEW i \in DOMAIN layout
    PROVE  Position(layout, layout[i]) = i
BY DEF Injective, Position

(* Decoding a report gives back, under its name, each setting it carries. *)
LEMMA DecodedReport ==
    ASSUME NEW s \in UnitSettings, NEW n \in 0 .. Len(RecvFields)
    PROVE  /\ DOMAIN DecodeSwitchState(ReportOf(s, n)) = {RecvFields[i] : i \in 1 .. n}
           /\ \A i \in 1 .. n :
                 DecodeSwitchState(ReportOf(s, n))[RecvFields[i]] = s[RecvFields[i]]
<1> DEFINE bytes == ReportOf(s, n)
<1>1. Len(bytes) = n
  BY DEF ReportOf
<1>2. DOMAIN DecodeSwitchState(bytes) = {RecvFields[i] : i \in 1 .. n}
  BY <1>1 DEF DecodeSwitchState
<1>3. ASSUME NEW i \in 1 .. n
      PROVE  DecodeSwitchState(bytes)[RecvFields[i]] = s[RecvFields[i]]
  <2>1. i \in DOMAIN RecvFields /\ RecvFields[i] \in Fields
    BY LayoutAssumption DEF Fields
  <2>2. Position(RecvFields, RecvFields[i]) = i
    BY <2>1, PositionOfField, LayoutAssumption
  <2>3. bytes[i] = EncodeField(RecvFields[i], s[RecvFields[i]])
    BY DEF ReportOf
  <2>4. DecodeSwitchState(bytes)[RecvFields[i]] = DecodeField(RecvFields[i], bytes[i])
    BY <1>1, <2>2 DEF DecodeSwitchState
  <2>5. s[RecvFields[i]] \in ValuesOf(RecvFields[i])
    BY <2>1 DEF UnitSettings
  <2> QED
    BY <2>3, <2>4, <2>5, FieldRoundTrip
<1> QED
  BY <1>2, <1>3

(* A write sets each field it carries to the value that field was given. *)
LEMMA WrittenField ==
    ASSUME NEW settings, NEW state, NEW f \in Sent, state[f] \in ValuesOf(f)
    PROVE  Replaced(settings, EncodeSwitchState(state))[f] = state[f]
<1> DEFINE bytes == EncodeSwitchState(state)
<1>1. PICK i \in DOMAIN SendFields : SendFields[i] = f
  BY DEF Sent
<1>2. Position(SendFields, f) = i
  BY <1>1, PositionOfField, LayoutAssumption
<1>3. bytes[i] = EncodeField(f, state[f])
  BY <1>1, LayoutAssumption DEF EncodeSwitchState
<1>4. f \in Fields
  BY <1>1, LayoutAssumption
<1>5. Replaced(settings, bytes)[f] = DecodeField(f, bytes[i])
  BY <1>2, <1>4 DEF Replaced
<1> QED
  BY <1>3, <1>5, FieldRoundTrip

(* Writing back a whole report as it was received changes nothing, although   *)
(* the two layouts differ: the conversion the comment in protocol.py demands. *)
THEOREM EchoIsHarmless ==
    ASSUME NEW s \in UnitSettings
    PROVE  Replaced(s, EncodeSwitchState(DecodeSwitchState(ReportOf(s, Len(RecvFields))))) = s
<1> DEFINE state == DecodeSwitchState(ReportOf(s, Len(RecvFields)))
           after == Replaced(s, EncodeSwitchState(state))
<1>1. Len(RecvFields) \in 0 .. Len(RecvFields)
  BY LayoutAssumption
<1>2. ASSUME NEW f \in Fields
      PROVE  state[f] = s[f]
  <2>1. PICK i \in 1 .. Len(RecvFields) : RecvFields[i] = f
    BY LayoutAssumption DEF Fields
  <2> QED
    BY <1>1, <2>1, DecodedReport
<1>3. ASSUME NEW f \in Fields
      PROVE  after[f] = s[f]
  <2>1. CASE f \in Sent
    BY <1>2, <2>1, WrittenField DEF UnitSettings
  <2>2. CASE f \notin Sent
    BY <2>2 DEF Replaced
  <2> QED
    BY <2>1, <2>2
<1>4. after = [f \in Fields |-> after[f]]
  BY DEF Replaced
<1>5. s = [f \in Fields |-> s[f]]
  BY DEF UnitSettings
<1> QED
  BY <1>3, <1>4, <1>5

-----------------------------------------------------------------------------
(* The layouts name fields of the block, and the switches are among them. *)
LEMMA FieldSets == Sent \subseteq Fields /\ Switchable \subseteq Sent
BY LayoutAssumption DEF Sent

(* What Home Assistant decodes from a faithful unit is faithful. *)
LEMMA FaithfulReport ==
    ASSUME NEW H, NEW s \in FaithfulUnit(H), NEW n \in 0 .. Len(RecvFields)
    PROVE  Faithful(DecodeSwitchState(ReportOf(s, n)), H)
<1> DEFINE state == DecodeSwitchState(ReportOf(s, n))
<1>1. ASSUME NEW f \in DOMAIN state
      PROVE  f \in Fields /\ state[f] = s[f]
  <2>0. s \in UnitSettings
    BY DEF FaithfulUnit
  <2>1. PICK i \in 1 .. n : RecvFields[i] = f
    <3>1. DOMAIN state = {RecvFields[i] : i \in 1 .. n}
      BY <2>0, DecodedReport
    <3> QED
      BY <3>1
  <2>2. f \in Fields
    BY <2>1, LayoutAssumption DEF Fields
  <2> QED
    BY <2>0, <2>1, <2>2, DecodedReport
<1> QED
  BY <1>1 DEF Faithful, FaithfulUnit, UnitSettings

(* Changing one switch in a faithful state leaves it faithful. *)
LEMMA FaithfulChange ==
    ASSUME NEW H, NEW state, Faithful(state, H), NEW f \in Switchable, f \in DOMAIN state,
           NEW v \in Bits
    PROVE  /\ Faithful([state EXCEPT ![f] = v], H)
           /\ DOMAIN [state EXCEPT ![f] = v] = DOMAIN state
<1>1. v \in ValuesOf(f)
  BY LayoutAssumption DEF ValuesOf
<1> QED
  BY <1>1 DEF Faithful, Kept

(* Writing a faithful state to a faithful unit leaves the unit faithful. *)
LEMMA FaithfulWrite ==
    ASSUME NEW H, NEW s \in FaithfulUnit(H), NEW state, Faithful(state, H),
           Sent \subseteq DOMAIN state
    PROVE  Replaced(s, EncodeSwitchState(state)) \in FaithfulUnit(H)
<1> DEFINE after == Replaced(s, EncodeSwitchState(state))
<1>1. ASSUME NEW f \in Fields
      PROVE  after[f] \in ValuesOf(f) /\ (f \in Kept => after[f] \in H[f])
  <2>1. CASE f \in Sent
    <3>1. state[f] \in ValuesOf(f) /\ (f \in Kept => state[f] \in H[f])
      BY <2>1 DEF Faithful
    <3>2. after[f] = state[f]
      BY <2>1, <3>1, WrittenField
    <3> QED
      BY <3>1, <3>2
  <2>2. CASE f \notin Sent
    BY <2>2 DEF Replaced, FaithfulUnit, UnitSettings
  <2> QED
    BY <2>1, <2>2
<1>2. after \in [Fields -> Bytes]
  BY <1>1 DEF Replaced, ValuesOf, Bits, Bytes
<1> QED
  BY <1>1, <1>2 DEF FaithfulUnit, UnitSettings, Kept

(* What an owner once set stays what an owner once set. *)
LEMMA HistoryGrows ==
    ASSUME NEW H, NEW G, \A f \in Fields : H[f] \subseteq G[f]
    PROVE  /\ FaithfulUnit(H) \subseteq FaithfulUnit(G)
           /\ Messages(H) \subseteq Messages(G)
           /\ \A state : Faithful(state, H) => Faithful(state, G)
<1>1. FaithfulUnit(H) \subseteq FaithfulUnit(G)
  BY DEF FaithfulUnit, Kept
<1>2. Messages(H) \subseteq Messages(G)
  BY <1>1 DEF Messages
<1>3. \A state : Faithful(state, H) => Faithful(state, G)
  BY DEF Faithful, Kept
<1> QED
  BY <1>1, <1>2, <1>3

LEMMA MessageIntro ==
    ASSUME NEW H, NEW s \in FaithfulUnit(H), NEW n \in 0 .. Len(RecvFields),
           NEW D \in SUBSET Fields
    PROVE  Report(ReportOf(s, n), D) \in Messages(H)
BY DEF Messages

(* A report the unit sends is a message with nothing in doubt. *)
LEMMA SentReport ==
    ASSUME IInv, NEW n \in ReportLengths
    PROVE  Report(ReportOf(unit, n), {}) \in Messages(had)
<1>1. n \in 0 .. Len(RecvFields) /\ unit \in FaithfulUnit(had)
  BY BoundAssumption DEF IInv
<1> QED
  BY <1>1, MessageIntro

(* The message the link brings next. *)
LEMMA NextMessage ==
    ASSUME IInv, channel # <<>>
    PROVE  /\ channel[1] = Head(channel) /\ 1 \in 1 .. Len(channel)
           /\ Tail(channel) \in Seq(Messages(had))
           /\ Head(channel).kind = "report" =>
                 \E s \in FaithfulUnit(had), n \in 0 .. Len(RecvFields), D \in SUBSET Fields :
                     Head(channel) = Report(ReportOf(s, n), D)
           /\ Head(channel).kind = "answer" =>
                 \E c \in Callers : Head(channel) = Answer(c) /\ call[c] = "applied"
<1>1. /\ channel[1] = Head(channel) /\ 1 \in 1 .. Len(channel)
      /\ Tail(channel) \in Seq(Messages(had)) /\ Head(channel) \in Messages(had)
  BY DEF IInv
<1>2. ASSUME Head(channel).kind = "report"
      PROVE  \E s \in FaithfulUnit(had), n \in 0 .. Len(RecvFields), D \in SUBSET Fields :
                 Head(channel) = Report(ReportOf(s, n), D)
  BY <1>1, <1>2 DEF Messages, Answer, Unawaited
<1>3. ASSUME Head(channel).kind = "answer"
      PROVE  \E c \in Callers : Head(channel) = Answer(c) /\ call[c] = "applied"
  <2>1. PICK c \in Callers : Head(channel) = Answer(c)
    BY <1>1, <1>3 DEF Messages, Report, Unawaited
  <2>2. IsAnswerTo(1, c)
    BY <1>1, <2>1 DEF IsAnswerTo, Answer
  <2> QED
    BY <1>1, <2>1, <2>2 DEF IInv, AnswersAwaited
<1> QED
  BY <1>1, <1>2, <1>3

(* A report that is overtaken by a change stays a report, with more in doubt;   *)
(* an answer stays what it is.                                                  *)
LEMMA StillMessages ==
    ASSUME IInv, NEW F \in SUBSET Fields
    PROVE  /\ Overtaken(F) \in Seq(Messages(had)) /\ Len(Overtaken(F)) = Len(channel)
           /\ \A i \in 1 .. Len(channel) :
                 /\ channel[i].kind = "report" =>
                       /\ Overtaken(F)[i].kind = "report"
                       /\ Overtaken(F)[i].bytes = channel[i].bytes
                       /\ Overtaken(F)[i].doubt = channel[i].doubt \cup F
                 /\ channel[i].kind # "report" => Overtaken(F)[i] = channel[i]
<1>0. channel \in Seq(Messages(had)) /\ DOMAIN channel = 1 .. Len(channel) /\ Len(channel) \in Nat
  BY DEF IInv
<1>1. ASSUME NEW i \in 1 .. Len(channel), channel[i].kind = "report"
      PROVE  /\ Overtaken(F)[i] \in Messages(had) /\ Overtaken(F)[i].kind = "report"
             /\ Overtaken(F)[i].bytes = channel[i].bytes
             /\ Overtaken(F)[i].doubt = channel[i].doubt \cup F
  <2>1. PICK s \in FaithfulUnit(had), n \in 0 .. Len(RecvFields), D \in SUBSET Fields :
            channel[i] = Report(ReportOf(s, n), D)
    BY <1>0, <1>1 DEF Messages, Answer, Unawaited
  <2>2. Overtaken(F)[i] = Report(channel[i].bytes, channel[i].doubt \cup F)
    BY <1>0, <1>1 DEF Overtaken
  <2>3. Overtaken(F)[i] = Report(ReportOf(s, n), D \cup F)
    BY <2>1, <2>2 DEF Report
  <2>4. D \cup F \in SUBSET Fields
    OBVIOUS
  <2> QED
    BY <2>1, <2>3, <2>4, MessageIntro DEF Report
<1>2. ASSUME NEW i \in 1 .. Len(channel), channel[i].kind # "report"
      PROVE  Overtaken(F)[i] = channel[i] /\ Overtaken(F)[i] \in Messages(had)
  BY <1>0, <1>2 DEF Overtaken
<1>3. Overtaken(F) = [i \in 1 .. Len(channel) |-> Overtaken(F)[i]]
  BY <1>0 DEF Overtaken
<1>4. \A i \in 1 .. Len(channel) : Overtaken(F)[i] \in Messages(had)
  BY <1>1, <1>2
<1>5. Overtaken(F) \in [1 .. Len(channel) -> Messages(had)]
  BY <1>3, <1>4
<1>6. Overtaken(F) \in Seq(Messages(had)) /\ Len(Overtaken(F)) = Len(channel)
  BY <1>0, <1>5
<1> QED
  BY <1>1, <1>2, <1>6

(* When a caller gives up, its answer is nobody's; the rest stays as it is. *)
LEMMA GivenUp ==
    ASSUME IInv, NEW c \in Callers, Fail(c)
    PROVE  /\ channel' \in Seq(Messages(had)) /\ Len(channel') = Len(channel)
           /\ \A i \in 1 .. Len(channel) :
                 channel'[i] = IF channel[i] = Answer(c) THEN Unawaited ELSE channel[i]
<1>0. channel \in Seq(Messages(had)) /\ DOMAIN channel = 1 .. Len(channel) /\ Len(channel) \in Nat
  BY DEF IInv
<1>1. channel' = [i \in 1 .. Len(channel) |->
                    IF channel[i] = Answer(c) THEN Unawaited ELSE channel[i]]
  BY <1>0 DEF Fail
<1>2. channel' \in [1 .. Len(channel) -> Messages(had)]
  BY <1>0, <1>1 DEF Messages
<1> QED
  BY <1>0, <1>1, <1>2

-----------------------------------------------------------------------------
(* Taking the first message off leaves the others in their order. *)
LEMMA TakenOff ==
    ASSUME IInv, channel # <<>>, channel' = Tail(channel)
    PROVE  /\ Len(channel') = Len(channel) - 1 /\ Len(channel) \in Nat
           /\ \A i \in 1 .. Len(channel') :
                 i + 1 \in 1 .. Len(channel) /\ channel'[i] = channel[i + 1]
BY DEF IInv

(* Appending a message leaves the others in their places. *)
LEMMA Appended ==
    ASSUME NEW M, NEW queue \in Seq(M), NEW m
    PROVE  /\ Len(Append(queue, m)) = Len(queue) + 1 /\ Len(queue) \in Nat
           /\ \A i \in 1 .. Len(queue) : Append(queue, m)[i] = queue[i]
           /\ Append(queue, m)[Len(queue) + 1] = m
OBVIOUS

(* What the unit getting to a write does to the channel. *)
LEMMA AppliedChannel ==
    ASSUME IInv, NEW c \in Callers, Apply(c)
    PROVE  \E F \in SUBSET Fields :
             /\ F = {f \in Fields : unit'[f] # unit[f]} \cup {local[c].field}
             /\ doubt' = doubt \cup F
             /\ channel' \in Seq(Messages(had)) /\ Len(channel') = Len(channel) + 1
             /\ Len(channel) \in Nat
             /\ \A i \in 1 .. Len(channel) : channel'[i] = Overtaken(F)[i]
             /\ channel'[Len(channel) + 1] = Answer(c)
<1> DEFINE F == {f \in Fields : unit'[f] # unit[f]} \cup {local[c].field}
<1>1. F \in SUBSET Fields
  BY FieldSets DEF Apply, IInv, FaithfulCall
<1>2. doubt' = doubt \cup F /\ channel' = Append(Overtaken(F), Answer(c))
  BY DEF Apply
<1>3. Overtaken(F) \in Seq(Messages(had)) /\ Len(Overtaken(F)) = Len(channel)
  BY <1>1, StillMessages
<1>4. Answer(c) \in Messages(had)
  BY DEF Messages
<1>5. channel' \in Seq(Messages(had))
  BY <1>2, <1>3, <1>4
<1>6. /\ Len(channel') = Len(channel) + 1 /\ Len(channel) \in Nat
      /\ \A i \in 1 .. Len(channel) : channel'[i] = Overtaken(F)[i]
      /\ channel'[Len(channel) + 1] = Answer(c)
  <2> HIDE DEF F
  <2> QED
    BY <1>2, <1>3, Appended
<1> QED
  BY <1>1, <1>2, <1>5, <1>6

(* Every step leaves each answer on its way with its one caller. *)
LEMMA NextAnswersAwaited ==
    ASSUME IInv, [Next]_vars
    PROVE  AnswersAwaited'
<1> USE DEF AnswersAwaited, IsAnswerTo
<1>0. AnswersAwaited /\ call \in [Callers -> Stages] /\ channel \in Seq(Messages(had))
  BY DEF IInv
<1>1. ASSUME NEW c \in Callers, Apply(c)
      PROVE  AnswersAwaited'
  <2>1. \A i \in 1 .. Len(channel) : ~IsAnswerTo(i, c)
    BY <1>0, <1>1 DEF Apply
  <2>2. PICK F \in SUBSET Fields :
            /\ Len(channel') = Len(channel) + 1 /\ Len(channel) \in Nat
            /\ \A i \in 1 .. Len(channel) : channel'[i] = Overtaken(F)[i]
            /\ channel'[Len(channel) + 1] = Answer(c)
    BY <1>1, AppliedChannel
  <2>3. \A i \in 1 .. Len(channel), d \in Callers : IsAnswerTo(i, d)' => IsAnswerTo(i, d)
    BY <2>2, StillMessages
  <2>4. \A d \in Callers \ {c} : call'[d] = call[d]
    BY <1>0, <1>1 DEF Apply
  <2>5. call'[c] = "applied"
    BY <1>0, <1>1 DEF Apply
  <2>6. \A i, d : i = Len(channel) + 1 /\ IsAnswerTo(i, d)' => d = c
    BY <2>2 DEF Answer
  <2>7. \A i \in 1 .. Len(channel') : i \in 1 .. Len(channel) \/ i = Len(channel) + 1
    BY <2>2
  <2>8. ASSUME NEW i \in 1 .. Len(channel'), NEW d \in Callers, IsAnswerTo(i, d)'
        PROVE  /\ call'[d] = "applied"
               /\ d = c => i = Len(channel) + 1
               /\ d # c => i \in 1 .. Len(channel) /\ IsAnswerTo(i, d)
    <3>1. CASE i \in 1 .. Len(channel)
      <4>1. IsAnswerTo(i, d) /\ d # c
        BY <2>1, <2>3, <2>8, <3>1
      <4> QED
        BY <1>0, <2>4, <3>1, <4>1
    <3>2. CASE i = Len(channel) + 1
      BY <2>5, <2>6, <2>8, <3>2
    <3> QED
      BY <2>7, <3>1, <3>2
  <2> QED
    BY <1>0, <2>8
<1>2. ASSUME NEW n \in ReportLengths, SendReport(n)
      PROVE  AnswersAwaited'
  <2>1. /\ Len(channel') = Len(channel) + 1 /\ Len(channel) \in Nat
        /\ \A i \in 1 .. Len(channel) : channel'[i] = channel[i]
        /\ channel'[Len(channel) + 1].kind = "report"
    BY <1>0, <1>2, Appended DEF SendReport, Report
  <2> QED
    BY <1>0, <1>2, <2>1 DEF SendReport, callVars
<1>3. CASE OnNotify \/ Unheard \/ Answered
  <2>1. channel # <<>> /\ channel' = Tail(channel)
    BY <1>3 DEF OnNotify, Unheard, Answered
  <2>2. \A i \in 1 .. Len(channel'), c \in Callers :
            IsAnswerTo(i, c)' => i + 1 \in 1 .. Len(channel) /\ IsAnswerTo(i + 1, c)
    BY <2>1, TakenOff
  <2>3. CASE OnNotify \/ Unheard
    <3>1. UNCHANGED call
      BY <2>3 DEF OnNotify, Unheard, callVars
    <3> QED
      BY <1>0, <2>1, <2>2, <3>1, TakenOff
  <2>4. CASE Answered
    <3>1. PICK d \in Callers : Head(channel) = Answer(d)
      BY <2>1, <2>4, NextMessage DEF Answered
    <3>2. IsAnswerTo(1, d) /\ 1 \in 1 .. Len(channel)
      BY <2>1, <3>1, NextMessage DEF Answer
    <3>3. \A c \in Callers \ {d} : call'[c] = call[c]
      BY <1>0, <2>4, <3>1 DEF Answered, Answer
    <3>4. ASSUME NEW i \in 1 .. Len(channel'), NEW c \in Callers, IsAnswerTo(i, c)'
          PROVE  call'[c] = "applied"
      <4>1. i + 1 \in 1 .. Len(channel) /\ IsAnswerTo(i + 1, c) /\ i + 1 # 1
        BY <2>2, <3>4
      <4>2. c # d
        BY <1>0, <3>2, <4>1
      <4> QED
        BY <1>0, <3>3, <4>1, <4>2
    <3>5. ASSUME NEW i \in 1 .. Len(channel'), NEW j \in 1 .. Len(channel'), NEW c \in Callers,
                 IsAnswerTo(i, c)', IsAnswerTo(j, c)'
          PROVE  i = j
      <4>1. i + 1 = j + 1
        BY <1>0, <2>2, <3>5
      <4> QED
        BY <4>1
    <3> QED
      BY <3>4, <3>5
  <2> QED
    BY <1>3, <2>3, <2>4
<1>4. CASE LinkDown
  BY <1>4 DEF LinkDown
<1>5. ASSUME NEW c \in Callers, NEW f \in Switchable, NEW v \in Bits, Call(c, f, v)
      PROVE  AnswersAwaited'
  BY <1>0, <1>5 DEF Call
<1>6. ASSUME NEW c \in Callers, Resume(c)
      PROVE  AnswersAwaited'
  BY <1>0, <1>6 DEF Resume
<1>7. ASSUME NEW c \in Callers, Fail(c)
      PROVE  AnswersAwaited'
  <2>1. /\ Len(channel') = Len(channel)
        /\ \A i \in 1 .. Len(channel) :
              channel'[i] = IF channel[i] = Answer(c) THEN Unawaited ELSE channel[i]
    BY <1>7, GivenUp
  <2>2. \A i \in 1 .. Len(channel) : IsAnswerTo(i, c) => channel[i] = Answer(c)
    BY <1>0 DEF Messages, Answer, Report, Unawaited
  <2>3. \A i \in 1 .. Len(channel'), d \in Callers : IsAnswerTo(i, d)' => IsAnswerTo(i, d) /\ d # c
    BY <2>1, <2>2 DEF Unawaited
  <2>4. \A d \in Callers \ {c} : call'[d] = call[d]
    BY <1>0, <1>7 DEF Fail
  <2> QED
    BY <1>0, <2>1, <2>3, <2>4
<1>8. ASSUME NEW f \in ForeignFields, NEW v \in Choices(f), ForeignChange(f, v)
      PROVE  AnswersAwaited'
  <2>1. {f} \in SUBSET Fields /\ channel' = Overtaken({f}) /\ UNCHANGED call
    BY <1>8, BoundAssumption DEF ForeignChange
  <2>2. \A i \in 1 .. Len(channel), d \in Callers : IsAnswerTo(i, d)' => IsAnswerTo(i, d)
    BY <2>1, StillMessages
  <2>3. Len(channel') = Len(channel)
    BY <2>1, StillMessages
  <2>4. ASSUME NEW i \in 1 .. Len(channel'), NEW d \in Callers, IsAnswerTo(i, d)'
        PROVE  IsAnswerTo(i, d) /\ i \in 1 .. Len(channel) /\ call'[d] = "applied"
    <3>1. i \in 1 .. Len(channel)
      BY <2>3
    <3>2. IsAnswerTo(i, d)
      BY <2>2, <2>4, <3>1
    <3> QED
      BY <1>0, <2>1, <3>1, <3>2
  <2> QED
    BY <1>0, <2>4
<1>9. CASE LinkUp \/ UNCHANGED vars
  BY <1>0, <1>9 DEF LinkUp, vars, callVars
<1> QED
  BY <1>1, <1>2, <1>3, <1>4, <1>5, <1>6, <1>7, <1>8, <1>9 DEF Next, CallerStep

(* Faithfulness at the start: the unit is as it is, and nothing is known yet. *)
LEMMA InitIInv == Init => IInv
<1> SUFFICES ASSUME Init
             PROVE  IInv
  OBVIOUS
<1>1. \A f \in Fields : Settings[f] \in Bytes
  BY SettingsAssumption DEF ValuesOf, Bits, Bytes
<1>2. had \in Histories
  BY <1>1 DEF Init, Histories
<1>3. Settings \in FaithfulUnit(had)
  BY <1>1, SettingsAssumption DEF Init, FaithfulUnit, UnitSettings, Kept
<1> QED
  BY <1>2, <1>3 DEF Init, IInv, Stages, AnswersAwaited

(* Every step keeps the unit, the messages, the cache and the copies faithful. *)
LEMMA NextIInv == IInv /\ [Next]_vars => IInv'
<1> SUFFICES ASSUME IInv, [Next]_vars
             PROVE  IInv'
  OBVIOUS
<1>0. AnswersAwaited'
  BY NextAnswersAwaited
<1> USE <1>0
<1>1. ASSUME NEW c \in Callers, NEW f \in Switchable, NEW v \in Bits, Call(c, f, v)
      PROVE  IInv'
  <2>1. Faithful(cache, had) /\ f \in DOMAIN cache
    BY <1>1, FieldSets DEF Call, IInv
  <2>2. /\ local'[c].field = f /\ local'[c].value = v
        /\ local'[c].desired = [cache EXCEPT ![f] = v]
        /\ DOMAIN local'[c] = {"field", "value", "desired", "doubt"}
        /\ local'[c].doubt \subseteq Fields
        /\ UNCHANGED had
    BY <1>1 DEF Call, IInv, history
  <2>3. FaithfulCall(c)'
    <3>1. Faithful(local'[c].desired, had') /\ DOMAIN local'[c].desired = DOMAIN cache
      BY <2>1, <2>2, FaithfulChange
    <3>2. Sent \subseteq DOMAIN cache
      BY <1>1 DEF Call
    <3> QED
      BY <2>2, <3>1, <3>2 DEF FaithfulCall
  <2>4. \A d \in Callers \ {c} : local'[d] = local[d] /\ call'[d] = call[d]
    BY <1>1 DEF Call, IInv
  <2>5. \A d \in Callers : call'[d] # "idle" => FaithfulCall(d)'
    BY <2>2, <2>3, <2>4 DEF FaithfulCall, IInv
  <2>6. call' \in [Callers -> Stages] /\ DOMAIN local' = Callers
    BY <1>1 DEF Call, IInv, Stages
  <2> QED
    BY <1>1, <2>5, <2>6 DEF Call, IInv, history
<1>2. ASSUME NEW c \in Callers, Apply(c)
      PROVE  IInv'
  <2>1. FaithfulCall(c) /\ UNCHANGED <<cache, local, had>>
    BY <1>2 DEF Apply, IInv
  <2>2. unit' \in FaithfulUnit(had)
    BY <1>2, <2>1, FaithfulWrite DEF Apply, FaithfulCall, IInv
  <2>3. channel' \in Seq(Messages(had)) /\ doubt' \subseteq Fields
    BY <1>2, AppliedChannel DEF IInv
  <2>4. call' \in [Callers -> Stages] /\ \A d \in Callers : call'[d] # "idle" => call[d] # "idle"
    BY <1>2 DEF Apply, IInv, Stages
  <2> QED
    BY <2>1, <2>2, <2>3, <2>4 DEF IInv, FaithfulCall
<1>3. ASSUME NEW c \in Callers, Resume(c)
      PROVE  IInv'
  <2>1. UNCHANGED <<unit, channel, had>> /\ cache' = local[c].desired /\ doubt' = local[c].doubt
    BY <1>3 DEF Resume
  <2>2. Faithful(cache', had')
    BY <1>3, <2>1 DEF Resume, FaithfulCall, IInv
  <2>3. /\ call' \in [Callers -> Stages] /\ DOMAIN local' = Callers
        /\ \A d \in Callers : call'[d] # "idle" => call[d] # "idle" /\ local'[d] = local[d]
    BY <1>3 DEF Resume, IInv, Stages
  <2>4. local[c].doubt \subseteq Fields
    BY <1>3 DEF Resume, FaithfulCall, IInv
  <2> QED
    BY <2>1, <2>2, <2>3, <2>4 DEF IInv, FaithfulCall
<1>4. ASSUME NEW c \in Callers, Fail(c)
      PROVE  IInv'
  <2>1. UNCHANGED <<unit, cache, had, doubt>>
    BY <1>4 DEF Fail, history
  <2>2. channel' \in Seq(Messages(had))
    BY <1>4, GivenUp
  <2>3. /\ call' \in [Callers -> Stages] /\ DOMAIN local' = Callers
        /\ \A d \in Callers : call'[d] # "idle" => call[d] # "idle" /\ local'[d] = local[d]
    BY <1>4 DEF Fail, IInv, Stages
  <2> QED
    BY <2>1, <2>2, <2>3 DEF IInv, FaithfulCall
<1>5. ASSUME NEW n \in ReportLengths, SendReport(n)
      PROVE  IInv'
  <2>1. channel' \in Seq(Messages(had))
    BY <1>5, SentReport DEF SendReport, IInv
  <2> QED
    BY <1>5, <2>1 DEF SendReport, callVars, history, IInv, FaithfulCall
<1>6. CASE OnNotify
  <2>1. channel # <<>> /\ channel' = Tail(channel) /\ UNCHANGED <<unit, call, local, had>>
    BY <1>6 DEF OnNotify, callVars
  <2>2. PICK s \in FaithfulUnit(had), n \in 0 .. Len(RecvFields), D \in SUBSET Fields :
            Head(channel) = Report(ReportOf(s, n), D)
    BY <1>6, <2>1, NextMessage DEF OnNotify
  <2>3. cache' = DecodeSwitchState(ReportOf(s, n)) /\ doubt' \subseteq D \cup doubt
    BY <1>6, <2>2 DEF OnNotify, Report
  <2>4. Faithful(cache', had)
    BY <2>3, FaithfulReport
  <2>5. channel' \in Seq(Messages(had)) /\ doubt' \subseteq Fields
    BY <2>1, <2>3, NextMessage DEF IInv
  <2> QED
    BY <2>1, <2>4, <2>5 DEF IInv, FaithfulCall
<1>7. CASE Answered \/ Unheard
  <2>1. channel # <<>> /\ channel' = Tail(channel) /\ UNCHANGED <<unit, cache, local, had, doubt>>
    BY <1>7 DEF Answered, Unheard, callVars, history
  <2>2. /\ call' \in [Callers -> Stages]
        /\ \A d \in Callers : call'[d] # "idle" => call[d] # "idle"
    <3>1. CASE Unheard
      BY <3>1 DEF Unheard, callVars, IInv
    <3>2. CASE Answered
      <4>1. PICK c \in Callers : Head(channel) = Answer(c) /\ call[c] = "applied"
        BY <2>1, <3>2, NextMessage DEF Answered
      <4>2. call' = [call EXCEPT ![c] = "answered"]
        <5>1. Head(channel).caller = c
          BY <4>1 DEF Answer
        <5> QED
          BY <3>2, <5>1 DEF Answered
      <4> QED
        BY <4>1, <4>2 DEF IInv, Stages
    <3> QED
      BY <1>7, <3>1, <3>2
  <2>3. channel' \in Seq(Messages(had))
    BY <2>1, NextMessage
  <2> QED
    BY <2>1, <2>2, <2>3 DEF IInv, FaithfulCall
<1>8. CASE LinkDown
  <2>1. UNCHANGED <<unit, cache, local, had, doubt>> /\ channel' = <<>>
    BY <1>8 DEF LinkDown, history
  <2>2. call' \in [Callers -> Stages] /\ \A d \in Callers : call'[d] # "idle" => call[d] # "idle"
    BY <1>8 DEF LinkDown, IInv, Stages
  <2> QED
    BY <2>1, <2>2 DEF IInv, FaithfulCall
<1>9. CASE LinkUp
  BY <1>9 DEF LinkUp, callVars, history, FaithfulCall, IInv
<1>10. ASSUME NEW f \in ForeignFields, NEW v \in Choices(f), ForeignChange(f, v)
       PROVE  IInv'
  <2>1. f \in Fields /\ v \in ValuesOf(f) /\ v \in Bytes
    BY <1>10, BoundAssumption, SettingsAssumption DEF Choices, ValuesOf, Bits, Bytes
  <2>2. /\ unit' = [unit EXCEPT ![f] = v] /\ had' = [had EXCEPT ![f] = @ \cup {v}]
        /\ doubt' = doubt \cup {f} /\ channel' = Overtaken({f})
        /\ UNCHANGED <<cache, call>>
    BY <1>10 DEF ForeignChange
  <2>3. had' \in Histories /\ v \in had'[f] /\ \A g \in Fields : had[g] \subseteq had'[g]
    BY <2>1, <2>2 DEF IInv, Histories
  <2>4. unit' \in FaithfulUnit(had')
    <3>1. unit \in [Fields -> Bytes] /\ unit \in FaithfulUnit(had')
      BY <2>3, HistoryGrows DEF IInv, FaithfulUnit, UnitSettings
    <3>2. unit'[f] = v /\ \A g \in Fields \ {f} : unit'[g] = unit[g]
      BY <2>1, <2>2, <3>1
    <3>3. unit' \in [Fields -> Bytes]
      BY <2>1, <2>2, <3>1
    <3> QED
      BY <2>1, <2>3, <3>1, <3>2, <3>3 DEF FaithfulUnit, UnitSettings, Kept
  <2>5. channel' \in Seq(Messages(had'))
    <3>1. channel' \in Seq(Messages(had))
      BY <2>1, <2>2, StillMessages
    <3>2. Messages(had) \subseteq Messages(had')
      BY <2>3, HistoryGrows
    <3> QED
      BY <3>1, <3>2
  <2>6. cache' = NoState \/ Faithful(cache', had')
    BY <2>2, <2>3, HistoryGrows DEF IInv
  <2>7. DOMAIN local' = Callers /\ \A c \in Callers : call'[c] # "idle" => FaithfulCall(c)'
    <3>1. DOMAIN local' = Callers
      BY <1>10 DEF ForeignChange
    <3>2. ASSUME NEW c \in Callers, call[c] # "idle"
          PROVE  FaithfulCall(c)'
      <4>1. local'[c] = [local[c] EXCEPT !.doubt = @ \cup {f}]
        BY <1>10, <3>2 DEF ForeignChange
      <4>2. FaithfulCall(c)
        BY <3>2 DEF IInv
      <4>3. /\ local'[c].field = local[c].field /\ local'[c].value = local[c].value
            /\ local'[c].desired = local[c].desired
            /\ local'[c].doubt = local[c].doubt \cup {f}
            /\ DOMAIN local'[c] = DOMAIN local[c]
        BY <4>1, <4>2 DEF FaithfulCall
      <4>4. Faithful(local[c].desired, had')
        BY <2>3, <4>2, HistoryGrows DEF FaithfulCall
      <4> QED
        BY <2>1, <4>2, <4>3, <4>4 DEF FaithfulCall
    <3> QED
      BY <2>2, <3>1, <3>2
  <2> QED
    BY <2>1, <2>2, <2>3, <2>4, <2>5, <2>6, <2>7 DEF IInv
<1>11. CASE UNCHANGED vars
  BY <1>11 DEF vars, callVars, history, FaithfulCall, IInv
<1> QED
  BY <1>1, <1>2, <1>3, <1>4, <1>5, <1>6, <1>7, <1>8, <1>9, <1>10, <1>11
  DEF Next, CallerStep

(* Home Assistant never gives a setting without a switch a value its owner did *)
(* not give it: not by a command, not by commands racing each other, not from  *)
(* a stale or short report (ble.py, set_device_info; protocol.py, the two      *)
(* layouts of 0x16).                                                           *)
THEOREM NoSettingEverInvented == Spec => []NoSettingInvented
<1>1. IInv => NoSettingInvented
  BY DEF IInv, FaithfulUnit, Kept, NoSettingInvented
<1> QED
  BY <1>1, InitIInv, NextIInv, PTL DEF Spec

-----------------------------------------------------------------------------
(* The remaining types: what the entities are given is on or off, whatever a *)
(* report says; a raw or an inverted field has no switch.                    *)
Bounded ==
    /\ up \in BOOLEAN
    /\ drops \in 0 .. MaxDrops /\ foreign \in 0 .. MaxForeign
    /\ Len(channel) =< MaxInFlight
    /\ shown \in [Switchable -> Bits \cup {NoState}]

(* A report names fields of the block, and says on or off of every switch. *)
LEMMA ReportAt ==
    ASSUME IInv, NEW i \in 1 .. Len(channel), channel[i].kind = "report"
    PROVE  /\ channel[i].doubt \subseteq Fields
           /\ DOMAIN DecodeSwitchState(channel[i].bytes) \subseteq Fields
           /\ \A f \in Switchable \cap DOMAIN DecodeSwitchState(channel[i].bytes) :
                 DecodeSwitchState(channel[i].bytes)[f] \in Bits
<1>1. channel[i] \in Messages(had)
  BY DEF IInv
<1>2. PICK s \in FaithfulUnit(had), n \in 0 .. Len(RecvFields), D \in SUBSET Fields :
          channel[i] = Report(ReportOf(s, n), D)
  BY <1>1 DEF Messages, Answer, Unawaited
<1>3. channel[i].bytes = ReportOf(s, n) /\ channel[i].doubt = D
  BY <1>2 DEF Report
<1>4. Faithful(DecodeSwitchState(ReportOf(s, n)), had)
  BY FaithfulReport
<1>5. \A f \in Switchable : ValuesOf(f) = Bits
  BY LayoutAssumption DEF ValuesOf
<1> QED
  BY <1>3, <1>4, <1>5 DEF Faithful

LEMMA InitBounded == Init => Bounded
BY BoundAssumption DEF Init, Bounded

LEMMA NextBounded ==
    ASSUME IInv, Bounded, [Next]_vars
    PROVE  Bounded'
<1> USE BoundAssumption DEF Bounded
<1>1. ASSUME NEW c \in Callers, NEW f \in Switchable, NEW v \in Bits, Call(c, f, v)
      PROVE  Bounded'
  BY <1>1 DEF Call, bounds
<1>2. ASSUME NEW c \in Callers, Apply(c)
      PROVE  Bounded'
  <2>1. Len(channel') = Len(channel) + 1 /\ Len(channel) \in Nat
    BY <1>2, AppliedChannel
  <2> QED
    BY <1>2, <2>1 DEF Apply, bounds
<1>3. ASSUME NEW c \in Callers, Resume(c)
      PROVE  Bounded'
  BY <1>3 DEF Resume, FaithfulCall, bounds, IInv
<1>4. ASSUME NEW c \in Callers, Fail(c)
      PROVE  Bounded'
  <2>1. Len(channel') = Len(channel)
    BY <1>4, GivenUp
  <2> QED
    BY <1>4, <2>1 DEF Fail, bounds
<1>5. ASSUME NEW n \in ReportLengths, SendReport(n)
      PROVE  Bounded'
  <2>1. Len(channel') = Len(channel) + 1 /\ Len(channel) \in Nat
    BY <1>5 DEF SendReport, IInv
  <2> QED
    BY <1>5, <2>1 DEF SendReport, bounds
<1>6. CASE OnNotify
  <2>1. channel # <<>> /\ channel' = Tail(channel) /\ channel[1].kind = "report"
    BY <1>6, NextMessage DEF OnNotify
  <2>2. \A f \in Switchable :
            shown'[f] = IF f \in DOMAIN DecodeSwitchState(channel[1].bytes)
                        THEN DecodeSwitchState(channel[1].bytes)[f] ELSE shown[f]
    BY <1>6, <2>1, NextMessage DEF OnNotify
  <2>3. \A f \in Switchable : shown'[f] \in Bits \cup {NoState}
    BY <2>1, <2>2, NextMessage, ReportAt
  <2>4. shown' \in [Switchable -> Bits \cup {NoState}]
    BY <1>6, <2>3 DEF OnNotify
  <2>5. Len(channel') = Len(channel) - 1 /\ Len(channel) \in Nat
    BY <2>1, TakenOff
  <2> QED
    BY <1>6, <2>4, <2>5 DEF OnNotify, bounds
<1>7. CASE Answered \/ Unheard
  <2>1. Len(channel') = Len(channel) - 1 /\ Len(channel) \in Nat
    BY <1>7, TakenOff DEF Answered, Unheard
  <2> QED
    BY <1>7, <2>1 DEF Answered, Unheard, bounds
<1>8. CASE LinkDown
  <2>1. up' = FALSE
    BY <1>8, Zenon DEF LinkDown
  <2>2. Len(channel') = 0
    BY <1>8 DEF LinkDown
  <2>3. drops' \in 0 .. MaxDrops /\ UNCHANGED <<shown, foreign>>
    BY <1>8 DEF LinkDown
  <2>4. up' \in BOOLEAN
    BY <2>1
  <2>5. (Len(channel) =< MaxInFlight)'
    BY <2>2
  <2> QED
    BY <2>3, <2>4, <2>5
<1>9. CASE LinkUp
  BY <1>9 DEF LinkUp, bounds
<1>10. ASSUME NEW f \in ForeignFields, NEW v \in Choices(f), ForeignChange(f, v)
       PROVE  Bounded'
  <2>1. Len(channel') = Len(channel)
    BY <1>10, StillMessages DEF ForeignChange
  <2> QED
    BY <1>10, <2>1 DEF ForeignChange
<1>11. CASE UNCHANGED vars
  BY <1>11 DEF vars, bounds
<1> QED
  BY <1>1, <1>2, <1>3, <1>4, <1>5, <1>6, <1>7, <1>8, <1>9, <1>10, <1>11
  DEF Next, CallerStep

(* The types, the entities' values among them: a switch is shown as on, off or *)
(* not known, for any report and any number of calls at once.                  *)
THEOREM TypeCorrect == Spec => []TypeOK
<1>1. IInv /\ Bounded => TypeOK
  BY DEF IInv, Bounded, TypeOK, FaithfulUnit, FaithfulCall, Histories
<1>2. IInv /\ Bounded /\ [Next]_vars => (IInv /\ Bounded)'
  BY NextIInv, NextBounded
<1> QED
  BY <1>1, <1>2, InitIInv, InitBounded, PTL DEF Spec

-----------------------------------------------------------------------------
(* With one call at a time, whoever makes it: what the cache, a report and a    *)
(* caller's copy say is so at the unit, but for the fields in doubt.            *)
Alone == \A c, d \in Callers : call[c] # "idle" /\ call[d] # "idle" => c = d

\* A state says what the unit is set to, but for the fields D.
Agrees(state, D) == \A f \in DOMAIN state \ D : state[f] = unit[f]

IsReport(i) == channel[i].kind = "report"
Decoded(i) == DecodeSwitchState(channel[i].bytes)

CacheTrue == cache # NoState => Agrees(cache, doubt)

ReportsTrue ==
    \A i \in 1 .. Len(channel) : IsReport(i) => Agrees(Decoded(i), channel[i].doubt)

CopyTrue(c) ==
    /\ call[c] # "idle" => local[c].desired[local[c].field] = local[c].value
    /\ call[c] = "writing" =>
          /\ Agrees(local[c].desired, local[c].doubt \cup {local[c].field})
          /\ doubt \subseteq local[c].doubt
    /\ call[c] \in {"applied", "answered"} =>
          /\ Agrees(local[c].desired, local[c].doubt)
          /\ doubt \subseteq local[c].doubt \cup {local[c].field}

ShownTrue ==
    /\ \A f \in Switchable \ doubt : shown[f] # NoState => shown[f] = unit[f]
    /\ cache # NoState => \A f \in Switchable \cap DOMAIN cache : shown[f] # NoState
    /\ \A c \in Callers : call[c] # "idle" => \A f \in Switchable : shown[f] # NoState

\* Each report leaves no more in doubt than what is known now, or than the report
\* before it; the ones behind an answer no more than the caller's copy.
BehindAnswer(i, c) ==
    \/ call[c] = "answered"
    \/ call[c] = "applied" /\ \E j \in 1 .. Len(channel) : j < i /\ IsAnswerTo(j, c)

DoubtShrinks ==
    \A i \in 1 .. Len(channel) : IsReport(i) =>
        /\ channel[i].doubt \subseteq doubt
        /\ \A j \in 1 .. Len(channel) : j < i /\ IsReport(j) => channel[i].doubt \subseteq channel[j].doubt
        /\ \A c \in Callers : BehindAnswer(i, c) => channel[i].doubt \subseteq local[c].doubt

AllTrue == CacheTrue /\ ReportsTrue /\ (\A c \in Callers : CopyTrue(c)) /\ ShownTrue /\ DoubtShrinks

(* A call at work is the only one. *)
LEMMA OthersIdle ==
    ASSUME Alone, NEW c \in Callers, call[c] # "idle"
    PROVE  \A d \in Callers \ {c} : call[d] = "idle"
BY DEF Alone

(* A change at the unit leaves everything as true as it was, once the fields    *)
(* that changed are in doubt.                                                   *)
LEMMA ChangeTrue ==
    ASSUME IInv, AllTrue, NEW F \in SUBSET Fields,
           \A g \in Fields \ F : unit'[g] = unit[g],
           doubt' = doubt \cup F, UNCHANGED <<cache, shown>>,
           Len(channel') >= Len(channel),
           \A i \in 1 .. Len(channel) : channel'[i] = Overtaken(F)[i],
           \A i \in 1 .. Len(channel') : i \in 1 .. Len(channel) \/ channel'[i].kind # "report"
    PROVE  /\ CacheTrue' /\ ReportsTrue'
           /\ \A f \in Switchable \ doubt' : shown'[f] # NoState => shown'[f] = unit'[f]
           /\ \A i \in 1 .. Len(channel') : channel'[i].kind = "report" =>
                 /\ i \in 1 .. Len(channel) /\ channel[i].kind = "report"
                 /\ channel'[i].doubt = channel[i].doubt \cup F
                 /\ channel'[i].doubt \subseteq doubt'
                 /\ \A j \in 1 .. Len(channel') : j < i /\ channel'[j].kind = "report"
                       => channel'[i].doubt \subseteq channel'[j].doubt
<1>1. CacheTrue'
  BY DEF AllTrue, CacheTrue, Agrees, IInv, Faithful
<1>2. ASSUME NEW i \in 1 .. Len(channel'), channel'[i].kind = "report"
      PROVE  /\ i \in 1 .. Len(channel) /\ channel[i].kind = "report"
             /\ channel'[i].bytes = channel[i].bytes
             /\ channel'[i].doubt = channel[i].doubt \cup F
  BY <1>2, StillMessages
<1>3. ReportsTrue'
  <2> SUFFICES ASSUME NEW i \in 1 .. Len(channel'), channel'[i].kind = "report",
                      NEW g \in DOMAIN DecodeSwitchState(channel'[i].bytes) \ channel'[i].doubt
               PROVE  DecodeSwitchState(channel'[i].bytes)[g] = unit'[g]
    BY DEF ReportsTrue, Agrees, Decoded, IsReport
  <2>1. /\ i \in 1 .. Len(channel) /\ channel[i].kind = "report"
        /\ channel'[i].bytes = channel[i].bytes /\ g \notin channel[i].doubt /\ g \notin F
    BY <1>2
  <2>2. g \in Fields
    BY <2>1, ReportAt
  <2>3. DecodeSwitchState(channel[i].bytes)[g] = unit[g]
    BY <2>1 DEF AllTrue, ReportsTrue, Agrees, Decoded, IsReport
  <2> QED
    BY <2>1, <2>2, <2>3
<1>4. \A f \in Switchable \ doubt' : shown'[f] # NoState => shown'[f] = unit'[f]
  BY FieldSets DEF AllTrue, ShownTrue
<1>5. ASSUME NEW i \in 1 .. Len(channel'), channel'[i].kind = "report"
      PROVE  /\ channel'[i].doubt \subseteq doubt'
             /\ \A j \in 1 .. Len(channel') : j < i /\ channel'[j].kind = "report"
                   => channel'[i].doubt \subseteq channel'[j].doubt
  BY <1>2, <1>5 DEF AllTrue, DoubtShrinks, IsReport
<1> QED
  BY <1>1, <1>2, <1>3, <1>4, <1>5

(* Taking the first message off the link leaves the others as true as they were. *)
LEMMA RestTrue ==
    ASSUME IInv, AllTrue, channel # <<>>, channel' = Tail(channel), UNCHANGED unit
    PROVE  /\ ReportsTrue'
           /\ \A i \in 1 .. Len(channel') : channel'[i].kind = "report" =>
                 /\ i + 1 \in 1 .. Len(channel) /\ IsReport(i + 1)
                 /\ channel'[i].doubt = channel[i + 1].doubt
                 /\ channel'[i].doubt \subseteq doubt
                 /\ \A j \in 1 .. Len(channel') : j < i /\ channel'[j].kind = "report"
                       => channel'[i].doubt \subseteq channel'[j].doubt
                 /\ IsReport(1) => channel'[i].doubt \subseteq channel[1].doubt
                 /\ \A c \in Callers : BehindAnswer(i + 1, c)
                       => channel'[i].doubt \subseteq local[c].doubt
<1>1. ReportsTrue'
  <2> SUFFICES ASSUME NEW i \in 1 .. Len(channel'), channel'[i].kind = "report",
                      NEW g \in DOMAIN DecodeSwitchState(channel'[i].bytes) \ channel'[i].doubt
               PROVE  DecodeSwitchState(channel'[i].bytes)[g] = unit'[g]
    BY DEF ReportsTrue, Agrees, Decoded, IsReport
  <2>1. i + 1 \in 1 .. Len(channel) /\ channel'[i] = channel[i + 1]
    BY TakenOff
  <2> QED
    BY <2>1 DEF AllTrue, ReportsTrue, Agrees, Decoded, IsReport
<1>2. ASSUME NEW i \in 1 .. Len(channel'), channel'[i].kind = "report"
      PROVE  /\ i + 1 \in 1 .. Len(channel) /\ IsReport(i + 1)
             /\ channel'[i].doubt = channel[i + 1].doubt
             /\ channel'[i].doubt \subseteq doubt
             /\ \A c \in Callers : BehindAnswer(i + 1, c)
                   => channel'[i].doubt \subseteq local[c].doubt
  BY <1>2, TakenOff DEF AllTrue, DoubtShrinks, IsReport
<1>3. ASSUME NEW i \in 1 .. Len(channel'), channel'[i].kind = "report",
             NEW j \in 1 .. Len(channel'), j < i, channel'[j].kind = "report"
      PROVE  channel'[i].doubt \subseteq channel'[j].doubt
  <2>1. /\ i + 1 \in 1 .. Len(channel) /\ channel'[i] = channel[i + 1]
        /\ j + 1 \in 1 .. Len(channel) /\ channel'[j] = channel[j + 1]
    BY TakenOff
  <2>2. j + 1 < i + 1
    BY <1>3
  <2> QED
    BY <1>3, <2>1, <2>2 DEF AllTrue, DoubtShrinks, IsReport
<1>4. ASSUME NEW i \in 1 .. Len(channel'), channel'[i].kind = "report", IsReport(1)
      PROVE  channel'[i].doubt \subseteq channel[1].doubt
  <2>1. i + 1 \in 1 .. Len(channel) /\ channel'[i] = channel[i + 1] /\ 1 \in 1 .. Len(channel)
    BY TakenOff
  <2> QED
    BY <1>4, <2>1 DEF AllTrue, DoubtShrinks, IsReport
<1> QED
  BY <1>1, <1>2, <1>3, <1>4

(* What a caller takes from the cache is so at the unit, but for what is in doubt. *)
LEMMA CallTrue ==
    ASSUME Alone', IInv, AllTrue, NEW c \in Callers, NEW f \in Switchable, NEW v \in Bits,
           Call(c, f, v)
    PROVE  AllTrue'
<1>1. /\ UNCHANGED <<channel, unit, cache, shown, doubt>> /\ call'[c] = "writing"
      /\ local'[c] = [field |-> f, value |-> v, desired |-> [cache EXCEPT ![f] = v],
                      doubt |-> doubt]
  BY DEF Call, IInv, history
<1>2. Faithful(cache, had) /\ cache # NoState /\ Switchable \subseteq DOMAIN cache
  BY FieldSets DEF Call, IInv
<1>3. \A d \in Callers \ {c} : call'[d] = "idle"
  BY <1>1 DEF Alone
<1>4. CacheTrue' /\ ReportsTrue'
  BY <1>1 DEF AllTrue, CacheTrue, ReportsTrue, Agrees, IsReport, Decoded
<1>5. CopyTrue(c)'
  <2>1. \A g \in DOMAIN cache \ doubt : cache[g] = unit[g]
    BY <1>2 DEF AllTrue, CacheTrue, Agrees
  <2>2. [cache EXCEPT ![f] = v][f] = v
    BY <1>2
  <2>3. \A g \in DOMAIN [cache EXCEPT ![f] = v] \ (doubt \cup {f}) :
            [cache EXCEPT ![f] = v][g] = unit[g]
    BY <2>1
  <2> QED
    BY <1>1, <2>2, <2>3 DEF CopyTrue, Agrees
<1>6. \A d \in Callers : CopyTrue(d)'
  BY <1>3, <1>5 DEF CopyTrue
<1>7. ShownTrue'
  BY <1>1, <1>2, <1>3 DEF AllTrue, ShownTrue
<1>8. DoubtShrinks'
  <2>1. \A i, d : d \in Callers => ~BehindAnswer(i, d)'
    BY <1>1, <1>3 DEF BehindAnswer
  <2> QED
    BY <1>1, <2>1 DEF AllTrue, DoubtShrinks, IsReport
<1> QED
  BY <1>4, <1>6, <1>7, <1>8 DEF AllTrue

(* What a write moves: nothing but its switch and what its caller had in doubt. *)
LEMMA WriteMoves ==
    ASSUME IInv, AllTrue, NEW c \in Callers, Apply(c)
    PROVE  /\ call[c] = "writing" /\ FaithfulCall(c) /\ UNCHANGED <<cache, shown, local>>
           /\ \A g \in Sent : unit'[g] = local[c].desired[g]
           /\ \A g \in Fields \ Sent : unit'[g] = unit[g]
           /\ \A g \in Fields \ {local[c].field} : unit'[g] = unit[g] \/ g \in local[c].doubt
<1>1. call[c] = "writing" /\ FaithfulCall(c) /\ UNCHANGED <<cache, shown, local>>
  BY DEF Apply, IInv
<1>2. ASSUME NEW g \in Sent
      PROVE  unit'[g] = local[c].desired[g]
  <2>1. local[c].desired[g] \in ValuesOf(g)
    BY <1>1 DEF FaithfulCall, Faithful
  <2> QED
    BY <2>1, WrittenField DEF Apply
<1>3. ASSUME NEW g \in Fields \ Sent
      PROVE  unit'[g] = unit[g]
  BY DEF Apply, Replaced
<1>4. ASSUME NEW g \in Fields \ {local[c].field}, g \notin local[c].doubt
      PROVE  unit'[g] = unit[g]
  <2>1. CASE g \in Sent
    <3>1. g \in DOMAIN local[c].desired \ (local[c].doubt \cup {local[c].field})
      BY <1>1, <1>4, <2>1 DEF FaithfulCall
    <3>2. local[c].desired[g] = unit[g]
      BY <1>1, <3>1 DEF AllTrue, CopyTrue, Agrees
    <3> QED
      BY <1>2, <2>1, <3>2
  <2> QED
    BY <1>3, <2>1
<1> QED
  BY <1>1, <1>2, <1>3, <1>4

(* A write puts in doubt what it moves, until a report or its own caller tells. *)
LEMMA ApplyTrue ==
    ASSUME Alone, IInv, AllTrue, NEW c \in Callers, Apply(c)
    PROVE  AllTrue'
<1>1. PICK F \in SUBSET Fields :
             /\ F = {f \in Fields : unit'[f] # unit[f]} \cup {local[c].field}
             /\ doubt' = doubt \cup F
             /\ Len(channel') = Len(channel) + 1 /\ Len(channel) \in Nat
             /\ \A i \in 1 .. Len(channel) : channel'[i] = Overtaken(F)[i]
             /\ channel'[Len(channel) + 1] = Answer(c)
  BY AppliedChannel
<1>2. \A g \in Fields \ F : unit'[g] = unit[g]
  BY <1>1
<1>3. \A i \in 1 .. Len(channel') : i \in 1 .. Len(channel) \/ channel'[i].kind # "report"
  BY <1>1 DEF Answer
<1>4. call[c] = "writing" /\ FaithfulCall(c) /\ UNCHANGED <<cache, shown, local>>
  BY WriteMoves
<1>5. /\ CacheTrue' /\ ReportsTrue'
      /\ \A f \in Switchable \ doubt' : shown'[f] # NoState => shown'[f] = unit'[f]
      /\ \A i \in 1 .. Len(channel') : channel'[i].kind = "report" =>
            /\ i \in 1 .. Len(channel)
            /\ channel'[i].doubt \subseteq doubt'
            /\ \A j \in 1 .. Len(channel') : j < i /\ channel'[j].kind = "report"
                  => channel'[i].doubt \subseteq channel'[j].doubt
  <2>1. Len(channel') >= Len(channel) /\ UNCHANGED <<cache, shown>>
    BY <1>1, <1>4
  <2>2. doubt' = doubt \cup F /\ \A i \in 1 .. Len(channel) : channel'[i] = Overtaken(F)[i]
    BY <1>1
  <2> QED
    BY <1>2, <1>3, <2>1, <2>2, ChangeTrue
<1>6. call'[c] = "applied" /\ \A d \in Callers \ {c} : call[d] = "idle" /\ call'[d] = "idle"
  BY <1>4, OthersIdle DEF Apply, IInv
<1>7. CopyTrue(c)'
  <2>1. local[c].desired[local[c].field] = local[c].value
    BY <1>4 DEF AllTrue, CopyTrue
  <2>2. ASSUME NEW g \in DOMAIN local[c].desired \ local[c].doubt
        PROVE  local[c].desired[g] = unit'[g]
    <3>1. CASE g \in Sent
      BY <3>1, WriteMoves
    <3>2. CASE g \notin Sent
      <4>1. g \in Fields /\ g # local[c].field
        BY <1>4, <3>2, FieldSets DEF FaithfulCall, Faithful
      <4>2. local[c].desired[g] = unit[g]
        BY <1>4, <2>2, <4>1 DEF AllTrue, CopyTrue, Agrees
      <4> QED
        BY <3>2, <4>1, <4>2, WriteMoves
    <3> QED
      BY <3>1, <3>2
  <2>3. doubt' \subseteq local[c].doubt \cup {local[c].field}
    <3>1. doubt \subseteq local[c].doubt
      BY <1>4 DEF AllTrue, CopyTrue
    <3>2. F \subseteq local[c].doubt \cup {local[c].field}
      BY <1>1, WriteMoves
    <3> QED
      BY <1>1, <3>1, <3>2
  <2> QED
    BY <1>4, <1>6, <2>1, <2>2, <2>3 DEF CopyTrue, Agrees
<1>8. \A d \in Callers : CopyTrue(d)'
  BY <1>6, <1>7 DEF CopyTrue
<1>9. ShownTrue'
  BY <1>4, <1>5, <1>6 DEF AllTrue, ShownTrue
<1>10. ASSUME NEW i \in 1 .. Len(channel'), channel'[i].kind = "report", NEW d \in Callers
       PROVE  ~BehindAnswer(i, d)'
  <2>1. \A j \in 1 .. Len(channel) : ~IsAnswerTo(j, c)
    BY <1>4 DEF IInv, AnswersAwaited
  <2>2. ASSUME NEW j \in 1 .. Len(channel'), j < i, IsAnswerTo(j, c)'
        PROVE  FALSE
    <3>1. i \in 1 .. Len(channel) /\ j \in 1 .. Len(channel)
      BY <1>1, <1>5, <1>10, <2>2
    <3>2. IsAnswerTo(j, c)
      BY <1>1, <2>2, <3>1, StillMessages DEF IsAnswerTo
    <3> QED
      BY <2>1, <3>1, <3>2
  <2> QED
    BY <1>6, <2>2 DEF BehindAnswer
<1>11. DoubtShrinks'
  BY <1>5, <1>10 DEF DoubtShrinks, IsReport
<1> QED
  BY <1>5, <1>8, <1>9, <1>11 DEF AllTrue

(* The caller's copy, back in the cache, is as true as it was in its hands. *)
LEMMA ResumeTrue ==
    ASSUME Alone, IInv, Bounded, AllTrue, NEW c \in Callers, Resume(c)
    PROVE  AllTrue'
<1>1. /\ UNCHANGED <<channel, unit>> /\ call[c] = "answered"
      /\ cache' = local[c].desired /\ doubt' = local[c].doubt
      /\ shown' = [shown EXCEPT ![local[c].field] = local[c].value]
  BY DEF Resume, IInv
<1>2. FaithfulCall(c)
  BY <1>1 DEF IInv
<1>3. /\ local[c].desired[local[c].field] = local[c].value
      /\ Agrees(local[c].desired, local[c].doubt)
      /\ doubt \subseteq local[c].doubt \cup {local[c].field}
  BY <1>1 DEF AllTrue, CopyTrue
<1>4. \A d \in Callers : call'[d] = "idle"
  BY <1>1, OthersIdle DEF Resume, IInv
<1>5. CacheTrue' /\ ReportsTrue' /\ \A d \in Callers : CopyTrue(d)'
  BY <1>1, <1>3, <1>4 DEF AllTrue, CacheTrue, ReportsTrue, CopyTrue, Agrees, IsReport, Decoded
<1>6. ShownTrue'
  <2>1. local[c].field \in DOMAIN local[c].desired
    BY <1>2, FieldSets DEF FaithfulCall
  <2>2. ASSUME NEW g \in Switchable
        PROVE  /\ shown'[g] # NoState
               /\ g \notin local[c].doubt => shown'[g] = unit[g]
    <3>1. CASE g = local[c].field
      <4>1. shown'[g] = local[c].value
        BY <1>1, <3>1 DEF Bounded
      <4>2. local[c].value # NoState
        BY <1>2, NoStateAssumption DEF FaithfulCall
      <4>3. g \notin local[c].doubt => local[c].value = unit[g]
        BY <1>3, <2>1, <3>1 DEF Agrees
      <4> QED
        BY <4>1, <4>2, <4>3
    <3>2. CASE g # local[c].field
      <4>1. shown'[g] = shown[g]
        BY <1>1, <3>2 DEF Bounded
      <4>2. shown[g] # NoState
        BY <1>1 DEF AllTrue, ShownTrue
      <4>3. g \notin local[c].doubt => g \notin doubt
        BY <1>3, <3>2
      <4> QED
        BY <4>1, <4>2, <4>3 DEF AllTrue, ShownTrue
    <3> QED
      BY <3>1, <3>2
  <2> QED
    BY <1>1, <1>4, <2>2 DEF ShownTrue
<1>7. DoubtShrinks'
  <2>1. \A i, d : d \in Callers => ~BehindAnswer(i, d)'
    BY <1>4 DEF BehindAnswer
  <2>2. \A i : BehindAnswer(i, c)
    BY <1>1 DEF BehindAnswer
  <2> QED
    BY <1>1, <2>1, <2>2 DEF AllTrue, DoubtShrinks, IsReport
<1> QED
  BY <1>5, <1>6, <1>7 DEF AllTrue

(* A command that failed leaves in doubt what it may have moved. *)
LEMMA FailTrue ==
    ASSUME Alone, IInv, AllTrue, NEW c \in Callers, Fail(c)
    PROVE  AllTrue'
<1>1. UNCHANGED <<unit, cache, shown, doubt>> /\ call[c] # "idle"
  BY DEF Fail, history
<1>2. \A d \in Callers : call'[d] = "idle"
  BY <1>1, OthersIdle DEF Fail, IInv
<1>3. /\ Len(channel') = Len(channel)
      /\ \A i \in 1 .. Len(channel) : channel'[i].kind = "report" =>
            channel'[i] = channel[i] /\ channel[i].kind = "report"
  BY GivenUp DEF Unawaited
<1>4. CacheTrue' /\ ShownTrue' /\ \A d \in Callers : CopyTrue(d)'
  BY <1>1, <1>2 DEF AllTrue, CacheTrue, ShownTrue, CopyTrue, Agrees
<1>5. ReportsTrue'
  BY <1>1, <1>3 DEF AllTrue, ReportsTrue, Agrees, IsReport, Decoded
<1>6. DoubtShrinks'
  <2>1. \A i, d : d \in Callers => ~BehindAnswer(i, d)'
    BY <1>2 DEF BehindAnswer
  <2> QED
    BY <1>1, <1>3, <2>1 DEF AllTrue, DoubtShrinks, IsReport
<1> QED
  BY <1>4, <1>5, <1>6 DEF AllTrue

(* A new report says what the unit is set to, with nothing in doubt. *)
LEMMA NewReportTrue ==
    ASSUME IInv, NEW n \in ReportLengths
    PROVE  Agrees(DecodeSwitchState(ReportOf(unit, n)), {})
<1>1. unit \in UnitSettings /\ n \in 0 .. Len(RecvFields)
  BY BoundAssumption DEF IInv, FaithfulUnit
<1>2. ASSUME NEW f \in DOMAIN DecodeSwitchState(ReportOf(unit, n))
      PROVE  DecodeSwitchState(ReportOf(unit, n))[f] = unit[f]
  <2>1. PICK k \in 1 .. n : RecvFields[k] = f
    <3>1. DOMAIN DecodeSwitchState(ReportOf(unit, n)) = {RecvFields[k] : k \in 1 .. n}
      BY <1>1, DecodedReport
    <3> QED
      BY <1>2, <3>1
  <2> QED
    BY <1>1, <2>1, DecodedReport
<1> QED
  BY <1>2 DEF Agrees

LEMMA SendReportTrue ==
    ASSUME IInv, AllTrue, NEW n \in ReportLengths, SendReport(n)
    PROVE  AllTrue'
<1>1. UNCHANGED <<unit, cache, shown, call, local, doubt>>
  BY DEF SendReport, callVars, history
<1>2. /\ Len(channel') = Len(channel) + 1 /\ Len(channel) \in Nat
      /\ \A i \in 1 .. Len(channel) : channel'[i] = channel[i]
      /\ channel'[Len(channel) + 1] = Report(ReportOf(unit, n), {})
  BY DEF SendReport, IInv
<1>3. \A i \in 1 .. Len(channel') : i \in 1 .. Len(channel) \/ i = Len(channel) + 1
  BY <1>2
<1>4. CacheTrue' /\ ShownTrue' /\ \A c \in Callers : CopyTrue(c)'
  BY <1>1 DEF AllTrue, CacheTrue, ShownTrue, CopyTrue, Agrees
<1>5. ReportsTrue'
  <2> SUFFICES ASSUME NEW i \in 1 .. Len(channel'), channel'[i].kind = "report",
                      NEW g \in DOMAIN DecodeSwitchState(channel'[i].bytes) \ channel'[i].doubt
               PROVE  DecodeSwitchState(channel'[i].bytes)[g] = unit'[g]
    BY DEF ReportsTrue, Agrees, Decoded, IsReport
  <2>1. CASE i \in 1 .. Len(channel)
    BY <1>1, <1>2, <2>1 DEF AllTrue, ReportsTrue, Agrees, Decoded, IsReport
  <2>2. CASE i = Len(channel) + 1
    <3>1. channel'[i].bytes = ReportOf(unit, n)
      BY <1>2, <2>2 DEF Report
    <3> QED
      BY <1>1, <3>1, NewReportTrue DEF Agrees
  <2> QED
    BY <1>3, <2>1, <2>2
<1>6. DoubtShrinks'
  <2> SUFFICES ASSUME NEW i \in 1 .. Len(channel'), channel'[i].kind = "report"
               PROVE  /\ channel'[i].doubt \subseteq doubt'
                      /\ \A j \in 1 .. Len(channel') : j < i /\ channel'[j].kind = "report"
                            => channel'[i].doubt \subseteq channel'[j].doubt
                      /\ \A c \in Callers : BehindAnswer(i, c)'
                            => channel'[i].doubt \subseteq local'[c].doubt
    BY DEF DoubtShrinks, IsReport
  <2>1. CASE i = Len(channel) + 1
    <3>1. channel'[i].doubt = {}
      BY <1>2, <2>1 DEF Report
    <3> QED
      BY <3>1
  <2>2. CASE i \in 1 .. Len(channel)
    <3>1. channel'[i] = channel[i]
      BY <1>2, <2>2
    <3>2. \A j \in 1 .. Len(channel') : j < i => j \in 1 .. Len(channel) /\ channel'[j] = channel[j]
      BY <1>2, <2>2
    <3>3. \A c \in Callers : BehindAnswer(i, c)' => BehindAnswer(i, c)
      BY <1>1, <3>2 DEF BehindAnswer, IsAnswerTo
    <3> QED
      BY <1>1, <2>2, <3>1, <3>2, <3>3 DEF AllTrue, DoubtShrinks, IsReport
  <2> QED
    BY <1>3, <2>1, <2>2
<1> QED
  BY <1>4, <1>5, <1>6 DEF AllTrue

(* What stands behind an answer still does when a message before it is gone. *)
LEMMA StillBehind ==
    ASSUME IInv, channel # <<>>, channel' = Tail(channel), UNCHANGED call,
           NEW i \in 1 .. Len(channel'), NEW c \in Callers, BehindAnswer(i, c)'
    PROVE  BehindAnswer(i + 1, c)
<1>1. CASE call[c] = "answered"
  BY <1>1 DEF BehindAnswer
<1>2. CASE call[c] # "answered"
  <2>1. PICK j \in 1 .. Len(channel') : call[c] = "applied" /\ j < i /\ IsAnswerTo(j, c)'
    BY <1>2 DEF BehindAnswer
  <2>2. j + 1 \in 1 .. Len(channel) /\ channel'[j] = channel[j + 1] /\ j + 1 < i + 1
    BY <2>1, TakenOff
  <2>3. IsAnswerTo(j + 1, c)
    BY <2>1, <2>2 DEF IsAnswerTo
  <2> QED
    BY <2>1, <2>2, <2>3 DEF BehindAnswer
<1> QED
  BY <1>1, <1>2

(* A report handled brings both caches to what it says, in doubt where it is. *)
LEMMA OnNotifyTrue ==
    ASSUME IInv, Bounded, AllTrue, OnNotify
    PROVE  AllTrue'
<1> DEFINE state == DecodeSwitchState(channel[1].bytes)
<1>1. /\ channel # <<>> /\ IsReport(1) /\ 1 \in 1 .. Len(channel)
      /\ channel' = Tail(channel) /\ UNCHANGED <<unit, call, local>>
      /\ cache' = state /\ doubt' = channel[1].doubt \cup (doubt \ DOMAIN state)
      /\ \A f \in Switchable : shown'[f] = IF f \in DOMAIN state THEN state[f] ELSE shown[f]
  BY NextMessage DEF OnNotify, callVars, IsReport
<1>2. \A f \in Switchable \cap DOMAIN state : state[f] # NoState
  BY <1>1, ReportAt, NoStateAssumption DEF IsReport
<1>3. Agrees(state, channel[1].doubt)
  BY <1>1 DEF AllTrue, ReportsTrue, Decoded
<1>4. doubt' \subseteq doubt
  BY <1>1 DEF AllTrue, DoubtShrinks
<1> HIDE DEF state
<1>5. CacheTrue'
  BY <1>1, <1>3 DEF CacheTrue, Agrees
<1>6. \A c \in Callers : CopyTrue(c)'
  BY <1>1, <1>4 DEF AllTrue, CopyTrue, Agrees
<1>7. ShownTrue'
  BY <1>1, <1>2, <1>3 DEF AllTrue, ShownTrue, Agrees
<1>8. ReportsTrue'
  BY <1>1, RestTrue
<1>9. DoubtShrinks'
  <2> SUFFICES ASSUME NEW i \in 1 .. Len(channel'), channel'[i].kind = "report"
               PROVE  /\ channel'[i].doubt \subseteq doubt'
                      /\ \A j \in 1 .. Len(channel') : j < i /\ channel'[j].kind = "report"
                            => channel'[i].doubt \subseteq channel'[j].doubt
                      /\ \A c \in Callers : BehindAnswer(i, c)'
                            => channel'[i].doubt \subseteq local'[c].doubt
    BY DEF DoubtShrinks, IsReport
  <2>1. channel'[i].doubt \subseteq channel[1].doubt
    BY <1>1, RestTrue
  <2>2. \A c \in Callers : BehindAnswer(i, c)' => BehindAnswer(i + 1, c)
    BY <1>1, StillBehind
  <2> QED
    BY <1>1, <2>1, <2>2, RestTrue
<1> QED
  BY <1>5, <1>6, <1>7, <1>8, <1>9 DEF AllTrue

(* The reports behind an answer know at least what its caller's copy knows. *)
LEMMA AnsweredTrue ==
    ASSUME Alone, IInv, AllTrue, Answered
    PROVE  AllTrue'
<1>1. channel # <<>> /\ channel' = Tail(channel) /\ UNCHANGED <<unit, cache, shown, local, doubt>>
  BY DEF Answered, history
<1>2. PICK c \in Callers : Head(channel) = Answer(c) /\ call[c] = "applied"
  BY <1>1, NextMessage DEF Answered
<1>3. IsAnswerTo(1, c) /\ 1 \in 1 .. Len(channel)
  BY <1>1, <1>2, NextMessage DEF IsAnswerTo, Answer
<1>4. call'[c] = "answered" /\ \A d \in Callers \ {c} : call[d] = "idle" /\ call'[d] = "idle"
  <2>1. Head(channel).caller = c
    BY <1>2 DEF Answer
  <2> QED
    BY <1>2, <2>1, OthersIdle DEF Answered, IInv
<1>5. CacheTrue' /\ ShownTrue' /\ ReportsTrue'
  <2>1. ShownTrue'
    BY <1>1, <1>2, <1>4 DEF AllTrue, ShownTrue
  <2> QED
    BY <1>1, <2>1, RestTrue DEF AllTrue, CacheTrue, Agrees
<1>6. \A d \in Callers : CopyTrue(d)'
  BY <1>1, <1>2, <1>4 DEF AllTrue, CopyTrue, Agrees
<1>7. DoubtShrinks'
  <2> SUFFICES ASSUME NEW i \in 1 .. Len(channel'), channel'[i].kind = "report"
               PROVE  /\ channel'[i].doubt \subseteq doubt'
                      /\ \A j \in 1 .. Len(channel') : j < i /\ channel'[j].kind = "report"
                            => channel'[i].doubt \subseteq channel'[j].doubt
                      /\ \A d \in Callers : BehindAnswer(i, d)'
                            => channel'[i].doubt \subseteq local'[d].doubt
    BY DEF DoubtShrinks, IsReport
  <2>1. 1 < i + 1
    BY <1>1, TakenOff
  <2>2. BehindAnswer(i + 1, c)
    BY <1>2, <1>3, <2>1 DEF BehindAnswer
  <2>3. \A d \in Callers : BehindAnswer(i, d)' => d = c
    BY <1>4 DEF BehindAnswer
  <2> QED
    BY <1>1, <2>2, <2>3, RestTrue
<1> QED
  BY <1>5, <1>6, <1>7 DEF AllTrue

LEMMA UnheardTrue ==
    ASSUME IInv, AllTrue, Unheard
    PROVE  AllTrue'
<1>1. /\ channel # <<>> /\ channel' = Tail(channel)
      /\ UNCHANGED <<unit, cache, shown, call, local, doubt>>
  BY DEF Unheard, history, callVars
<1>2. CacheTrue' /\ ShownTrue' /\ ReportsTrue' /\ \A d \in Callers : CopyTrue(d)'
  BY <1>1, RestTrue DEF AllTrue, CacheTrue, ShownTrue, CopyTrue, Agrees
<1>3. DoubtShrinks'
  <2> SUFFICES ASSUME NEW i \in 1 .. Len(channel'), channel'[i].kind = "report"
               PROVE  /\ channel'[i].doubt \subseteq doubt'
                      /\ \A j \in 1 .. Len(channel') : j < i /\ channel'[j].kind = "report"
                            => channel'[i].doubt \subseteq channel'[j].doubt
                      /\ \A c \in Callers : BehindAnswer(i, c)'
                            => channel'[i].doubt \subseteq local'[c].doubt
    BY DEF DoubtShrinks, IsReport
  <2>1. \A c \in Callers : BehindAnswer(i, c)' => BehindAnswer(i + 1, c)
    BY <1>1, StillBehind
  <2> QED
    BY <1>1, <2>1, RestTrue
<1> QED
  BY <1>2, <1>3 DEF AllTrue

(* The link takes reports and answers with it; what was in doubt stays so. *)
LEMMA LinkDownTrue ==
    ASSUME IInv, AllTrue, LinkDown
    PROVE  AllTrue'
<1>1. UNCHANGED <<unit, cache, shown, local, doubt>> /\ Len(channel') = 0
  BY DEF LinkDown, history
<1>2. \A c \in Callers : /\ call'[c] # "idle" => call[c] # "idle"
                         /\ call'[c] \in {"writing", "applied", "answered"} => call'[c] = call[c]
  BY DEF LinkDown, IInv
<1> QED
  BY <1>1, <1>2
  DEF AllTrue, CacheTrue, ReportsTrue, CopyTrue, ShownTrue, DoubtShrinks, Agrees

(* A hand at the unit puts in doubt what it changes, for everyone. *)
LEMMA ForeignTrue ==
    ASSUME IInv, AllTrue, NEW f \in ForeignFields, NEW v \in Choices(f), ForeignChange(f, v)
    PROVE  AllTrue'
<1>1. /\ {f} \in SUBSET Fields /\ UNCHANGED <<cache, shown, call>>
      /\ doubt' = doubt \cup {f} /\ channel' = Overtaken({f})
  BY BoundAssumption DEF ForeignChange
<1>2. \A g \in Fields \ {f} : unit'[g] = unit[g]
  BY DEF ForeignChange, IInv, FaithfulUnit, UnitSettings
<1>3. /\ Len(channel') = Len(channel) /\ Len(channel) \in Nat
      /\ \A i \in 1 .. Len(channel) : channel'[i] = Overtaken({f})[i]
  BY <1>1, StillMessages DEF IInv
<1>4. /\ CacheTrue' /\ ReportsTrue'
      /\ \A g \in Switchable \ doubt' : shown'[g] # NoState => shown'[g] = unit'[g]
      /\ \A i \in 1 .. Len(channel') : channel'[i].kind = "report" =>
            /\ i \in 1 .. Len(channel) /\ channel[i].kind = "report"
            /\ channel'[i].doubt = channel[i].doubt \cup {f}
            /\ channel'[i].doubt \subseteq doubt'
            /\ \A j \in 1 .. Len(channel') : j < i /\ channel'[j].kind = "report"
                  => channel'[i].doubt \subseteq channel'[j].doubt
  <2>1. Len(channel') >= Len(channel) /\ UNCHANGED <<cache, shown>>
    BY <1>1, <1>3
  <2>2. \A i \in 1 .. Len(channel') : i \in 1 .. Len(channel) \/ channel'[i].kind # "report"
    BY <1>3
  <2>3. doubt' = doubt \cup {f}
    BY <1>1
  <2> QED
    BY <1>1, <1>2, <1>3, <2>1, <2>2, <2>3, ChangeTrue
<1>5. ASSUME NEW c \in Callers, call[c] # "idle"
      PROVE  /\ FaithfulCall(c)
             /\ local'[c].field = local[c].field /\ local'[c].value = local[c].value
             /\ local'[c].desired = local[c].desired
             /\ local'[c].doubt = local[c].doubt \cup {f}
  <2>1. local'[c] = [local[c] EXCEPT !.doubt = @ \cup {f}]
    BY <1>5 DEF ForeignChange
  <2>2. FaithfulCall(c)
    BY <1>5 DEF IInv
  <2> QED
    BY <2>1, <2>2 DEF FaithfulCall
<1>6. ASSUME NEW c \in Callers, call[c] # "idle"
      PROVE  CopyTrue(c)'
  <2>1. \A g \in DOMAIN local[c].desired : g \in Fields
    BY <1>5, <1>6 DEF FaithfulCall, Faithful
  <2> QED
    BY <1>1, <1>2, <1>5, <1>6, <2>1 DEF AllTrue, CopyTrue, Agrees
<1>7. \A c \in Callers : CopyTrue(c)'
  BY <1>1, <1>6 DEF CopyTrue
<1>8. ShownTrue'
  BY <1>1, <1>4 DEF AllTrue, ShownTrue
<1>9. ASSUME NEW i \in 1 .. Len(channel'), channel'[i].kind = "report",
             NEW c \in Callers, BehindAnswer(i, c)'
      PROVE  channel'[i].doubt \subseteq local'[c].doubt
  <2>1. \A j \in 1 .. Len(channel') : IsAnswerTo(j, c)' => IsAnswerTo(j, c)
    BY <1>1, <1>3, StillMessages DEF IsAnswerTo
  <2>2. BehindAnswer(i, c) /\ call[c] # "idle"
    BY <1>1, <1>3, <1>9, <2>1 DEF BehindAnswer
  <2>3. i \in 1 .. Len(channel) /\ IsReport(i) /\ channel'[i].doubt = channel[i].doubt \cup {f}
    BY <1>4, <1>9 DEF IsReport
  <2> QED
    BY <1>5, <2>2, <2>3 DEF AllTrue, DoubtShrinks
<1>10. DoubtShrinks'
  BY <1>4, <1>9 DEF DoubtShrinks, IsReport
<1> QED
  BY <1>4, <1>7, <1>8, <1>10 DEF AllTrue

LEMMA InitTrue == Init => AllTrue
BY DEF Init, AllTrue, CacheTrue, ReportsTrue, CopyTrue, ShownTrue, DoubtShrinks, Agrees

LEMMA NextTrue ==
    ASSUME Alone, Alone', IInv, Bounded, AllTrue, [Next]_vars
    PROVE  AllTrue'
<1>1. CASE LinkUp \/ UNCHANGED vars
  BY <1>1
  DEF LinkUp, vars, callVars, history, AllTrue, CacheTrue, ReportsTrue, CopyTrue, ShownTrue,
      DoubtShrinks, Agrees, IsReport, Decoded, BehindAnswer, IsAnswerTo
<1> QED
  BY <1>1, CallTrue, ApplyTrue, ResumeTrue, FailTrue, SendReportTrue, OnNotifyTrue,
     AnsweredTrue, UnheardTrue, LinkDownTrue, ForeignTrue
  DEF Next, CallerStep

-----------------------------------------------------------------------------
(* When calls do not overlap, the one invariant carries all three promises. *)
LEMMA AllAlwaysTrue == Spec /\ []Alone => [](IInv /\ AllTrue)
<1>1. Init => IInv /\ Bounded /\ AllTrue
  BY InitIInv, InitBounded, InitTrue
<1>2. IInv /\ Bounded /\ AllTrue /\ Alone /\ Alone' /\ [Next]_vars => (IInv /\ Bounded /\ AllTrue)'
  BY NextIInv, NextBounded, NextTrue
<1> QED
  BY <1>1, <1>2, PTL DEF Spec

(* An answered call has told the truth, as long as calls do not overlap: over  *)
(* link losses, calls given up, changes made elsewhere, short reports and late *)
(* answers (ble.py, set_device_info).                                          *)
THEOREM AnsweredAlwaysSet == Spec /\ []Alone => []AnsweredMeansSet
<1>1. IInv /\ AllTrue => AnsweredMeansSet
  BY FieldSets DEF AllTrue, CopyTrue, Agrees, AnsweredMeansSet, IInv, FaithfulCall
<1> QED
  BY <1>1, AllAlwaysTrue, PTL

(* What a switch shows is what the next write will send for it, for every switch *)
(* that did not change without Home Assistant being told, as long as calls do    *)
(* not overlap: over link losses and calls given up (ble.py, set_device_info and *)
(* _on_notify).                                                                  *)
THEOREM CachesAlwaysAgree == Spec /\ []Alone => []CachesAgree
<1>1. AllTrue => CachesAgree
  BY DEF AllTrue, CacheTrue, ShownTrue, Agrees, CachesAgree
<1> QED
  BY <1>1, AllAlwaysTrue, PTL

(* Only the unit getting to its write makes a call applied. *)
LEMMA AppliedByTheUnit ==
    ASSUME IInv, [Next]_vars, NEW c \in Callers, call[c] = "writing", call'[c] = "applied"
    PROVE  Apply(c)
<1>1. ASSUME NEW d \in Callers, CallerStep(d)
      PROVE  Apply(c)
  <2>1. d = c
    BY <1>1 DEF CallerStep, Call, Apply, Resume, Fail, IInv
  <2> QED
    BY <1>1, <2>1 DEF CallerStep, Call, Resume, Fail, IInv
<1>2. ASSUME Answered
      PROVE  FALSE
  BY <1>2 DEF Answered, IInv
<1>3. ASSUME LinkDown
      PROVE  FALSE
  BY <1>3 DEF LinkDown, IInv
<1>4. ASSUME UNCHANGED call
      PROVE  FALSE
  BY <1>4
<1> QED
  BY <1>1, <1>2, <1>3, <1>4
  DEF Next, SendReport, OnNotify, Unheard, LinkUp, ForeignChange, vars, callVars

(* Applying a command moves nothing at the unit but the switch it names and      *)
(* what changed there with no report of it before the call began, as long as     *)
(* calls do not overlap: over link losses, with the cache kept from before them, *)
(* and after calls given up (ble.py, set_device_info).                           *)
THEOREM OnlyUnknownsEverMoveToo == Spec /\ []Alone => OnlyUnknownsMoveToo
<1> DEFINE Inv == IInv /\ AllTrue
           Step == \A c \in Callers : MovesOnlyUnknowns(c)
<1>1. Inv /\ [Next]_vars => Step
  BY AppliedByTheUnit, WriteMoves DEF MovesOnlyUnknowns
<1>2. Inv /\ [Next]_vars => [Step]_vars
  BY <1>1
<1>3. Spec /\ []Alone => [][Step]_vars
  <2> HIDE DEF Step
  <2> QED
    BY <1>2, AllAlwaysTrue, PTL DEF Spec
<1> QED
  BY <1>3 DEF OnlyUnknownsMoveToo

-----------------------------------------------------------------------------
(* The safety half of SettlesOnTheUnit, for any number of callers that have    *)
(* all returned.                                                               *)

(* A report the unit sends now says what the unit is set to. *)
LEMMA NewReportSaysSo ==
    ASSUME IInv, NEW n \in ReportLengths
    PROVE  SaysSo(Report(ReportOf(unit, n), {}))
BY NewReportTrue DEF SaysSo, Report, Agrees

(* With every caller idle there is no answer on its way, and only the unit's    *)
(* reports, their handling and the passing of time are steps that keep quiet.   *)
LEMMA QuietSteps ==
    ASSUME IInv, [Next]_vars, Quiet, Quiet', UNCHANGED foreign, foreign \in Nat
    PROVE  \/ OnNotify \/ Unheard
           \/ \E n \in ReportLengths : SendReport(n)
           \/ UNCHANGED vars
<1>1. ASSUME NEW c \in Callers, CallerStep(c)
      PROVE  FALSE
  BY <1>1 DEF CallerStep, Call, Apply, Resume, Fail, Quiet, IInv
<1>2. ASSUME Answered
      PROVE  FALSE
  BY <1>2, NextMessage DEF Answered, Quiet
<1>3. ~LinkDown /\ ~LinkUp
  BY DEF LinkDown, LinkUp, Quiet
<1>4. ASSUME NEW f, NEW v
      PROVE  ~ForeignChange(f, v)
  BY DEF ForeignChange
<1> QED
  BY <1>1, <1>2, <1>3, <1>4 DEF Next

(* While it is quiet, reports from before the last change only get fewer: each  *)
(* one handled leaves one less ahead of those that say what is so.              *)
LEMMA OldReportsRunOut ==
    ASSUME IInv, [Next]_vars, Quiet, Quiet', UNCHANGED foreign, foreign \in Nat,
           NEW k \in Nat \ {0}, SaySoFrom(k)
    PROVE  /\ SaySoFrom(k)'
           /\ OnNotify /\ k > 1 => SaySoFrom(k - 1)'
<1>1. CASE OnNotify \/ Unheard
  <2>1. /\ Len(channel') = Len(channel) - 1 /\ Len(channel) \in Nat /\ unit' = unit
        /\ \A i \in 1 .. Len(channel') : channel'[i] = channel[i + 1]
    BY <1>1, TakenOff DEF OnNotify, Unheard
  <2>2. ASSUME NEW j \in Nat \ {0}, j + 1 >= k
        PROVE  SaySoFrom(j)'
    <3>1. ASSUME NEW i \in j .. Len(channel'), channel'[i].kind = "report"
          PROVE  SaysSo(channel'[i])
      <4>1. i + 1 \in k .. Len(channel) /\ channel'[i] = channel[i + 1]
        BY <2>1, <2>2
      <4> QED
        BY <3>1, <4>1 DEF SaySoFrom
    <3> QED
      BY <2>1, <3>1 DEF SaySoFrom, SaysSo
  <2> QED
    BY <2>2
<1>2. ASSUME NEW n \in ReportLengths, SendReport(n)
      PROVE  SaySoFrom(k)' /\ ~OnNotify
  <2>1. /\ Len(channel') = Len(channel) + 1 /\ Len(channel) \in Nat /\ unit' = unit
        /\ \A i \in 1 .. Len(channel) : channel'[i] = channel[i]
        /\ channel'[Len(channel) + 1] = Report(ReportOf(unit, n), {})
    BY <1>2 DEF SendReport, IInv
  <2>2. ~OnNotify
    BY <2>1 DEF OnNotify, IInv
  <2>3. SaysSo(Report(ReportOf(unit, n), {}))
    BY NewReportSaysSo
  <2>4. ASSUME NEW i \in k .. Len(channel'), channel'[i].kind = "report"
        PROVE  SaysSo(channel'[i])
    BY <2>1, <2>3, <2>4 DEF SaySoFrom
  <2> QED
    BY <2>1, <2>2, <2>4 DEF SaySoFrom, SaysSo
<1>3. CASE UNCHANGED vars
  <2>1. ~OnNotify /\ UNCHANGED <<channel, unit>>
    BY <1>3 DEF OnNotify, IInv, vars
  <2> QED
    BY <2>1 DEF SaySoFrom, SaysSo
<1> QED
  BY <1>1, <1>2, <1>3, QuietSteps

(* Once the entities show what the unit is set to, they keep to it until a      *)
(* command, a break of the link or a hand at the unit: no report that is still  *)
(* on its way undoes it (ble.py, _on_notify).                                   *)
THEOREM AlwaysStaysSettled == Spec => StaysSettled
<1> DEFINE Inv == IInv /\ Bounded
           Step == Settled /\ Quiet' /\ UNCHANGED foreign => Settled'
<1>1. Spec => []Inv
  <2>1. Inv /\ [Next]_vars => Inv'
    BY NextIInv, NextBounded
  <2>2. Init => Inv
    BY InitIInv, InitBounded
  <2> HIDE DEF Inv
  <2> QED
    BY <2>1, <2>2, PTL DEF Spec
<1>2. Inv /\ [Next]_vars => Step
  <2> SUFFICES ASSUME Inv, [Next]_vars, Settled, Quiet', UNCHANGED foreign
               PROVE  ShownIsTrue' /\ SaySoFrom(1)'
    BY DEF Settled
  <2>1. Quiet /\ ShownIsTrue /\ SaySoFrom(1) /\ foreign \in Nat
    BY DEF Settled, Bounded
  <2>2. SaySoFrom(1)'
    BY <2>1, OldReportsRunOut
  <2>3. ASSUME OnNotify
        PROVE  ShownIsTrue'
    <3>1. SaysSo(Head(channel)) /\ unit' = unit
      BY <2>1, <2>3 DEF OnNotify, SaySoFrom, IInv
    <3> QED
      BY <2>1, <2>3, <3>1 DEF OnNotify, SaysSo, ShownIsTrue
  <2>4. ASSUME UNCHANGED <<shown, unit>>
        PROVE  ShownIsTrue'
    BY <2>1, <2>4 DEF ShownIsTrue
  <2>5. ShownIsTrue'
    BY <2>1, <2>3, <2>4, QuietSteps DEF SendReport, Unheard, vars
  <2> QED
    BY <2>2, <2>5
<1>3. Inv /\ [Next]_vars => [Step]_vars
  BY <1>2
<1>4. Spec => [][Step]_vars
  <2> HIDE DEF Inv, Step
  <2> QED
    BY <1>1, <1>3, PTL DEF Spec
<1> QED
  BY <1>4 DEF StaysSettled
=============================================================================
