------------------------ MODULE CloudControlProofs ------------------------
(***************************************************************************)
(* Proofs about CloudControl, for any units, switches, number of calls and *)
(* bounds.  That no switch shows what was never so needs the frames under  *)
(* way to be true, and the requests the server has carried out to be so:   *)
(* both are in the invariant.  That a command goes to the unit shown needs *)
(* the socket to be that of the unit commanded, and what was read on it    *)
(* last to have come from there.                                           *)
(***************************************************************************)
EXTENDS CloudControl, TLAPS, SequenceTheorems

\* What a setting says of each switch, some unit has been.
WasSo(s) == \A k \in Keys : \E u \in Units : s[k] \in held[u][k]

\* An open socket is that of the unit commanded, and frames come over it only.
Watching ==
    /\ loop = "up" => unit = watched
    /\ loop = "up" /\ heard => source = watched
    /\ frames # <<>> => loop = "up"

IInv ==
    /\ TypeOK
    /\ CommandsGoWhereDataIsFrom
    /\ Watching
    /\ ShownWasSo
    /\ \A i \in 1 .. Len(frames) : WasSo(frames[i])
    /\ \A u \in Units, k \in Keys : units[u][k] \in held[u][k]
    /\ \A c \in Calls : calls[c] # Idle /\ calls[c].stage = "taken" =>
        calls[c].value \in held[calls[c].unit][calls[c].key]

\* Nothing has been sent or received when the entry is set up.
LEMMA Initially == Init => IInv
<1>1. Init => heard \in BOOLEAN
    BY Zenon DEF Init
<1> QED BY <1>1, DataAssumption, BoundAssumption
       DEF Init, IInv, TypeOK, CommandsGoWhereDataIsFrom, Watching, ShownWasSo, WasSo, Settings, Idle

\* The commands' steps.
LEMMA CommandsKeep ==
    ASSUME IInv, NEW c \in Calls,
           \/ \E k \in Keys, v \in {0, 1} : Command(c, k, v)
           \/ Refused(c) \/ Answered(c) \/ Fails(c)
    PROVE  IInv'
<1> USE DataAssumption, BoundAssumption
    DEF IInv, TypeOK, CommandsGoWhereDataIsFrom, Watching, ShownWasSo, WasSo, Requests, Idle, Settings,
        history, accountVars, clientVars
<1>1. ASSUME NEW k \in Keys, NEW v \in {0, 1}, Command(c, k, v) PROVE IInv'
    <2>1. calls'[c] \in Requests /\ calls'[c].stage = "sent"
        BY <1>1 DEF Command
    <2>2. \A d \in Calls : d # c => calls'[d] = calls[d]
        BY <1>1 DEF Command
    <2>3. TypeOK'
        BY <1>1, <2>1, <2>2 DEF Command, Spend, Events
    <2> QED BY <1>1, <2>1, <2>2, <2>3 DEF Command
<1>2. CASE Refused(c)
    <2>1. calls[c] \in Requests
        BY <1>2 DEF Refused, Now
    <2>2. calls'[c] \in Requests /\ calls'[c].stage = "refused"
          /\ \A d \in Calls : d # c => calls'[d] = calls[d]
        BY <1>2, <2>1 DEF Refused, Now
    <2>3. TypeOK'
        BY <1>2, <2>1, <2>2 DEF Refused
    <2>4. \A d \in Calls : calls'[d] # Idle /\ calls'[d].stage = "taken" =>
            calls'[d].value \in held'[calls'[d].unit][calls'[d].key]
        BY <1>2, <2>2 DEF Refused
    <2> QED BY <1>2, <2>3, <2>4 DEF Refused
<1>3. CASE Answered(c)
    <2>1. calls[c] \in Requests /\ calls[c].key \in Keys /\ calls[c].value \in {0, 1}
        BY <1>3 DEF Answered
    <2>2. data \in Settings /\ data' \in Settings
        BY <1>3, <2>1 DEF Answered
    <2>3. \A k \in Keys : data'[k] = IF k = calls[c].key THEN calls[c].value ELSE data[k]
        BY <1>3, <2>2 DEF Answered
    <2>4. calls[c].value \in held[calls[c].unit][calls[c].key] /\ calls[c].unit \in Units
        <3>1. calls[c] # Idle /\ calls[c].stage = "taken"
            BY <1>3, <2>1 DEF Answered
        <3> QED BY <2>1, <3>1
    <2>5. data # NoData /\ data' # NoData
        BY <2>2
    <2>6. ASSUME NEW k \in Keys PROVE \E u \in Units : data'[k] \in held'[u][k]
        <3>1. held' = held
            BY <1>3 DEF Answered
        <3>2. CASE k = calls[c].key BY <2>3, <2>4, <3>1, <3>2
        <3>3. CASE k # calls[c].key BY <2>3, <2>5, <3>1, <3>3
        <3> QED BY <3>2, <3>3
    <2> QED BY <1>3, <2>2, <2>6 DEF Answered
<1>4. CASE Fails(c)
    <2>1. calls' \in [Calls -> Requests \cup {Idle}]
          /\ \A d \in Calls : calls'[d] # Idle => calls'[d] = calls[d]
        BY <1>4 DEF Fails
    <2>2. TypeOK'
        BY <1>4, <2>1 DEF Fails
    <2>3. \A d \in Calls : calls'[d] # Idle /\ calls'[d].stage = "taken" =>
            calls'[d].value \in held'[calls'[d].unit][calls'[d].key]
        BY <1>4, <2>1 DEF Fails
    <2>4. (CommandsGoWhereDataIsFrom /\ Watching /\ ShownWasSo)'
        BY <1>4 DEF Fails
    <2>5. (\A i \in 1 .. Len(frames) : WasSo(frames[i]))'
          /\ (\A u \in Units, k \in Keys : units[u][k] \in held[u][k])'
        BY <1>4 DEF Fails
    <2> HIDE DEF TypeOK, CommandsGoWhereDataIsFrom, Watching, ShownWasSo, WasSo
    <2> QED BY <2>2, <2>3, <2>4, <2>5
<1> HIDE DEF IInv
<1> QED BY <1>1, <1>2, <1>3, <1>4

\* A switch of a unit comes to be something: what was so stays so in `held'.
LEMMA SwitchingKeeps ==
    ASSUME TypeOK, NEW u \in Units, NEW k \in Keys, NEW v \in {0, 1}, Switched(u, k, v),
           \A w \in Units, j \in Keys : units[w][j] \in held[w][j]
    PROVE  /\ units' \in [Units -> Settings] /\ held' \in [Units -> [Keys -> SUBSET {0, 1}]]
           /\ \A w \in Units, j \in Keys :
                held[w][j] \subseteq held'[w][j] /\ units'[w][j] \in held'[w][j]
           /\ v \in held'[u][k]
           /\ UNCHANGED <<source, heard>>
BY DEF TypeOK, Settings, Switched

LEMMA TakenKeeps ==
    ASSUME IInv, NEW c \in Calls, Taken(c)
    PROVE  IInv'
<1> USE DEF history, accountVars, clientVars
<1>1. calls[c] \in Requests /\ calls[c].unit \in Units /\ calls[c].key \in Keys
      /\ calls[c].value \in {0, 1}
    BY DEF IInv, TypeOK, Now, Taken, Requests, Idle
<1>2. /\ units' \in [Units -> Settings] /\ held' \in [Units -> [Keys -> SUBSET {0, 1}]]
      /\ \A w \in Units, j \in Keys :
            held[w][j] \subseteq held'[w][j] /\ units'[w][j] \in held'[w][j]
      /\ calls[c].value \in held'[calls[c].unit][calls[c].key]
      /\ UNCHANGED <<source, heard>>
    BY <1>1, SwitchingKeeps DEF IInv, Taken
<1>3. TypeOK'
    <2>1. calls'[c] \in Requests /\ \A d \in Calls : d # c => calls'[d] = calls[d]
        BY <1>1 DEF IInv, TypeOK, Now, Taken, Requests
    <2>2. calls' \in [Calls -> Requests \cup {Idle}]
        BY <2>1 DEF IInv, TypeOK, Taken
    <2>3. calls[c] # Idle
        BY DEF Taken, Idle
    <2>4. \A d \in Calls : calls'[d] # Idle => data' # NoData
        BY <2>1, <2>3 DEF IInv, TypeOK, Taken
    <2> QED BY <1>2, <2>2, <2>4 DEF IInv, TypeOK, Taken
<1>4. (CommandsGoWhereDataIsFrom /\ Watching /\ ShownWasSo)'
    BY <1>2 DEF IInv, CommandsGoWhereDataIsFrom, Watching, ShownWasSo, Taken
<1>5. \A i \in 1 .. Len(frames') : WasSo(frames[i])'
    BY <1>2 DEF IInv, WasSo, Taken
<1>6. \A d \in Calls : calls'[d] # Idle /\ calls'[d].stage = "taken" =>
        calls'[d].value \in held'[calls'[d].unit][calls'[d].key]
    BY <1>1, <1>2 DEF IInv, TypeOK, Now, Taken, Requests, Idle
<1> QED BY <1>2, <1>3, <1>4, <1>5, <1>6 DEF IInv, WasSo, Taken

LEMMA UnitChangesKeeps ==
    ASSUME IInv, NEW u \in Units, NEW k \in Keys, UnitChanges(u, k)
    PROVE  IInv'
<1> USE DEF history, accountVars, clientVars
<1>1. 1 - units[u][k] \in {0, 1}
    <2>1. units[u] \in Settings BY DEF IInv, TypeOK
    <2>2. units[u][k] \in {0, 1} BY <2>1 DEF Settings
    <2>3. units[u][k] = 0 \/ units[u][k] = 1 BY <2>2
    <2> QED BY <2>3
<1>2. /\ units' \in [Units -> Settings] /\ held' \in [Units -> [Keys -> SUBSET {0, 1}]]
      /\ \A w \in Units, j \in Keys :
            held[w][j] \subseteq held'[w][j] /\ units'[w][j] \in held'[w][j]
      /\ UNCHANGED <<source, heard>>
    BY <1>1, SwitchingKeeps DEF IInv, UnitChanges
<1>3. TypeOK'
    BY <1>2 DEF IInv, TypeOK, UnitChanges, Spend, Events
<1>4. (CommandsGoWhereDataIsFrom /\ Watching /\ ShownWasSo)'
    BY <1>2 DEF IInv, CommandsGoWhereDataIsFrom, Watching, ShownWasSo, UnitChanges
<1>5. \A i \in 1 .. Len(frames') : WasSo(frames[i])'
    BY <1>2 DEF IInv, WasSo, UnitChanges
<1>6. \A d \in Calls : calls'[d] # Idle /\ calls'[d].stage = "taken" =>
        calls'[d].value \in held'[calls'[d].unit][calls'[d].key]
    BY <1>2 DEF IInv, TypeOK, UnitChanges, Requests, Idle
<1> QED BY <1>2, <1>3, <1>4, <1>5, <1>6 DEF IInv, WasSo, UnitChanges

\* The socket's steps.
LEMMA SocketKeeps ==
    ASSUME IInv, SocketOpens \/ SocketBreaks \/ FrameSent \/ FrameRead
    PROVE  IInv'
<1> USE DEF IInv, TypeOK, CommandsGoWhereDataIsFrom, Watching, ShownWasSo, WasSo, history, accountVars, clientVars
<1>1. CASE SocketOpens
    BY <1>1 DEF SocketOpens
<1>2. CASE SocketBreaks
    BY <1>2 DEF SocketBreaks, Spend, Events
<1>3. CASE FrameSent
    <2>1. units[watched] \in Settings /\ WasSo(units[watched])
        BY <1>3 DEF FrameSent
    <2>2. frames' = Append(frames, units[watched]) /\ frames' \in Seq(Settings)
          /\ Len(frames') = Len(frames) + 1
        BY <1>3, <2>1 DEF FrameSent
    <2>3. \A i \in 1 .. Len(frames') :
            frames'[i] = IF i =< Len(frames) THEN frames[i] ELSE units[watched]
        BY <2>1, <2>2
    <2>4. \A i \in 1 .. Len(frames') : WasSo(frames'[i])
        BY <2>1, <2>2, <2>3
    <2> QED BY <1>3, <2>2, <2>4 DEF FrameSent
<1>4. CASE FrameRead
    <2>1. Head(frames) \in Settings /\ Head(frames) = frames[1] /\ 1 \in 1 .. Len(frames)
        BY <1>4 DEF FrameRead
    <2>2. Tail(frames) \in Seq(Settings)
          /\ \A i \in 1 .. Len(Tail(frames)) :
                i + 1 \in 1 .. Len(frames) /\ Tail(frames)[i] = frames[i + 1]
        BY <1>4 DEF FrameRead
    <2>3. ShownWasSo'
        BY <1>4, <2>1 DEF FrameRead
    <2>4. \A i \in 1 .. Len(frames') : WasSo(frames'[i])
        BY <1>4, <2>2 DEF FrameRead
    <2>5. TypeOK'
        <3>1. data' \in Settings BY <1>4, <2>1 DEF FrameRead
        <3>2. frames' \in Seq(Settings) BY <1>4, <2>2 DEF FrameRead
        <3>3. \A c \in Calls : calls'[c] # Idle => data' # NoData
            BY <1>4, <3>1, DataAssumption DEF FrameRead
        <3> QED BY <1>4, <3>1, <3>2, <3>3 DEF FrameRead
    <2> QED BY <1>4, <2>3, <2>4, <2>5 DEF FrameRead
<1> QED BY <1>1, <1>2, <1>3, <1>4

\* The re-login's steps, and the account's.
LEMMA AccountKeeps ==
    ASSUME IInv,
           LoggedIn \/ Listed \/ ListFails \/ TokenExpires \/ \E u \in Units : ListChanges(u)
    PROVE  IInv'
<1> USE DEF IInv, TypeOK, CommandsGoWhereDataIsFrom, Watching, ShownWasSo, WasSo, history, accountVars, clientVars,
            Spend, Events
<1>1. CASE LoggedIn BY <1>1 DEF LoggedIn
<1>2. CASE Listed BY <1>2 DEF Listed
<1>3. CASE ListFails BY <1>3 DEF ListFails
<1>4. CASE TokenExpires
    <2>1. left' \in [Events -> Nat]
        BY <1>4 DEF TokenExpires
    <2>2. tokenOk' = FALSE
        BY <1>4, Zenon DEF TokenExpires
    <2> QED BY <1>4, <2>1, <2>2 DEF TokenExpires
<1>5. ASSUME NEW u \in Units, ListChanges(u) PROVE IInv'
    BY <1>5 DEF ListChanges
<1> QED BY <1>1, <1>2, <1>3, <1>4, <1>5

\* Every step keeps the invariant.
LEMMA Inductive == IInv /\ [Next]_vars => IInv'
<1> SUFFICES ASSUME IInv, [Next]_vars PROVE IInv'
    OBVIOUS
<1>1. CASE UNCHANGED vars
    <2> USE DEF vars, accountVars, history, clientVars
    <2>1. TypeOK'
        BY <1>1 DEF IInv, TypeOK
    <2>2. (CommandsGoWhereDataIsFrom /\ Watching /\ ShownWasSo)'
        BY <1>1 DEF IInv, CommandsGoWhereDataIsFrom, Watching, ShownWasSo
    <2> QED BY <1>1, <2>1, <2>2 DEF IInv, WasSo
<1>2. CASE Next
    BY <1>2, CommandsKeep, TakenKeeps, UnitChangesKeeps, SocketKeeps, AccountKeeps
       DEF Next, Loop
<1> QED BY <1>1, <1>2

LEMMA Invariance == Spec => []IInv
BY Initially, Inductive, PTL DEF Spec

\* The types; and the update of a switch that was available never meets a .data
\* without telemetry.
THEOREM TypeCorrect == Spec => []TypeOK
BY Invariance, PTL DEF IInv

\* From the first frame of a socket on, the commands go to the unit whose telemetry
\* .data is, through every re-login, change of the device list and late answer.
THEOREM CommandsAlwaysGoThere == Spec => []CommandsGoWhereDataIsFrom
BY Invariance, PTL DEF IInv

\* No refused or lost command is ever shown as done.
THEOREM ShownAlwaysWasSo == Spec => []ShownWasSo
BY Invariance, PTL DEF IInv

-----------------------------------------------------------------------------
\* The safety half of SettlesOnTheUnit: what is quiet but for frames.
LEMMA QuietSteps ==
    ASSUME TypeOK, [Next]_vars, Quiet, Quiet', units'[watched] = units[watched]
    PROVE  /\ watched' = watched
           /\ FrameSent \/ FrameRead \/ UNCHANGED <<data, frames>>
<1> USE DEF Quiet, history, accountVars, clientVars
<1>1. ~SocketOpens /\ ~LoggedIn /\ ~Listed /\ ~ListFails
    BY DEF SocketOpens, LoggedIn, Listed, ListFails
<1>2. ~SocketBreaks
    BY DEF SocketBreaks
<1>3. ASSUME NEW c \in Calls
      PROVE  ~Taken(c) /\ ~Refused(c) /\ ~Answered(c) /\ ~Fails(c)
    BY DEF Taken, Refused, Answered, Fails, Idle
<1>4. CASE TokenExpires \/ \E u \in Units : ListChanges(u) \/ \E k \in Keys : UnitChanges(u, k)
    BY <1>4 DEF TokenExpires, ListChanges, UnitChanges
<1>5. CASE \E c \in Calls, k \in Keys, v \in {0, 1} : Command(c, k, v)
    BY <1>5 DEF Command
<1>6. CASE FrameSent \/ FrameRead
    BY <1>6 DEF FrameSent, FrameRead
<1>7. CASE UNCHANGED vars
    BY <1>7 DEF vars
<1> QED BY <1>1, <1>2, <1>3, <1>4, <1>5, <1>6, <1>7 DEF Next, Loop

\* While it is quiet, frames from before the last change get no more, and one read
\* leaves one less ahead of those that are right.
LEMMA OldFramesRunOut ==
    ASSUME TypeOK, [Next]_vars, Quiet, Quiet', units'[watched] = units[watched],
           NEW n \in Nat \ {0}, RightFrom(n)
    PROVE  /\ RightFrom(n)'
           /\ FrameRead /\ n > 1 => RightFrom(n - 1)'
<1>1. watched' = watched /\ units'[watched'] = units[watched]
    BY QuietSteps
<1>2. CASE FrameRead
    <2>1. /\ Len(frames) \in Nat /\ Len(frames') = Len(frames) - 1
          /\ \A i \in 1 .. Len(frames') : frames'[i] = frames[i + 1]
        BY <1>2 DEF FrameRead, TypeOK
    <2>2. ASSUME NEW j \in Nat \ {0}, j + 1 >= n
          PROVE  RightFrom(j)'
        <3>1. ASSUME NEW i \in j .. Len(frames')
              PROVE  frames'[i] = units[watched]
            <4>1. i + 1 \in n .. Len(frames) /\ frames'[i] = frames[i + 1]
                BY <2>1, <2>2
            <4> QED BY <4>1 DEF RightFrom
        <3> QED BY <1>1, <3>1 DEF RightFrom
    <2> QED BY <2>2
<1>3. CASE FrameSent
    <2>1. /\ Len(frames) \in Nat /\ Len(frames') = Len(frames) + 1
          /\ \A i \in 1 .. Len(frames) : frames'[i] = frames[i]
          /\ frames'[Len(frames) + 1] = units[watched]
        BY <1>3 DEF FrameSent, TypeOK
    <2>2. ~FrameRead
        BY <2>1 DEF FrameRead, TypeOK
    <2>3. RightFrom(n)'
        BY <1>1, <2>1 DEF RightFrom
    <2> QED BY <2>2, <2>3
<1>4. CASE UNCHANGED <<data, frames>>
    <2>1. ~FrameRead
        <3>1. ASSUME FrameRead PROVE Len(frames') = Len(frames) - 1 /\ Len(frames) \in Nat
            BY <3>1 DEF FrameRead, TypeOK
        <3> QED BY <1>4, <3>1
    <2> QED BY <1>1, <1>4, <2>1 DEF RightFrom
<1> QED BY <1>2, <1>3, <1>4, QuietSteps

\* Once the entities show the unit's switches they go on showing them, whatever
\* frames are under way, through token expiries and changes of the device list
\* (api.py, _connect_once and refresh_device).
THEOREM AlwaysStaysSettled == Spec => StaysSettled
<1> DEFINE Step == Settled /\ Quiet' /\ units'[watched] = units[watched] => Settled'
<1>1. TypeOK /\ [Next]_vars => Step
    <2> SUFFICES ASSUME TypeOK, [Next]_vars, Settled, Quiet', units'[watched] = units[watched]
                 PROVE  data' = units'[watched'] /\ RightFrom(1)'
        BY DEF Settled
    <2>1. Quiet /\ data = units[watched] /\ RightFrom(1)
        BY DEF Settled
    <2>2. watched' = watched /\ RightFrom(1)'
        BY <2>1, QuietSteps, OldFramesRunOut
    <2>3. ASSUME FrameRead PROVE data' = units[watched]
        <3>1. data' = frames[1] /\ 1 \in 1 .. Len(frames)
            BY <2>3 DEF FrameRead, TypeOK
        <3> QED BY <2>1, <3>1 DEF RightFrom
    <2>4. ASSUME FrameSent PROVE data' = data
        BY <2>4 DEF FrameSent
    <2> QED BY <2>1, <2>2, <2>3, <2>4, QuietSteps
<1>2. TypeOK /\ [Next]_vars => [Step]_vars
    BY <1>1
<1>3. Spec => [][Step]_vars
    <2> HIDE DEF Step
    <2> QED BY <1>2, TypeCorrect, PTL DEF Spec
<1> QED BY <1>3 DEF StaysSettled
=============================================================================
