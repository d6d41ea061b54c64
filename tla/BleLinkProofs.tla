--------------------------- MODULE BleLinkProofs ---------------------------
(***************************************************************************)
(* What holds of BleLink for every Data and every pair of backoff bounds.  *)
(*                                                                         *)
(* None of the safety invariants is inductive alone.  Two facts tie them   *)
(* together: the client is kept exactly while the loop task is inside the  *)
(* link (ClientWhileInLink), and once stop() has been called the loop task *)
(* has a cancellation on its way, or is closing, or has ended              *)
(* (CancelReachesTask).                                                    *)
(***************************************************************************)
EXTENDS BleLink, TLAPS

ClientWhileInLink == client <=> pc \in InLink

CancelReachesTask ==
    /\ stopped => cancel \/ pc \in {"closing", "done"}
    /\ cancel \/ cause = "cancelled" => stopped
    /\ stopPc = "done" => pc = "done"

LinkInv == ClientWhileInLink /\ LinkIsOwned /\ BreakIsRemembered
ShownInv == ShownUpIsOwned /\ ChangeIsOnItsWay
LoopInv == CancelReachesTask /\ OnlyStopEndsLoop /\ LostRestartsBackoff

IInv == TypeOK /\ LinkInv /\ ShownInv /\ LoopInv

-----------------------------------------------------------------------------
(* Doubling the backoff keeps it between its bounds (ble.py, _run). *)
LEMMA DoubledInBounds ==
    ASSUME NEW b \in BackoffStart .. BackoffMax
    PROVE  Doubled(b) \in BackoffStart .. BackoffMax
BY BackoffAssumption DEF Doubled

(* The starting state is well typed. *)
LEMMA InitTypeOK == Init => TypeOK
<1>1. Init => StagesOK
  BY BackoffAssumption DEF Init, StagesOK
<1>2. Init => FlagsOK
  BY DEF Init, FlagsOK
<1>3. Init => ReadingsOK
  BY DEF Init, ReadingsOK, Readings
<1> QED
  BY <1>1, <1>2, <1>3 DEF TypeOK

(* Every step keeps the stages among their names and the wait in its bounds. *)
LEMMA NextStagesOK == StagesOK /\ [Next]_vars => StagesOK'
<1> SUFFICES ASSUME StagesOK, [Next]_vars
             PROVE  StagesOK'
  OBVIOUS
<1> USE DEF StagesOK, InLink, taskVars, linkVars, tellVars
<1>1. CASE AttemptVisible \/ AttemptInvisible
  BY <1>1, DoubledInBounds DEF AttemptVisible, AttemptInvisible, StartsAttempt
<1>2. CASE EstablishFails \/ DisconnectReturns \/ CancelledOutside
  BY <1>2, BackoffAssumption
  DEF EstablishFails, DisconnectReturns, CancelledOutside, AfterAttempt
<1>3. CASE Connected \/ Subscribed \/ Asked
  BY <1>3 DEF Connected, Subscribed, Asked
<1>4. CASE LinkError \/ WaitReturns \/ CancelledInLink
  BY <1>4 DEF LinkError, WaitReturns, CancelledInLink, Close
<1>5. CASE Environment
  BY <1>5
  DEF Environment, UnitAccepts, AttemptDrops, LinkDrops, OrphanDrops, Drops, EventSet,
      OnNotify
<1>6. CASE TimerFires
  BY <1>6 DEF TimerFires
<1>7. CASE HomeAssistant
  BY <1>7
  DEF HomeAssistant, Attach, Detach, CommandSent, CommandFails, StopCalled, StopReturns,
      CommandDone
<1>8. CASE UNCHANGED vars
  BY <1>8 DEF vars
<1> QED
  BY <1>1, <1>2, <1>3, <1>4, <1>5, <1>6, <1>7, <1>8 DEF Next, Task

(* Every step keeps the flags Boolean. *)
LEMMA NextFlagsOK == FlagsOK /\ [Next]_vars => FlagsOK'
<1> SUFFICES ASSUME FlagsOK, [Next]_vars
             PROVE  FlagsOK'
  OBVIOUS
<1> USE DEF FlagsOK, taskVars, linkVars, cacheVars, tellVars
<1>1. CASE AttemptVisible \/ AttemptInvisible \/ EstablishFails \/ Connected
  BY <1>1 DEF AttemptVisible, AttemptInvisible, StartsAttempt, EstablishFails, Connected
<1>2. CASE Subscribed \/ Asked \/ DisconnectReturns \/ CancelledOutside
  BY <1>2 DEF Subscribed, NotifyNow, Asked, DisconnectReturns, CancelledOutside
<1>3. CASE LinkError \/ WaitReturns \/ CancelledInLink
  BY <1>3 DEF LinkError, WaitReturns, CancelledInLink, Close, NotifyNow
<1>4. CASE Environment
  BY <1>4
  DEF Environment, UnitAccepts, AttemptDrops, LinkDrops, OrphanDrops, Drops, EventSet,
      OnNotify
<1>5. CASE TimerFires
  BY <1>5 DEF TimerFires, NotifyNow
<1>6. CASE HomeAssistant
  BY <1>6
  DEF HomeAssistant, Attach, Detach, CommandSent, CommandFails, StopCalled, StopReturns,
      CommandDone, NotifyNow
<1>7. CASE UNCHANGED vars
  BY <1>7 DEF vars
<1> QED
  BY <1>1, <1>2, <1>3, <1>4, <1>5, <1>6, <1>7 DEF Next, Task

(* What an entity writes is an availability and a reading. *)
LEMMA WrittenTyped ==
    ASSUME ReadingsOK, FlagsOK', data' \in Readings, NotifyListeners
    PROVE  ReadingsOK'
BY DEF ReadingsOK, FlagsOK, NotifyListeners, Written

(* Every step keeps .data and what the entities show among the readings. *)
LEMMA NextReadingsOK == TypeOK /\ [Next]_vars => ReadingsOK'
<1> SUFFICES ASSUME ReadingsOK, FlagsOK', [Next]_vars
             PROVE  ReadingsOK'
  BY NextFlagsOK DEF TypeOK
<1>1. CASE NotifyListeners /\ UNCHANGED data
  BY <1>1, WrittenTyped DEF ReadingsOK
<1>2. CASE Subscribed \/ TimerFires
  BY <1>2, <1>1 DEF Subscribed, TimerFires, NotifyNow, cacheVars
<1>3. CASE LinkError \/ WaitReturns \/ CancelledInLink
  BY <1>3, <1>1 DEF LinkError, WaitReturns, CancelledInLink, Close, NotifyNow, cacheVars
<1>4. ASSUME NEW v \in Data, CommandDone(v)
      PROVE  ReadingsOK'
  BY <1>4, WrittenTyped DEF CommandDone, NotifyNow, Readings
<1>5. CASE Attach
  BY <1>5 DEF Attach, Written, ReadingsOK, FlagsOK, cacheVars
<1>6. CASE StopReturns
  BY <1>6, <1>1 DEF StopReturns, NotifyNow, ReadingsOK, cacheVars
<1>7. ASSUME NEW v \in Data, OnNotify(v)
      PROVE  ReadingsOK'
  BY <1>7 DEF OnNotify, ReadingsOK, Readings
<1>8. CASE UNCHANGED <<data, seen>>
  BY <1>8 DEF ReadingsOK
<1>9. CASE Detach \/ CommandSent \/ CommandFails \/ StopCalled
  BY <1>9, <1>8 DEF Detach, CommandSent, CommandFails, StopCalled, cacheVars, tellVars
<1>10. CASE AttemptVisible \/ AttemptInvisible \/ EstablishFails \/ Connected \/ Asked
            \/ DisconnectReturns \/ CancelledOutside
  BY <1>10, <1>8
  DEF AttemptVisible, AttemptInvisible, StartsAttempt, EstablishFails, Connected, Asked,
      DisconnectReturns, CancelledOutside, cacheVars, tellVars
<1>11. CASE UnitAccepts \/ AttemptDrops \/ LinkDrops \/ OrphanDrops \/ EventSet
  BY <1>11, <1>8
  DEF UnitAccepts, AttemptDrops, LinkDrops, OrphanDrops, Drops, EventSet, cacheVars, tellVars
<1>12. CASE UNCHANGED vars
  BY <1>12, <1>8 DEF vars, cacheVars, tellVars
<1> QED
  BY <1>2, <1>3, <1>4, <1>5, <1>6, <1>7, <1>9, <1>10, <1>11, <1>12
  DEF Next, Task, Environment, HomeAssistant

(* TypeOK for every run of the device: in particular the wait of ble.py's _run *)
(* stays between its two bounds.                                               *)
THEOREM TypeCorrect == Spec => []TypeOK
<1>1. Init => TypeOK
  BY InitTypeOK
<1>2. TypeOK /\ [Next]_vars => TypeOK'
  BY NextStagesOK, NextFlagsOK, NextReadingsOK DEF TypeOK
<1> QED
  BY <1>1, <1>2, PTL DEF Spec

-----------------------------------------------------------------------------
(* The client, the link and the event keep step with the loop task. *)
LEMMA NextLinkInv == TypeOK /\ LinkInv /\ LoopInv /\ [Next]_vars => LinkInv'
<1> SUFFICES ASSUME StagesOK, FlagsOK, LinkInv, LoopInv, [Next]_vars
             PROVE  LinkInv'
  BY DEF TypeOK
<1> USE DEF LinkInv, ClientWhileInLink, LinkIsOwned, BreakIsRemembered, InLink
<1>1. CASE AttemptVisible \/ AttemptInvisible \/ EstablishFails \/ Connected
  BY <1>1
  DEF AttemptVisible, AttemptInvisible, StartsAttempt, EstablishFails, AfterAttempt,
      Connected, linkVars
<1>2. CASE Subscribed \/ Asked
  BY <1>2 DEF Subscribed, Asked, linkVars
<1>3. CASE LinkError \/ WaitReturns \/ CancelledInLink
  BY <1>3 DEF LinkError, WaitReturns, CancelledInLink, Close
<1>4. CASE DisconnectReturns \/ CancelledOutside
  BY <1>4 DEF DisconnectReturns, CancelledOutside, AfterAttempt
<1>5. CASE UnitAccepts \/ AttemptDrops \/ LinkDrops \/ OrphanDrops \/ EventSet
  BY <1>5
  DEF UnitAccepts, AttemptDrops, LinkDrops, OrphanDrops, Drops, EventSet, taskVars
<1>6. CASE StopReturns
  BY <1>6 DEF StopReturns, Available, taskVars
<1>7. CASE UNCHANGED <<pc, linkVars>>
  BY <1>7 DEF linkVars
<1>8. CASE TimerFires \/ Attach \/ Detach \/ CommandSent \/ CommandFails \/ StopCalled
  BY <1>8, <1>7
  DEF TimerFires, Attach, Detach, CommandSent, CommandFails, StopCalled, taskVars, linkVars
<1>9. ASSUME NEW v \in Data, CommandDone(v) \/ OnNotify(v)
      PROVE  LinkInv'
  BY <1>9, <1>7 DEF CommandDone, OnNotify, taskVars
<1>10. CASE UNCHANGED vars
  BY <1>10, <1>7 DEF vars, taskVars
<1> QED
  BY <1>1, <1>2, <1>3, <1>4, <1>5, <1>6, <1>8, <1>9, <1>10
  DEF Next, Task, Environment, HomeAssistant

(* The entities keep step with the client, and the timer with the data. *)
LEMMA NextShownInv == TypeOK /\ LinkInv /\ LoopInv /\ ShownInv /\ [Next]_vars => ShownInv'
<1> SUFFICES ASSUME FlagsOK, LinkInv, LinkInv', ShownInv, [Next]_vars
             PROVE  ShownInv'
  BY NextLinkInv DEF TypeOK
<1> USE DEF ShownInv, ShownUpIsOwned, ChangeIsOnItsWay
<1>1. ASSUME NotifyListeners, entities' = entities
      PROVE  ShownInv'
  <2>1. CASE entities = "attached"
    <3>1. seen'.up = (client' /\ link' = "up") /\ seen'.data = data'
      BY <1>1, <2>1 DEF NotifyListeners, Written
    <3>2. seen'.up => pc' \in InLink
      BY <3>1 DEF LinkInv, ClientWhileInLink
    <3> QED
      BY <3>1, <3>2
  <2>2. CASE entities # "attached"
    BY <1>1, <2>2
  <2> QED
    BY <2>1, <2>2
<1>2. CASE UNCHANGED <<pc, tellVars, data>>
  BY <1>2 DEF tellVars
<1>3. CASE Subscribed \/ TimerFires
  BY <1>3, <1>1 DEF Subscribed, TimerFires, NotifyNow
<1>4. CASE LinkError \/ WaitReturns \/ CancelledInLink
  BY <1>4, <1>1 DEF LinkError, WaitReturns, CancelledInLink, Close, NotifyNow
<1>5. ASSUME NEW v \in Data, CommandDone(v)
      PROVE  ShownInv'
  BY <1>5, <1>1 DEF CommandDone, NotifyNow
<1>6. CASE Attach
  BY <1>6, <1>1
  DEF Attach, Written, LinkInv, ClientWhileInLink, taskVars, linkVars, cacheVars
<1>7. CASE StopReturns
  <2>1. ~client
    BY <1>7 DEF StopReturns, LinkInv, ClientWhileInLink, InLink
  <2> QED
    BY <1>7, <1>2, <2>1 DEF StopReturns, taskVars, cacheVars, tellVars
<1>8. ASSUME NEW v \in Data, OnNotify(v)
      PROVE  ShownInv'
  BY <1>8 DEF OnNotify, taskVars, FlagsOK
<1>9. CASE Detach \/ CommandSent \/ CommandFails \/ StopCalled
  BY <1>9, <1>2
  DEF Detach, CommandSent, CommandFails, StopCalled, taskVars, cacheVars, tellVars
<1>10. CASE AttemptVisible \/ AttemptInvisible \/ EstablishFails \/ Connected \/ Asked
            \/ DisconnectReturns \/ CancelledOutside
  BY <1>10
  DEF AttemptVisible, AttemptInvisible, StartsAttempt, EstablishFails, AfterAttempt,
      Connected, Asked, DisconnectReturns, CancelledOutside, cacheVars, tellVars, InLink
<1>11. CASE UnitAccepts \/ AttemptDrops \/ LinkDrops \/ OrphanDrops \/ EventSet
  BY <1>11
  DEF UnitAccepts, AttemptDrops, LinkDrops, OrphanDrops, Drops, EventSet, taskVars,
      cacheVars, tellVars, InLink
<1>12. CASE UNCHANGED vars
  BY <1>12, <1>2 DEF vars, taskVars, cacheVars
<1> QED
  BY <1>3, <1>4, <1>5, <1>6, <1>7, <1>8, <1>9, <1>10, <1>11, <1>12
  DEF Next, Task, Environment, HomeAssistant

(* The cancellation reaches the loop task, and nothing else ends it. *)
LEMMA NextLoopInv == TypeOK /\ LoopInv /\ [Next]_vars => LoopInv'
<1> SUFFICES ASSUME StagesOK, FlagsOK, LoopInv, [Next]_vars
             PROVE  LoopInv'
  BY DEF TypeOK
<1> USE DEF LoopInv, CancelReachesTask, OnlyStopEndsLoop, LostRestartsBackoff, stopped, InLink
<1>1. CASE AttemptVisible \/ AttemptInvisible \/ EstablishFails \/ Connected
  BY <1>1
  DEF AttemptVisible, AttemptInvisible, StartsAttempt, EstablishFails, AfterAttempt, MayGoOn,
      Connected
<1>2. CASE Subscribed \/ Asked
  BY <1>2 DEF Subscribed, Asked
<1>3. CASE LinkError \/ WaitReturns \/ CancelledInLink
  BY <1>3 DEF LinkError, WaitReturns, CancelledInLink, Close
<1>4. CASE DisconnectReturns \/ CancelledOutside
  BY <1>4 DEF DisconnectReturns, CancelledOutside, AfterAttempt, MayGoOn
<1>5. CASE UnitAccepts
  BY <1>5 DEF UnitAccepts
<1>6. CASE StopCalled \/ StopReturns
  BY <1>6 DEF StopCalled, StopReturns, taskVars
<1>7. CASE UNCHANGED <<taskVars, stopPc>>
  BY <1>7 DEF taskVars
<1>8. CASE TimerFires \/ Attach \/ Detach \/ CommandSent \/ CommandFails
           \/ AttemptDrops \/ LinkDrops \/ OrphanDrops \/ EventSet
  BY <1>8, <1>7
  DEF TimerFires, Attach, Detach, CommandSent, CommandFails, AttemptDrops, LinkDrops,
      OrphanDrops, Drops, EventSet
<1>9. ASSUME NEW v \in Data, CommandDone(v) \/ OnNotify(v)
      PROVE  LoopInv'
  BY <1>9, <1>7 DEF CommandDone, OnNotify
<1>10. CASE UNCHANGED vars
  BY <1>10, <1>7 DEF vars
<1> QED
  BY <1>1, <1>2, <1>3, <1>4, <1>5, <1>6, <1>8, <1>9, <1>10
  DEF Next, Task, Environment, HomeAssistant

-----------------------------------------------------------------------------
(* IInv is an inductive invariant. *)
LEMMA Inductive == Spec => []IInv
<1>1. Init => IInv
  <2>1. Init => LinkInv /\ LoopInv
    BY DEF Init, LinkInv, ClientWhileInLink, LinkIsOwned, BreakIsRemembered, LoopInv,
           CancelReachesTask, OnlyStopEndsLoop, LostRestartsBackoff, stopped, InLink
  <2>2. Init => ShownInv
    BY DEF Init, ShownInv, ShownUpIsOwned, ChangeIsOnItsWay
  <2> QED
    BY <2>1, <2>2, InitTypeOK DEF IInv
<1>2. IInv /\ [Next]_vars => IInv'
  BY NextStagesOK, NextFlagsOK, NextReadingsOK, NextLinkInv, NextShownInv, NextLoopInv
  DEF IInv, TypeOK
<1> QED
  BY <1>1, <1>2, PTL DEF Spec

(* No path out of _connect_once, cancellation and a failing start_notify      *)
(* included, walks away from a connected unit.                                *)
THEOREM LinkAlwaysOwned == Spec => []LinkIsOwned
<1>1. IInv => LinkIsOwned
  BY DEF IInv, LinkInv
<1> QED
  BY <1>1, Inductive, PTL

(* A disconnect that comes at any moment of a connect or of a connection is   *)
(* not lost: the event is, or is about to be, set.                            *)
THEOREM BreakAlwaysRemembered == Spec => []BreakIsRemembered
<1>1. IInv => BreakIsRemembered
  BY DEF IInv, LinkInv
<1> QED
  BY <1>1, Inductive, PTL

(* An entity shown available will be told when the client goes.               *)
THEOREM ShownUpAlwaysOwned == Spec => []ShownUpIsOwned
<1>1. IInv => ShownUpIsOwned
  BY DEF IInv, ShownInv
<1> QED
  BY <1>1, Inductive, PTL

(* Data the entities have not shown always has the debounce timer behind it.  *)
THEOREM ChangeAlwaysOnItsWay == Spec => []ChangeIsOnItsWay
<1>1. IInv => ChangeIsOnItsWay
  BY DEF IInv, ShownInv
<1> QED
  BY <1>1, Inductive, PTL

(* The reconnect loop survives whatever a connect or a connection raises.     *)
THEOREM OnlyStopAlwaysEndsLoop == Spec => []OnlyStopEndsLoop
<1>1. IInv => OnlyStopEndsLoop
  BY DEF IInv, LoopInv
<1> QED
  BY <1>1, Inductive, PTL

(* The loop ends without a client, and what stop() leaves behind is quiet.    *)
THEOREM StopAlwaysQuiet == Spec => [](LoopEndsBare /\ StoppedIsQuiet)
<1>1. IInv => LoopEndsBare
  BY DEF IInv, LinkInv, ClientWhileInLink, LoopEndsBare, InLink
<1>2. IInv => StoppedIsQuiet
  BY <1>1 DEF IInv, LinkInv, LinkIsOwned, LoopInv, CancelReachesTask, LoopEndsBare,
              StoppedIsQuiet, InLink
<1> QED
  BY <1>1, <1>2, Inductive, PTL

(* A connection that worked and was lost is retried after the shortest wait.  *)
THEOREM LostAlwaysRestartsBackoff == Spec => []LostRestartsBackoff
<1>1. IInv => LostRestartsBackoff
  BY DEF IInv, LoopInv
<1> QED
  BY <1>1, Inductive, PTL

(* After stop() the loop task waits only for bleak, or its cancellation is     *)
(* pending: no reconnect wait, no open link and no connect keeps stop() back.  *)
NothingHoldsStopUp == stopped => pc \in {"done", "closing"} \/ cancel

(* Once stop() was called the loop task only moves towards its end, in two     *)
(* steps at most, and nothing it waits for outlasts the cancellation: the      *)
(* safety half of StopReturnsEventually.                                       *)
THEOREM AlwaysWindsDown == Spec => WindsDown /\ []NothingHoldsStopUp
<1> DEFINE Onward == \/ pc' = "done" /\ pc # "done"
                     \/ pc' = "closing" /\ pc \in InLink
                     \/ pc' = "connected" /\ pc = "connecting"
<1>1. IInv /\ [Next]_vars => (stopped /\ pc' # pc => Onward)
  <2> SUFFICES ASSUME StagesOK, CancelReachesTask, [Next]_vars, stopped, pc' # pc
               PROVE  Onward
    BY DEF IInv, LoopInv, TypeOK
  <2>1. CASE AttemptVisible \/ AttemptInvisible
    BY <2>1 DEF AttemptVisible, AttemptInvisible, StartsAttempt, CancelReachesTask
  <2>2. CASE DisconnectReturns \/ CancelledOutside
    BY <2>2 DEF DisconnectReturns, CancelledOutside, AfterAttempt, MayGoOn
  <2>3. CASE LinkError \/ WaitReturns \/ CancelledInLink
    BY <2>3 DEF LinkError, WaitReturns, CancelledInLink, Close, InLink
  <2>4. CASE EstablishFails \/ Connected \/ Subscribed \/ Asked
    BY <2>4 DEF EstablishFails, Connected, Subscribed, Asked, CancelReachesTask
  <2>5. CASE UnitAccepts
    BY <2>5 DEF UnitAccepts
  <2>6. CASE AttemptDrops \/ LinkDrops \/ OrphanDrops \/ EventSet \/ TimerFires
    BY <2>6 DEF AttemptDrops, LinkDrops, OrphanDrops, Drops, EventSet, TimerFires, taskVars
  <2>7. CASE Attach \/ Detach \/ CommandSent \/ CommandFails \/ StopCalled \/ StopReturns
    BY <2>7
    DEF Attach, Detach, CommandSent, CommandFails, StopCalled, StopReturns, taskVars
  <2>8. ASSUME NEW v \in Data, CommandDone(v) \/ OnNotify(v)
        PROVE  Onward
    BY <2>8 DEF CommandDone, OnNotify, taskVars
  <2>9. CASE UNCHANGED vars
    BY <2>9 DEF vars, taskVars
  <2> QED
    BY <2>1, <2>2, <2>3, <2>4, <2>5, <2>6, <2>7, <2>8, <2>9
    DEF Next, Task, Environment, HomeAssistant
<1>2. IInv => NothingHoldsStopUp
  BY DEF IInv, LoopInv, CancelReachesTask, NothingHoldsStopUp
<1> QED
  BY <1>1, <1>2, Inductive, PTL DEF Spec, WindsDown

(* After stop() was called the loop begins no new connection, even when the   *)
(* cancellation was swallowed inside _disconnect.                             *)
THEOREM NeverAttemptsAfterStop == Spec => NoAttemptAfterStop
<1>1. Spec => WindsDown
  BY AlwaysWindsDown
<1>2. (stopped /\ pc' # pc =>
          \/ pc' = "done" /\ pc # "done"
          \/ pc' = "closing" /\ pc \in InLink
          \/ pc' = "connected" /\ pc = "connecting")
      => (stopped /\ pc' \in {"connecting", "connected"} => pc \in {"connecting", "connected"})
  OBVIOUS
<1> QED
  BY <1>1, <1>2, PTL DEF WindsDown, NoAttemptAfterStop

-----------------------------------------------------------------------------
(* A notification of the listeners is one of the abstract hub, whatever it    *)
(* comes with.                                                                *)
LEMMA NotifyIsTold ==
    ASSUME NotifyListeners
    PROVE  Surface!Told
BY DEF NotifyListeners, Written, Available, Surface!Told, Surface!Write

(* Every step of the device is one the abstract hub may take, or a stutter.   *)
LEMMA NextOfSurface == IInv /\ [Next]_vars => [Surface!Next]_(Surface!vars)
<1> SUFFICES ASSUME FlagsOK, FlagsOK', LinkInv, LinkInv', ShownInv, LoopInv, [Next]_vars
             PROVE  [Surface!Next]_(Surface!vars)
  BY NextFlagsOK, NextLinkInv DEF IInv, TypeOK
<1> USE DEF Available
<1>1. CASE UNCHANGED <<Available, data, entities, seen>>
  BY <1>1 DEF Surface!vars, Surface!hubVars
<1>2. ASSUME NotifyListeners, UNCHANGED <<Available, data, entities>>
      PROVE  Surface!Next
  BY <1>2, NotifyIsTold DEF Surface!Next, Surface!Tells, Surface!hubVars
<1>3. ASSUME ~Available', UNCHANGED <<data, entities>>, Surface!Told
      PROVE  Surface!Next
  <2>1. CASE Available
    BY <1>3, <2>1 DEF Surface!Next, Surface!Falls, FlagsOK
  <2>2. CASE ~Available
    BY <1>3, <2>2 DEF Surface!Next, Surface!Tells, Surface!hubVars
  <2> QED
    BY <2>1, <2>2
<1>4. CASE Connected
  <2>1. ~client
    BY <1>4 DEF Connected, LinkInv, ClientWhileInLink, InLink
  <2>2. entities = "attached" => ~seen.up
    BY <1>4 DEF Connected, ShownInv, ShownUpIsOwned, InLink
  <2>3. UNCHANGED <<data, entities, seen>>
    BY <1>4 DEF Connected, cacheVars, tellVars
  <2>4. CASE link = "up"
    BY <1>4, <2>1, <2>2, <2>3, <2>4
    DEF Connected, Surface!Next, Surface!Rises, Surface!Told
  <2>5. CASE link # "up"
    BY <1>4, <1>1, <2>1, <2>3, <2>5 DEF Connected
  <2> QED
    BY <2>4, <2>5
<1>5. CASE LinkError \/ WaitReturns \/ CancelledInLink
  <2>1. NotifyListeners /\ ~client' /\ UNCHANGED <<data, entities>>
    BY <1>5 DEF LinkError, WaitReturns, CancelledInLink, Close, NotifyNow, cacheVars
  <2> QED
    BY <1>3, <2>1, NotifyIsTold
<1>6. CASE LinkDrops
  <2>1. link' = "none" /\ UNCHANGED <<data, entities, seen>>
    BY <1>6 DEF LinkDrops, Drops, cacheVars, tellVars
  <2> QED
    BY <1>3, <2>1 DEF Surface!Told
<1>7. CASE Subscribed \/ TimerFires
  <2>1. NotifyListeners /\ UNCHANGED <<Available, data, entities>>
    BY <1>7 DEF Subscribed, TimerFires, NotifyNow, linkVars, cacheVars
  <2> QED
    BY <1>2, <2>1
<1>8. ASSUME NEW v \in Data, OnNotify(v)
      PROVE  Surface!Next
  BY <1>8
  DEF OnNotify, linkVars, Surface!Next, Surface!Refreshes, Surface!Told
<1>9. ASSUME NEW v \in Data, CommandDone(v)
      PROVE  Surface!Next
  BY <1>9, NotifyIsTold
  DEF CommandDone, NotifyNow, linkVars, Surface!Next, Surface!Refreshes
<1>10. CASE Attach
  BY <1>10
  DEF Attach, Written, linkVars, cacheVars, Surface!Next, Surface!Attach, Surface!Write,
      Surface!hubVars
<1>11. CASE Detach
  BY <1>11 DEF Detach, linkVars, cacheVars, Surface!Next, Surface!Detach, Surface!hubVars
<1>12. CASE StopReturns
  <2>1. ~client
    BY <1>12 DEF StopReturns, LinkInv, ClientWhileInLink, InLink
  <2> QED
    BY <1>12, <1>1, <2>1 DEF StopReturns, cacheVars
<1>13. CASE AttemptVisible \/ AttemptInvisible \/ EstablishFails \/ Asked
  BY <1>13, <1>1
  DEF AttemptVisible, AttemptInvisible, StartsAttempt, EstablishFails, Asked, linkVars,
      cacheVars, tellVars
<1>14. CASE UnitAccepts \/ DisconnectReturns \/ CancelledOutside
  <2>1. ~client /\ ~client' /\ UNCHANGED <<data, entities, seen>>
    BY <1>14
    DEF UnitAccepts, DisconnectReturns, CancelledOutside, LinkInv, ClientWhileInLink, InLink,
        cacheVars, tellVars
  <2> QED
    BY <1>1, <2>1
<1>15. CASE AttemptDrops \/ OrphanDrops \/ EventSet \/ CommandSent \/ CommandFails
            \/ StopCalled
  BY <1>15, <1>1
  DEF AttemptDrops, OrphanDrops, Drops, EventSet, CommandSent, CommandFails, StopCalled,
      linkVars, cacheVars, tellVars
<1>16. CASE UNCHANGED vars
  BY <1>16, <1>1 DEF vars, linkVars, cacheVars, tellVars
<1> QED
  BY <1>4, <1>5, <1>6, <1>7, <1>8, <1>9, <1>10, <1>11, <1>12, <1>13, <1>14, <1>15, <1>16
  DEF Next, Task, Environment, HomeAssistant

(* The Bluetooth device keeps the promises of HubSurface: in particular no    *)
(* reconnect begins while an entity still shows a reading from before as live.*)
THEOREM DeviceIsAHub == Spec => ImplementsHub
<1>1. Init => Surface!Init
  BY DEF Init, Available, Surface!Init
<1> QED
  BY <1>1, NextOfSurface, Inductive, PTL DEF Spec, ImplementsHub, Surface!Spec
=============================================================================
