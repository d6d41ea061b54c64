--------------------------- MODULE CloudHubProofs ---------------------------
(***************************************************************************)
(* What holds of CloudHub for every Data, every threshold and every count  *)
(* of ticks.                                                               *)
(*                                                                         *)
(* The inductive invariant adds to the properties of CloudHub that the hub *)
(* is connected exactly while its task reads the socket, and that a        *)
(* cancellation of the task is on its way, or has taken effect, exactly    *)
(* when stop() was called.                                                 *)
(***************************************************************************)
EXTENDS CloudHub, TLAPS

ConnectedWhileReading == connected <=> pc = "receiving"

CancelReachesTask ==
    /\ stopped => cancel \/ pc = "done" \/ (pc = "closing" /\ cause = "cancelled")
    /\ cancel \/ cause = "cancelled" => stopped

SocketInv == ConnectedWhileReading /\ KeepaliveHasItsSocket
StopInv == CancelReachesTask /\ OnlyStopEndsLoop

IInv == TypeOK /\ SocketInv /\ StopInv /\ ShownIsTheHub

-----------------------------------------------------------------------------
(* Capping a count keeps it between its bounds (min() in api.py's _run, and   *)
(* the saturation of the counters).                                           *)
LEMMA AtMostInBounds ==
    ASSUME NEW low \in Nat, NEW high \in Nat, NEW n \in Nat, low =< high, low =< n
    PROVE  AtMost(n, high) \in low .. high
BY DEF AtMost

(* The starting state is well typed. *)
LEMMA InitTypeOK == Init => TypeOK
<1>1. Init => StagesOK
  BY BackoffAssumption, CountAssumption DEF Init, StagesOK, Requests
<1>2. Init => CountersOK
  BY CountAssumption DEF Init, CountersOK
<1>3. Init => FlagsOK
  BY DEF Init, FlagsOK
<1>4. Init => ReadingsOK
  BY DEF Init, ReadingsOK, Readings
<1> QED
  BY <1>1, <1>2, <1>3, <1>4 DEF TypeOK

(* A failed attempt leaves the loop at one of its stages. *)
LEMMA AttemptFailedTyped ==
    ASSUME failures \in 0 .. ReloginAfter, streak \in 0 .. ReloginAfter, AttemptFailed
    PROVE  /\ failures' \in 0 .. ReloginAfter
           /\ streak' \in 0 .. ReloginAfter
           /\ pc' \in {"key", "sleeping", "done"}
<1>1. failures' \in 0 .. ReloginAfter /\ streak' \in 0 .. ReloginAfter
  <2>1. failures' = AtMost(failures + 1, ReloginAfter)
        /\ streak' = AtMost(streak + 1, ReloginAfter)
    BY DEF AttemptFailed
  <2> QED
    BY <2>1, CountAssumption DEF AtMost
<1>2. pc' \in {"key", "sleeping", "done"}
  BY DEF AttemptFailed
<1> QED
  BY <1>1, <1>2

(* Every step keeps the stages among their names and the backoff in bounds.   *)
LEMMA NextStagesOK == StagesOK /\ CountersOK /\ [Next]_vars => StagesOK'
<1> SUFFICES ASSUME StagesOK, streak \in 0 .. ReloginAfter, [Next]_vars
             PROVE  StagesOK'
  BY DEF CountersOK
<1> USE DEF StagesOK, Requests, loopVars, socketVars, shownVars
<1>1. CASE AttemptStarts
  <2>1. AtMost(2 * backoff, BackoffMax) \in BackoffStart .. BackoffMax
    BY AtMostInBounds, BackoffAssumption
  <2> QED
    BY <1>1, <2>1 DEF AttemptStarts
<1>2. CASE ConnectFails
  BY <1>2, AttemptFailedTyped DEF ConnectFails
<1>3. CASE Closed
  BY <1>3, AttemptFailedTyped DEF Closed
<1>4. CASE SocketOpens \/ Subscribed \/ SubscribeFails
  BY <1>4 DEF SocketOpens, Subscribed, SubscribeFails
<1>5. CASE StallExpires \/ SocketCloses \/ CancelledReading
  BY <1>5 DEF StallExpires, SocketCloses, CancelledReading, Leave
<1>6. CASE KeyReceived \/ LoggedIn \/ ReloginDone \/ ReloginFails
  BY <1>6, BackoffAssumption, CountAssumption
  DEF KeyReceived, LoggedIn, ReloginDone, ReloginFails, Request
<1>7. CASE CancelledElsewhere
  BY <1>7 DEF CancelledElsewhere
<1>8. ASSUME NEW v \in Data, TelemetryRead(v) \/ SwitchSet(v)
      PROVE  StagesOK'
  BY <1>8 DEF TelemetryRead, FrameRead, SwitchSet
<1>9. CASE AckRead \/ KeepaliveSent \/ KeepaliveDies \/ Tick \/ HalfOpens \/ TokenExpires
  BY <1>9
  DEF AckRead, FrameRead, KeepaliveSent, KeepaliveDies, Tick, HalfOpens, TokenExpires
<1>10. CASE Attach \/ Detach \/ StopCalled
  BY <1>10 DEF Attach, Detach, StopCalled
<1>11. CASE UNCHANGED vars
  BY <1>11 DEF vars
<1> QED
  BY <1>1, <1>2, <1>3, <1>4, <1>5, <1>6, <1>7, <1>8, <1>9, <1>10, <1>11
  DEF Next, Loop, Others

(* Every step keeps the clocks and counts in their bounds: no tick passes the *)
(* read deadline or a keepalive that is due.                                  *)
LEMMA NextCountersOK == StagesOK /\ CountersOK /\ [Next]_vars => CountersOK'
<1> SUFFICES ASSUME failures \in 0 .. ReloginAfter,
                    keepalive \in {"none", "running", "dead"}, CountersOK, [Next]_vars
             PROVE  CountersOK'
  BY DEF StagesOK
<1> USE DEF CountersOK, loopVars, socketVars, tokenVars
<1>1. CASE AttemptStarts \/ SocketOpens \/ SubscribeFails \/ CancelledElsewhere
  BY <1>1 DEF AttemptStarts, SocketOpens, SubscribeFails, CancelledElsewhere
<1>2. CASE ConnectFails
  BY <1>2, AttemptFailedTyped DEF ConnectFails
<1>3. CASE Closed
  BY <1>3, AttemptFailedTyped DEF Closed
<1>4. CASE Subscribed
  BY <1>4, CountAssumption DEF Subscribed
<1>5. CASE StallExpires \/ SocketCloses \/ CancelledReading
  BY <1>5, CountAssumption DEF StallExpires, SocketCloses, CancelledReading, Leave
<1>6. CASE KeyReceived \/ LoggedIn \/ ReloginDone \/ ReloginFails
  BY <1>6 DEF KeyReceived, LoggedIn, ReloginDone, ReloginFails, Request
<1>7. ASSUME NEW v \in Data, TelemetryRead(v) \/ SwitchSet(v)
      PROVE  CountersOK'
  BY <1>7, CountAssumption DEF TelemetryRead, FrameRead, SwitchSet
<1>8. CASE AckRead \/ KeepaliveSent \/ KeepaliveDies \/ HalfOpens
  BY <1>8, CountAssumption
  DEF AckRead, FrameRead, KeepaliveSent, KeepaliveDies, HalfOpens
<1>9. CASE Tick
  <2>1. AtMost(unheard + 1, StallTicks + 1) \in 0 .. StallTicks + 1
    BY AtMostInBounds, CountAssumption
  <2>2. quiet + 1 \in 0 .. StallTicks
    BY <1>9, CountAssumption DEF Tick
  <2>3. keepalive = "running" => sleep + 1 \in 0 .. KeepaliveTicks
    BY <1>9, CountAssumption DEF Tick, KeepaliveDue
  <2> QED
    BY <1>9, <2>1, <2>2, <2>3 DEF Tick
<1>10. CASE TokenExpires
  BY <1>10, CountAssumption DEF TokenExpires
<1>11. CASE Attach \/ Detach \/ StopCalled
  BY <1>11 DEF Attach, Detach, StopCalled
<1>12. CASE UNCHANGED vars
  BY <1>12 DEF vars
<1> QED
  BY <1>1, <1>2, <1>3, <1>4, <1>5, <1>6, <1>7, <1>8, <1>9, <1>10, <1>11, <1>12
  DEF Next, Loop, Others

(* Every step keeps the flags Boolean. *)
LEMMA NextFlagsOK == FlagsOK /\ [Next]_vars => FlagsOK'
<1> SUFFICES ASSUME FlagsOK, [Next]_vars
             PROVE  FlagsOK'
  OBVIOUS
<1> USE DEF FlagsOK, loopVars, socketVars, tokenVars
<1>1. CASE AttemptStarts \/ SocketOpens \/ ConnectFails \/ Subscribed \/ SubscribeFails
  BY <1>1 DEF AttemptStarts, SocketOpens, ConnectFails, Subscribed, SubscribeFails
<1>2. CASE StallExpires \/ SocketCloses \/ CancelledReading
  BY <1>2 DEF StallExpires, SocketCloses, CancelledReading, Leave
<1>3. CASE Closed \/ CancelledElsewhere
  BY <1>3 DEF Closed, CancelledElsewhere
<1>4. CASE KeyReceived \/ LoggedIn \/ ReloginDone \/ ReloginFails
  BY <1>4 DEF KeyReceived, LoggedIn, ReloginDone, ReloginFails, Request
<1>5. ASSUME NEW v \in Data, TelemetryRead(v) \/ SwitchSet(v)
      PROVE  FlagsOK'
  BY <1>5 DEF TelemetryRead, FrameRead, SwitchSet
<1>6. CASE AckRead \/ KeepaliveSent \/ KeepaliveDies \/ Tick \/ HalfOpens \/ TokenExpires
  BY <1>6
  DEF AckRead, FrameRead, KeepaliveSent, KeepaliveDies, Tick, HalfOpens, TokenExpires
<1>7. CASE Attach \/ Detach \/ StopCalled
  BY <1>7 DEF Attach, Detach, StopCalled
<1>8. CASE UNCHANGED vars
  BY <1>8 DEF vars
<1> QED
  BY <1>1, <1>2, <1>3, <1>4, <1>5, <1>6, <1>7, <1>8 DEF Next, Loop, Others

(* What the entities write is what the hub says, whoever calls _notify.       *)
LEMMA NotifiedShowTheHub ==
    ASSUME Notify, ShownIsTheHub, entities' = entities
    PROVE  ShownIsTheHub'
BY DEF Notify, ShownIsTheHub, Written

(* What the entities write is an availability and a reading.                  *)
LEMMA NotifiedTyped ==
    ASSUME Notify, ReadingsOK, FlagsOK', data' \in Readings
    PROVE  ReadingsOK'
BY DEF Notify, ReadingsOK, FlagsOK, Written

(* Every step keeps what is shown among the readings, and equal to what the   *)
(* hub has: wherever .available or .data change, the entities are told.       *)
LEMMA NextShown ==
    FlagsOK /\ ReadingsOK /\ SocketInv /\ ShownIsTheHub /\ [Next]_vars
        => ReadingsOK' /\ ShownIsTheHub'
<1> SUFFICES ASSUME FlagsOK', ReadingsOK, ConnectedWhileReading, ShownIsTheHub, [Next]_vars
             PROVE  ReadingsOK' /\ ShownIsTheHub'
  BY NextFlagsOK DEF SocketInv
<1>1. CASE UNCHANGED <<data, seen, connected, entities>>
  BY <1>1 DEF ReadingsOK, ShownIsTheHub
<1>2. CASE UNCHANGED <<socketVars, shownVars>>
  BY <1>1, <1>2 DEF socketVars, shownVars
<1>3. ASSUME Notify, data' \in Readings, entities' = entities
      PROVE  ReadingsOK' /\ ShownIsTheHub'
  BY <1>3, NotifiedShowTheHub, NotifiedTyped
<1>4. CASE Subscribed
  BY <1>4, <1>3 DEF Subscribed, ReadingsOK
<1>5. CASE StallExpires \/ SocketCloses \/ CancelledReading
  BY <1>5, <1>3 DEF StallExpires, SocketCloses, CancelledReading, Leave, ReadingsOK
<1>6. ASSUME NEW v \in Data, TelemetryRead(v) \/ SwitchSet(v)
      PROVE  ReadingsOK' /\ ShownIsTheHub'
  BY <1>6, <1>3 DEF TelemetryRead, FrameRead, SwitchSet, Readings
<1>7. CASE Attach
  BY <1>7 DEF Attach, Written, ShownIsTheHub, ReadingsOK, FlagsOK
<1>8. CASE Detach
  BY <1>8 DEF Detach, ShownIsTheHub, ReadingsOK
<1>9. CASE AttemptStarts \/ ConnectFails \/ SubscribeFails \/ TokenExpires \/ StopCalled
  BY <1>9, <1>2 DEF AttemptStarts, ConnectFails, SubscribeFails, TokenExpires, StopCalled
<1>10. CASE KeyReceived \/ LoggedIn \/ ReloginDone \/ ReloginFails
  BY <1>10, <1>2 DEF KeyReceived, LoggedIn, ReloginDone, ReloginFails, Request
<1>11. CASE SocketOpens \/ Closed \/ CancelledElsewhere
  BY <1>11, <1>1 DEF SocketOpens, Closed, CancelledElsewhere, shownVars
<1>12. CASE AckRead \/ KeepaliveSent \/ KeepaliveDies \/ Tick \/ HalfOpens
  BY <1>12, <1>1
  DEF AckRead, FrameRead, KeepaliveSent, KeepaliveDies, Tick, HalfOpens, shownVars
<1>13. CASE UNCHANGED vars
  BY <1>13, <1>2 DEF vars
<1> QED
  BY <1>4, <1>5, <1>6, <1>7, <1>8, <1>9, <1>10, <1>11, <1>12, <1>13 DEF Next, Loop, Others

-----------------------------------------------------------------------------
(* The keepalive task and `connected' keep step with the reading of the       *)
(* socket.                                                                    *)
LEMMA NextSocketInv == FlagsOK /\ SocketInv /\ [Next]_vars => SocketInv'
<1> SUFFICES ASSUME FlagsOK, SocketInv, [Next]_vars
             PROVE  SocketInv'
  OBVIOUS
<1> USE DEF SocketInv, ConnectedWhileReading, KeepaliveHasItsSocket
<1>1. CASE UNCHANGED <<pc, connected, keepalive>>
  BY <1>1
<1>2. CASE AttemptStarts \/ SocketOpens \/ SubscribeFails \/ CancelledElsewhere
  BY <1>2
  DEF AttemptStarts, SocketOpens, SubscribeFails, CancelledElsewhere, socketVars
<1>3. CASE ConnectFails \/ Closed
  BY <1>3 DEF ConnectFails, Closed, AttemptFailed, socketVars
<1>4. CASE Subscribed
  BY <1>4 DEF Subscribed
<1>5. CASE StallExpires \/ SocketCloses \/ CancelledReading
  BY <1>5 DEF StallExpires, SocketCloses, CancelledReading, Leave
<1>6. CASE KeyReceived \/ LoggedIn \/ ReloginDone \/ ReloginFails
  BY <1>6
  DEF KeyReceived, LoggedIn, ReloginDone, ReloginFails, Request, Requests, socketVars
<1>7. CASE KeepaliveDies
  BY <1>7 DEF KeepaliveDies, loopVars
<1>8. ASSUME NEW v \in Data, TelemetryRead(v) \/ SwitchSet(v)
      PROVE  SocketInv'
  BY <1>8, <1>1 DEF TelemetryRead, FrameRead, SwitchSet, loopVars, socketVars
<1>9. CASE AckRead \/ KeepaliveSent \/ Tick \/ HalfOpens \/ TokenExpires
  BY <1>9, <1>1
  DEF AckRead, FrameRead, KeepaliveSent, Tick, HalfOpens, TokenExpires, loopVars, socketVars
<1>10. CASE Attach \/ Detach \/ StopCalled
  BY <1>10, <1>1 DEF Attach, Detach, StopCalled, loopVars, socketVars
<1>11. CASE UNCHANGED vars
  BY <1>11, <1>1 DEF vars, loopVars, socketVars
<1> QED
  BY <1>2, <1>3, <1>4, <1>5, <1>6, <1>7, <1>8, <1>9, <1>10, <1>11 DEF Next, Loop, Others

(* The cancellation of stop() reaches the loop task, and nothing else ends it.*)
LEMMA NextStopInv == FlagsOK /\ StopInv /\ [Next]_vars => StopInv'
<1> SUFFICES ASSUME FlagsOK, StopInv, [Next]_vars
             PROVE  StopInv'
  OBVIOUS
<1> USE DEF StopInv, CancelReachesTask, OnlyStopEndsLoop
<1>1. CASE UNCHANGED loopVars
  BY <1>1 DEF loopVars
<1>2. CASE AttemptStarts \/ SocketOpens \/ Subscribed \/ SubscribeFails
  BY <1>2 DEF AttemptStarts, SocketOpens, Subscribed, SubscribeFails
<1>3. CASE ConnectFails \/ Closed
  BY <1>3 DEF ConnectFails, Closed, AttemptFailed, MayGoOn
<1>4. CASE StallExpires \/ SocketCloses \/ CancelledReading
  BY <1>4 DEF StallExpires, SocketCloses, CancelledReading, Leave
<1>5. CASE KeyReceived \/ LoggedIn \/ ReloginDone \/ ReloginFails
  BY <1>5
  DEF KeyReceived, LoggedIn, ReloginDone, ReloginFails, Request, Requests, MayGoOn
<1>6. CASE CancelledElsewhere \/ StopCalled
  BY <1>6 DEF CancelledElsewhere, StopCalled, FlagsOK
<1>7. ASSUME NEW v \in Data, TelemetryRead(v) \/ SwitchSet(v)
      PROVE  StopInv'
  BY <1>7, <1>1 DEF TelemetryRead, FrameRead, SwitchSet
<1>8. CASE AckRead \/ KeepaliveSent \/ KeepaliveDies \/ Tick \/ HalfOpens \/ TokenExpires
  BY <1>8, <1>1
  DEF AckRead, FrameRead, KeepaliveSent, KeepaliveDies, Tick, HalfOpens, TokenExpires
<1>9. CASE Attach \/ Detach
  BY <1>9, <1>1 DEF Attach, Detach
<1>10. CASE UNCHANGED vars
  BY <1>10, <1>1 DEF vars
<1> QED
  BY <1>2, <1>3, <1>4, <1>5, <1>6, <1>7, <1>8, <1>9, <1>10 DEF Next, Loop, Others

-----------------------------------------------------------------------------
(* IInv is an inductive invariant. *)
LEMMA Inductive == Spec => []IInv
<1>1. Init => IInv
  <2>1. Init => SocketInv /\ StopInv
    BY DEF Init, SocketInv, ConnectedWhileReading, KeepaliveHasItsSocket, StopInv,
           CancelReachesTask, OnlyStopEndsLoop
  <2>2. Init => ShownIsTheHub
    BY DEF Init, ShownIsTheHub
  <2> QED
    BY <2>1, <2>2, InitTypeOK DEF IInv
<1>2. IInv /\ [Next]_vars => IInv'
  BY NextStagesOK, NextCountersOK, NextFlagsOK, NextShown, NextSocketInv, NextStopInv
  DEF IInv, TypeOK
<1> QED
  BY <1>1, <1>2, PTL DEF Spec

(* TypeOK for every run of the hub: the backoff stays in its bounds, and the  *)
(* socket is never read for longer than the stall timeout without a frame.    *)
THEOREM TypeCorrect == Spec => []TypeOK
<1>1. IInv => TypeOK
  BY DEF IInv
<1> QED
  BY <1>1, Inductive, PTL

(* Entities that are attached never show a socket that is down as live, or    *)
(* the reverse, on any path into or out of a connection.                      *)
THEOREM ShownAlwaysTheHub == Spec => []ShownIsTheHub
<1>1. IInv => ShownIsTheHub
  BY DEF IInv
<1> QED
  BY <1>1, Inductive, PTL

(* A keepalive task never outlives the connection it was started for.         *)
THEOREM KeepaliveAlwaysHasItsSocket == Spec => []KeepaliveHasItsSocket
<1>1. IInv => KeepaliveHasItsSocket
  BY DEF IInv, SocketInv
<1> QED
  BY <1>1, Inductive, PTL

(* The reconnect loop ends only because of stop(), whatever a connect or a    *)
(* re-login raises.                                                           *)
THEOREM OnlyStopAlwaysEndsLoop == Spec => []OnlyStopEndsLoop
<1>1. IInv => OnlyStopEndsLoop
  BY DEF IInv, StopInv
<1> QED
  BY <1>1, Inductive, PTL

-----------------------------------------------------------------------------
(* While the socket is read and dead, no step but the end of the connection   *)
(* touches the deadline, and time only uses it up.                            *)
LEMMA NextDeadline ==
    ASSUME IInv, [Next]_vars, connected, ~alive, connected'
    PROVE  ~alive' /\ quiet' >= quiet
<1>1. pc = "receiving" /\ quiet \in Nat
  BY DEF IInv, SocketInv, ConnectedWhileReading, TypeOK, CountersOK
<1>2. CASE UNCHANGED <<alive, quiet>>
  BY <1>1, <1>2
<1>3. ~AttemptStarts /\ ~SocketOpens /\ ~ConnectFails /\ ~Subscribed /\ ~SubscribeFails
      /\ ~Closed
  BY <1>1 DEF AttemptStarts, SocketOpens, ConnectFails, Subscribed, SubscribeFails, Closed
<1>4. ~KeyReceived /\ ~LoggedIn /\ ~ReloginDone /\ ~ReloginFails /\ ~CancelledElsewhere
  BY <1>1 DEF KeyReceived, LoggedIn, ReloginDone, ReloginFails, Request, Requests,
              CancelledElsewhere
<1>5. ~StallExpires /\ ~SocketCloses /\ ~CancelledReading
  BY DEF StallExpires, SocketCloses, CancelledReading, Leave
<1>6. \A v \in Data : ~TelemetryRead(v)
  BY DEF TelemetryRead, FrameRead
<1>7. CASE Tick
  BY <1>1, <1>7 DEF Tick
<1>8. CASE \/ KeepaliveSent \/ KeepaliveDies \/ TokenExpires \/ Attach \/ Detach \/ StopCalled
           \/ \E v \in Data : SwitchSet(v)
  BY <1>2, <1>8
  DEF KeepaliveSent, KeepaliveDies, TokenExpires, Attach, Detach, StopCalled, SwitchSet,
      socketVars
<1>9. ~AckRead /\ ~HalfOpens
  BY DEF AckRead, FrameRead, HalfOpens
<1>10. CASE UNCHANGED vars
  BY <1>2, <1>10 DEF vars, socketVars
<1> QED
  BY <1>3, <1>4, <1>5, <1>6, <1>7, <1>8, <1>9, <1>10 DEF Next, Loop, Others

(* On a socket that only looks open the hub's time can only run down: neither *)
(* its own keepalives nor anything else puts the read deadline off, so a      *)
(* half-open connection has at most the rest of it (api.py, _connect_once and *)
(* _keepalive).  That the time does run is HalfOpenIsNoticed's part.          *)
THEOREM DeadlineAlwaysStands == Spec => DeadlineStands
<1> DEFINE Step == connected /\ ~alive /\ connected' => ~alive' /\ quiet' >= quiet
<1>1. IInv /\ [Next]_vars => [Step]_vars
  BY NextDeadline
<1>2. Spec => [][Step]_vars
  <2> HIDE DEF Step
  <2> QED
    BY <1>1, Inductive, PTL DEF Spec
<1> QED
  BY <1>2 DEF DeadlineStands

-----------------------------------------------------------------------------
(* Every step of the hub is one the abstract hub may take, or a stutter.      *)
LEMMA NextOfSurface == IInv /\ [Next]_vars => [Surface!Next]_(Surface!vars)
<1> SUFFICES ASSUME FlagsOK, FlagsOK', ConnectedWhileReading, ShownIsTheHub, [Next]_vars
             PROVE  [Surface!Next]_(Surface!vars)
  BY NextFlagsOK DEF IInv, TypeOK, SocketInv
<1>1. CASE UNCHANGED <<connected, shownVars>>
  BY <1>1 DEF shownVars, Surface!vars, Surface!hubVars
<1>2. Notify => Surface!Told
  BY DEF Notify, Written, Surface!Told, Surface!Write
<1>3. CASE Subscribed
  BY <1>2, <1>3
  DEF Subscribed, ConnectedWhileReading, ShownIsTheHub, Surface!Next, Surface!Rises
<1>4. CASE StallExpires \/ SocketCloses \/ CancelledReading
  BY <1>2, <1>4
  DEF StallExpires, SocketCloses, CancelledReading, Leave, ConnectedWhileReading,
      Surface!Next, Surface!Falls
<1>5. ASSUME NEW v \in Data, TelemetryRead(v) \/ SwitchSet(v)
      PROVE  Surface!Next
  BY <1>2, <1>5
  DEF TelemetryRead, FrameRead, SwitchSet, socketVars, Surface!Next, Surface!Refreshes
<1>6. CASE Attach
  BY <1>6
  DEF Attach, Written, socketVars, Surface!Next, Surface!Attach, Surface!Write,
      Surface!hubVars
<1>7. CASE Detach
  BY <1>7 DEF Detach, socketVars, Surface!Next, Surface!Detach, Surface!hubVars
<1>8. CASE AttemptStarts \/ ConnectFails \/ SubscribeFails \/ TokenExpires \/ StopCalled
  BY <1>8, <1>1
  DEF AttemptStarts, ConnectFails, SubscribeFails, TokenExpires, StopCalled, socketVars
<1>9. CASE KeyReceived \/ LoggedIn \/ ReloginDone \/ ReloginFails
  BY <1>9, <1>1
  DEF KeyReceived, LoggedIn, ReloginDone, ReloginFails, Request, socketVars
<1>10. CASE SocketOpens \/ Closed \/ CancelledElsewhere
  BY <1>10, <1>1 DEF SocketOpens, Closed, CancelledElsewhere
<1>11. CASE AckRead \/ KeepaliveSent \/ KeepaliveDies \/ Tick \/ HalfOpens
  BY <1>11, <1>1
  DEF AckRead, FrameRead, KeepaliveSent, KeepaliveDies, Tick, HalfOpens, shownVars
<1>12. CASE UNCHANGED vars
  BY <1>12, <1>1 DEF vars, socketVars
<1> QED
  BY <1>3, <1>4, <1>5, <1>6, <1>7, <1>8, <1>9, <1>10, <1>11, <1>12 DEF Next, Loop, Others

(* The cloud hub keeps the promises of HubSurface: no connection begins while *)
(* an entity still shows a reading from the last one as live.                 *)
THEOREM CloudIsAHub == Spec => ImplementsHub
<1>1. Init => Surface!Init
  BY DEF Init, Surface!Init
<1> QED
  BY <1>1, NextOfSurface, Inductive, PTL DEF Spec, ImplementsHub, Surface!Spec
=============================================================================
