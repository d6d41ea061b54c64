------------------------- MODULE EnergyMeterProofs -------------------------
(***************************************************************************)
(* Proofs about EnergyMeter, for any readings, thresholds and bounds.      *)
(*                                                                         *)
(* The inductive invariant adds that a sensor that is not set up holds and *)
(* counts nothing, that no interval is longer than the time since the last *)
(* poll, that ticks without a live reading are held only until there is    *)
(* one, and within the interval that runs, and that what Home Assistant    *)
(* stored is whole watt-hours, so that rounding it again does not change   *)
(* it.                                                                     *)
(***************************************************************************)
EXTENDS EnergyMeter, TLAPS

IdleUnlessIn == phase # "in" => held = NoPower /\ pending = 0

OverrunInSilence ==
    /\ overrun > 0 => transport = "ble" /\ ~Live(up, age)
    /\ held # NoPower => overrun =< pending

StoredIsWhole == \E k \in Nat : stored = k * WattHour

IInv ==
    /\ TypeOK /\ IdleUnlessIn /\ NothingHeldWhileDown
    /\ OverrunInSilence /\ OverrunBounded
    /\ EveryTickOnce /\ StoredIsWhole

-----------------------------------------------------------------------------
(* Arithmetic *)

LEMMA ProductIsNat == \A a, b \in Nat : a * b \in Nat
  OBVIOUS

LEMMA SumTimes == \A a, b \in Nat : a * (b + 1) = a * b + a
  OBVIOUS

\* What \div returns, in terms of multiplication.
LEMMA Quotient ==
    ASSUME NEW n \in Nat, NEW d \in Nat \ {0}
    PROVE  n \div d \in Nat /\ (n \div d) * d =< n /\ n < (n \div d) * d + d
  OBVIOUS

LEMMA QuotientIs ==
    ASSUME NEW n \in Nat, NEW d \in Nat \ {0}, NEW q \in Nat, q * d =< n, n < q * d + d
    PROVE  n \div d = q
  OBVIOUS

LEMMA QuotientGrows ==
    ASSUME NEW n \in Nat, NEW m \in Nat, NEW d \in Nat \ {0}, n =< m
    PROVE  n \div d =< m \div d
  OBVIOUS

\* native_value is whole watt-hours, does not go down while the total does not, and
\* is what it was when it is restored.
LEMMA RoundedIsWhole ==
    ASSUME NEW t \in Nat
    PROVE  Rounded(t) \in Nat /\ \E k \in Nat : Rounded(t) = k * WattHour
<1>1. 2 * t + WattHour \in Nat /\ 2 * WattHour \in Nat \ {0}
  BY TickAssumption
<1> DEFINE k == (2 * t + WattHour) \div (2 * WattHour)
<1>2. k \in Nat
  BY <1>1, Quotient
<1>3. Rounded(t) = k * WattHour
  BY DEF Rounded
<1> HIDE DEF k
<1> QED BY <1>2, <1>3, ProductIsNat, TickAssumption

LEMMA RoundedGrows ==
    ASSUME NEW t \in Nat, NEW u \in Nat, t =< u
    PROVE  Rounded(t) =< Rounded(u)
<1> DEFINE d == 2 * WattHour
           k == (2 * t + WattHour) \div d
           l == (2 * u + WattHour) \div d
<1>1. 2 * t + WattHour \in Nat /\ 2 * u + WattHour \in Nat /\ d \in Nat \ {0}
      /\ 2 * t + WattHour =< 2 * u + WattHour
  BY TickAssumption
<1>2. k \in Nat /\ l \in Nat /\ k =< l
  BY <1>1, Quotient, QuotientGrows
<1>3. Rounded(t) = k * WattHour /\ Rounded(u) = l * WattHour
  BY DEF Rounded
<1> HIDE DEF k, l
<1>4. k * WattHour =< l * WattHour
  BY <1>2, TickAssumption
<1> QED BY <1>3, <1>4

LEMMA WholeStays ==
    ASSUME NEW k \in Nat
    PROVE  Rounded(k * WattHour) = k * WattHour
<1> DEFINE n == 2 * (k * WattHour) + WattHour
           d == 2 * WattHour
<1>1. n \in Nat /\ d \in Nat \ {0} /\ k * d =< n /\ n < k * d + d
  BY TickAssumption
<1>2. n \div d = k
  BY <1>1, QuotientIs
<1> QED BY <1>2 DEF Rounded

-----------------------------------------------------------------------------
(* Advancing the integrator *)

LEMMA CountedIsNat ==
    ASSUME MeterOK, NEW t \in Nat
    PROVE  Counted(t) \in Nat
  BY ProductIsNat DEF MeterOK, Counted

LEMMA HeldIsLive ==
    ASSUME (power \in Powers \cup {NoPower})'
    PROVE  /\ Hold(LivePower) \in Nat \cup {NoPower}
           /\ Hold(LivePower) # NoPower => Live(up', age')
  BY PowerAssumption DEF Hold, LivePower

\* An Advance counts what was pending, and leaves nothing held in a silence.
LEMMA AdvanceKeeps ==
    ASSUME IInv, Advance, HubOK', phase = "in", UNCHANGED <<transport, phase, stored>>,
           UNCHANGED history, (polled \in 0 .. PollTicks)',
           overrun > 0 => ~Live(up', age')
    PROVE  IInv' /\ total' >= total
<1>1. total' = total + Counted(pending) /\ pending' = 0 /\ held' = Hold(LivePower)
  BY DEF Advance
<1>2. Counted(pending) \in Nat
  BY CountedIsNat DEF IInv, TypeOK, MeterOK
<1>3. /\ held' \in Nat \cup {NoPower}
      /\ held' # NoPower => Live(up', age')
  BY <1>1, HeldIsLive DEF HubOK
<1>4. TypeOK'
  BY <1>1, <1>2, <1>3 DEF IInv, TypeOK, MeterOK, history
<1>5. IdleUnlessIn' /\ NothingHeldWhileDown' /\ StoredIsWhole'
  BY <1>3 DEF IInv, IdleUnlessIn, NothingHeldWhileDown, StoredIsWhole, Live
<1>6. OverrunInSilence' /\ OverrunBounded'
  <2>1. overrun \in Nat /\ UNCHANGED <<overrun, transport>>
    BY DEF IInv, TypeOK, MeterOK, history
  <2>2. overrun > 0 => held' = NoPower
    BY <1>3, <2>1 DEF IInv, OverrunInSilence
  <2> QED BY <1>1, <2>1, <2>2 DEF IInv, OverrunInSilence, OverrunBounded, Live
<1>7. EveryTickOnce'
  <2>1. Counted(pending)' = 0
    BY <1>1, <1>3, PowerAssumption DEF Counted
  <2> QED BY <1>1, <1>2, <2>1 DEF IInv, TypeOK, MeterOK, EveryTickOnce, history
<1> QED BY <1>1, <1>2, <1>4, <1>5, <1>6, <1>7 DEF IInv, TypeOK, MeterOK

LEMMA ToldKeeps ==
    ASSUME IInv, Told, Others, HubOK', age' = age,
           up' = up \/ (transport = "cloud" /\ (phase = "in" \/ held = NoPower))
    PROVE  IInv' /\ total' >= total
<1> USE DEF Others
<1>1. CASE phase = "in"
  <2>1. Advance
    BY <1>1 DEF Told
  <2>2. overrun > 0 => ~Live(up', age')
    BY DEF IInv, OverrunInSilence, Live
  <2>3. transport' = transport /\ (polled \in 0 .. PollTicks)'
    BY DEF IInv, TypeOK, MeterOK
  <2> QED BY <1>1, <2>1, <2>2, <2>3, AdvanceKeeps
<1>2. CASE phase # "in"
  <2>1. UNCHANGED <<total, held, pending, transport, phase, polled, stored, ledger, overrun>>
    BY <1>2 DEF Told, meterVars, history
  <2> QED BY <1>2, <2>1 DEF IInv, TypeOK, MeterOK, IdleUnlessIn, NothingHeldWhileDown,
          OverrunInSilence, OverrunBounded, EveryTickOnce, StoredIsWhole, Counted, Live
<1> QED BY <1>1, <1>2

-----------------------------------------------------------------------------
(* IInv is an inductive invariant, and only a crash takes anything back. *)

Falls == crashes' = crashes => Shown' >= Shown

\* The age of a frame that never came, and zero, as types of the counters.
LEMMA CountersFit ==
    /\ StaleAfter + 1 \in 0 .. StaleAfter + 1
    /\ 0 \in 0 .. PollTicks /\ 0 \in 0 .. 0
  BY TickAssumption

LEMMA InitEstablishes == Init => IInv
<1> SUFFICES ASSUME Init PROVE IInv
  OBVIOUS
<1>1. stored = 0 * WattHour
  BY TickAssumption DEF Init
<1>2. StoredIsWhole
  BY <1>1 DEF StoredIsWhole
<1>3. TypeOK
  <2>1. HubOK
    BY CountersFit, Zenon DEF Init, HubOK
  <2>2. MeterOK
    BY CountersFit DEF Init, MeterOK
  <2> QED BY <2>1, <2>2 DEF TypeOK
<1>4. IdleUnlessIn /\ NothingHeldWhileDown /\ EveryTickOnce
  BY DEF Init, IdleUnlessIn, NothingHeldWhileDown, EveryTickOnce
<1>5. OverrunInSilence /\ OverrunBounded
  BY TickAssumption DEF Init, OverrunInSilence, OverrunBounded
<1> QED BY <1>2, <1>3, <1>4, <1>5 DEF IInv

\* As long as the sensor stays where it is and its total grows, so does what it shows.
LEMMA GrowingShows ==
    ASSUME IInv, IInv', total' >= total, UNCHANGED <<phase, stored>>
    PROVE  Falls
<1>1. total \in Nat /\ total' \in Nat /\ stored \in Nat
  BY DEF IInv, TypeOK, MeterOK
<1>2. Rounded(total)' >= Rounded(total)
  BY <1>1, RoundedGrows, RoundedIsWhole DEF Rounded
<1> QED BY <1>1, <1>2 DEF Falls, Shown

LEMMA HubKeeps ==
    ASSUME IInv,
           \/ \E p \in Powers \cup {power} : BleFrame(p)
           \/ \E p \in Powers \cup {NoPower} : CloudFrame(p)
           \/ DebounceFires \/ SocketChanges \/ LinkChanges \/ NotifyNow
    PROVE  IInv' /\ Falls
<1> USE DEF IInv, TypeOK
<1>1. ASSUME NEW p \in Powers \cup {power}, BleFrame(p) PROVE IInv' /\ Falls
  <2>1. /\ UNCHANGED <<transport, phase, up, total, held, pending, polled, stored, ledger>>
        /\ power' \in Powers \cup {NoPower} /\ age' = 0 /\ overrun' = 0 /\ notify' \in BOOLEAN
    BY <1>1 DEF BleFrame, meterVars, HubOK
  <2>2. TypeOK'
    BY <2>1, TickAssumption DEF HubOK, MeterOK
  <2>3. IInv'
    BY <2>1, <2>2, TickAssumption DEF MeterOK, IdleUnlessIn, NothingHeldWhileDown,
       OverrunInSilence, OverrunBounded, EveryTickOnce, StoredIsWhole, Counted
  <2> QED BY <2>1, <2>3, GrowingShows DEF MeterOK
<1>2. ASSUME NEW p \in Powers \cup {NoPower}, CloudFrame(p) PROVE IInv' /\ Falls
  <2>1. HubOK' /\ age' = age /\ up' = up /\ Told /\ Others
    BY <1>2 DEF CloudFrame, HubOK, Others
  <2> QED BY <2>1, ToldKeeps, GrowingShows DEF Others
<1>3. ASSUME DebounceFires PROVE IInv' /\ Falls
  <2>1. HubOK' /\ age' = age /\ up' = up /\ Told /\ Others
    BY <1>3 DEF DebounceFires, HubOK, Others
  <2> QED BY <2>1, ToldKeeps, GrowingShows DEF Others
<1>4. ASSUME SocketChanges PROVE IInv' /\ Falls
  <2>1. HubOK' /\ age' = age /\ transport = "cloud" /\ Told /\ Others
    BY <1>4 DEF SocketChanges, HubOK, Others
  <2>2. phase = "in" \/ held = NoPower
    BY DEF IdleUnlessIn
  <2> QED BY <2>1, <2>2, ToldKeeps, GrowingShows DEF Others
<1>5. ASSUME LinkChanges PROVE IInv' /\ Falls
  <2>1. /\ UNCHANGED <<transport, phase, power, age, notify, total, held, pending, polled, stored, ledger>>
        /\ up' = ~up /\ transport = "ble" /\ overrun' = IF Live(up', age) THEN 0 ELSE overrun
    BY <1>5 DEF LinkChanges, meterVars
  <2>2. overrun' \in Nat /\ overrun' =< overrun /\ (overrun' > 0 => ~Live(up', age'))
    BY <2>1 DEF MeterOK
  <2>3. TypeOK'
    BY <2>1, <2>2 DEF HubOK, MeterOK
  <2>4. OverrunInSilence' /\ OverrunBounded'
    BY <2>1, <2>2, TickAssumption DEF MeterOK, OverrunInSilence, OverrunBounded, Live
  <2>5. IInv'
    BY <2>1, <2>3, <2>4 DEF IdleUnlessIn, NothingHeldWhileDown, EveryTickOnce, StoredIsWhole, Counted
  <2> QED BY <2>1, <2>5, GrowingShows DEF MeterOK
<1>6. ASSUME NotifyNow PROVE IInv' /\ Falls
  <2>1. HubOK' /\ age' = age /\ up' = up /\ Told /\ Others
    BY <1>6 DEF NotifyNow, HubOK, Others
  <2> QED BY <2>1, ToldKeeps, GrowingShows DEF Others
<1> QED BY <1>1, <1>2, <1>3, <1>4, <1>5, <1>6

LEMMA TickKeeps ==
    ASSUME IInv, Tick
    PROVE  IInv' /\ Falls
<1> USE DEF IInv, TypeOK
<1>1. /\ UNCHANGED <<transport, phase, up, power, notify, total, held, stored>>
      /\ age' = Saturated(age + 1, StaleAfter + 1) /\ ledger' = ledger + Counted(1)
  BY DEF Tick
<1>2. age' \in 0 .. StaleAfter + 1 /\ age' >= age
  BY <1>1, TickAssumption DEF Saturated, HubOK
<1>3. CASE phase # "in"
  <2>1. UNCHANGED <<polled, pending, overrun>> /\ ledger' = ledger
    BY <1>1, <1>3, PowerAssumption DEF Tick, Counted, IdleUnlessIn, MeterOK
  <2>2. TypeOK'
    BY <1>1, <1>2, <2>1 DEF HubOK, MeterOK
  <2>3. IInv'
    BY <1>1, <1>2, <1>3, <2>1, <2>2, TickAssumption DEF HubOK, MeterOK, IdleUnlessIn,
       NothingHeldWhileDown, OverrunInSilence, OverrunBounded, EveryTickOnce, StoredIsWhole, Live
  <2> QED BY <1>1, <2>3, GrowingShows DEF MeterOK
<1>4. CASE phase = "in"
  <2>1. /\ polled < PollTicks /\ polled' = polled + 1
        /\ pending' = IF held = NoPower THEN 0 ELSE pending + 1
        /\ overrun' = IF held # NoPower /\ ~Live(up, age') THEN overrun + 1 ELSE overrun
    BY <1>4 DEF Tick
  <2>2. polled' \in 0 .. PollTicks /\ pending' \in 0 .. polled' /\ overrun' \in Nat
    BY <2>1, TickAssumption DEF MeterOK
  <2>3. ledger' \in Nat
    BY <1>1, CountedIsNat DEF MeterOK
  <2>4. TypeOK'
    BY <1>1, <1>2, <2>2, <2>3 DEF HubOK, MeterOK
  <2>5. OverrunInSilence' /\ OverrunBounded'
    <3>1. held' = held /\ up' = up /\ transport' = transport
      BY <1>1
    <3>2. ~Live(up, age) => ~Live(up', age')
      BY <1>2, <3>1, TickAssumption DEF Live, HubOK
    <3>3. CASE held # NoPower /\ ~Live(up, age')
      <4>1. transport = "ble"
        BY <3>3 DEF Live, NothingHeldWhileDown, HubOK
      <4>2. overrun' =< pending'
        BY <2>1, <3>3 DEF OverrunInSilence, MeterOK
      <4> QED BY <2>2, <3>1, <3>3, <4>1, <4>2, TickAssumption
          DEF OverrunInSilence, OverrunBounded, MeterOK, Live
    <3>4. CASE ~(held # NoPower /\ ~Live(up, age'))
      <4>1. overrun' = overrun /\ (held # NoPower => pending' = pending + 1)
        BY <2>1, <3>4
      <4> QED BY <3>1, <3>2, <3>4, <4>1 DEF OverrunInSilence, OverrunBounded, MeterOK, Live
    <3> QED BY <3>3, <3>4
  <2>6. EveryTickOnce'
    <3>1. CASE held = NoPower
      BY <1>1, <1>4, <2>1, <3>1 DEF EveryTickOnce, Counted, MeterOK
    <3>2. CASE held # NoPower
      <4>1. held \in Nat /\ pending \in Nat
        BY <3>2 DEF MeterOK
      <4>2. held * (pending + 1) = held * pending + held /\ held * 1 = held /\ held * pending \in Nat
        BY <4>1, SumTimes, ProductIsNat
      <4>3. total + held * pending = ledger
        BY <1>4, <3>2 DEF EveryTickOnce, Counted
      <4>4. Counted(pending)' = held * pending + held /\ ledger' = ledger + held
        BY <1>1, <2>1, <3>2, <4>2 DEF Counted
      <4> QED BY <1>1, <4>1, <4>2, <4>3, <4>4 DEF EveryTickOnce, MeterOK
    <3> QED BY <3>1, <3>2
  <2>7. IInv'
    BY <1>1, <1>4, <2>4, <2>5, <2>6 DEF IdleUnlessIn, NothingHeldWhileDown, StoredIsWhole
  <2> QED BY <1>1, <2>7, GrowingShows DEF MeterOK
<1> QED BY <1>3, <1>4

LEMMA PollKeeps ==
    ASSUME IInv, Poll
    PROVE  IInv' /\ Falls
<1>1. HubOK' /\ UNCHANGED age
  BY DEF Poll, IInv, TypeOK, HubOK, hubVars
<1>2. IInv' /\ total' >= total
  <2>1. overrun > 0 => ~Live(up', age')
    BY <1>1 DEF Poll, hubVars, IInv, OverrunInSilence, Live
  <2>2. (polled \in 0 .. PollTicks)'
    BY TickAssumption DEF Poll
  <2>3. Advance /\ phase = "in" /\ UNCHANGED <<transport, phase, stored>> /\ UNCHANGED history
    BY DEF Poll
  <2> QED BY <1>1, <2>1, <2>2, <2>3, AdvanceKeeps
<1> QED BY <1>2, GrowingShows DEF Poll

LEMMA SaveKeeps ==
    ASSUME IInv, Save
    PROVE  IInv' /\ Falls
<1> USE DEF IInv, TypeOK
<1>1. /\ UNCHANGED <<transport, phase, up, power, age, notify, total, held, pending>>
      /\ UNCHANGED <<polled, ledger, overrun, crashes>>
      /\ stored' = Rounded(total) /\ phase = "in"
  BY DEF Save, hubVars, meterVars, history, bounds
<1>2. stored' \in Nat /\ StoredIsWhole'
  BY <1>1, RoundedIsWhole DEF MeterOK, StoredIsWhole
<1>3. IInv'
  BY <1>1, <1>2 DEF HubOK, MeterOK, IdleUnlessIn, NothingHeldWhileDown,
     OverrunInSilence, OverrunBounded, EveryTickOnce, Counted, Live
<1>4. Rounded(total) \in Nat
  BY RoundedIsWhole DEF MeterOK
<1> QED BY <1>1, <1>3, <1>4 DEF Falls, Shown, Rounded

LEMMA SetupKeeps ==
    ASSUME IInv, Setup
    PROVE  IInv' /\ Falls
<1> USE DEF IInv, TypeOK
<1>1. /\ UNCHANGED <<transport, total, held, pending, polled, stored, ledger, overrun>>
      /\ phase = "out" /\ phase' = "adding" /\ age' = StaleAfter + 1
      /\ up' = FALSE /\ power' = NoPower /\ notify' = FALSE
  BY DEF Setup, meterVars, history
<1>2. held = NoPower /\ pending = 0 /\ stored \in Nat /\ overrun \in Nat
  BY <1>1 DEF IdleUnlessIn, MeterOK
<1>3. TypeOK'
  <2>1. HubOK'
    BY <1>1, CountersFit, Zenon DEF HubOK
  <2>2. MeterOK'
    BY <1>1 DEF MeterOK
  <2> QED BY <2>1, <2>2
<1>4. IdleUnlessIn' /\ NothingHeldWhileDown' /\ EveryTickOnce' /\ StoredIsWhole'
  BY <1>1, <1>2 DEF IdleUnlessIn, NothingHeldWhileDown, EveryTickOnce, StoredIsWhole
<1>5. OverrunInSilence' /\ OverrunBounded'
  BY <1>1, <1>2, TickAssumption DEF OverrunInSilence, OverrunBounded, Live
<1> QED BY <1>1, <1>2, <1>3, <1>4, <1>5 DEF Falls, Shown

LEMMA AddedKeeps ==
    ASSUME IInv, Added
    PROVE  IInv' /\ Falls
<1> USE DEF IInv, TypeOK
<1>1. /\ UNCHANGED <<transport, up, power, age, notify, stored>>
      /\ phase = "adding" /\ phase' = "in"
      /\ total' = stored /\ ledger' = stored /\ held' = Hold(LivePower)
      /\ pending' = 0 /\ overrun' = 0 /\ polled' = 0
  BY DEF Added, hubVars
<1>2. HubOK'
  BY <1>1 DEF HubOK
<1>3. held' \in Nat \cup {NoPower} /\ (held' # NoPower => up')
  BY <1>1, <1>2, HeldIsLive DEF HubOK, Live
<1>4. Counted(pending)' = 0
  BY <1>1, <1>3, PowerAssumption DEF Counted
<1>5. IInv'
  BY <1>1, <1>2, <1>3, <1>4, TickAssumption DEF MeterOK, IdleUnlessIn, NothingHeldWhileDown,
     OverrunInSilence, OverrunBounded, EveryTickOnce, StoredIsWhole
<1>6. Rounded(stored) = stored /\ stored \in Nat
  BY WholeStays DEF StoredIsWhole, MeterOK
<1>7. Shown = stored /\ Shown' = Rounded(stored)
  BY <1>1 DEF Shown, Rounded
<1> QED BY <1>5, <1>6, <1>7 DEF Falls

LEMMA GoneKeeps ==
    ASSUME IInv, Gone, (stored \in Nat)', StoredIsWhole'
    PROVE  IInv'
<1>1. TypeOK'
  <2>1. HubOK'
    BY CountersFit, Zenon DEF Gone, IInv, TypeOK, HubOK
  <2>2. MeterOK'
    BY CountersFit DEF Gone, MeterOK
  <2> QED BY <2>1, <2>2 DEF TypeOK
<1>2. IdleUnlessIn' /\ NothingHeldWhileDown' /\ EveryTickOnce'
  BY DEF Gone, IdleUnlessIn, NothingHeldWhileDown, EveryTickOnce
<1>3. OverrunInSilence' /\ OverrunBounded'
  BY TickAssumption DEF Gone, OverrunInSilence, OverrunBounded
<1> QED BY <1>1, <1>2, <1>3 DEF IInv

LEMMA UnloadKeeps ==
    ASSUME IInv, Unload
    PROVE  IInv' /\ Falls
<1>1. total \in Nat /\ phase = "in" /\ stored' = Rounded(total) /\ Gone
  BY DEF Unload, IInv, TypeOK, MeterOK
<1>2. Rounded(total) \in Nat /\ StoredIsWhole'
  BY <1>1, RoundedIsWhole DEF StoredIsWhole
<1>3. IInv'
  BY <1>1, <1>2, GoneKeeps
<1> QED BY <1>1, <1>2, <1>3 DEF Falls, Shown, Gone

LEMMA CrashKeeps ==
    ASSUME IInv, Crash, crashes \in Nat
    PROVE  IInv' /\ Falls
<1>1. IInv'
  BY GoneKeeps DEF Crash, IInv, TypeOK, MeterOK, StoredIsWhole
<1> QED BY <1>1 DEF Crash, Falls

LEMMA NextKeeps == IInv /\ crashes \in Nat /\ [Next]_vars => (IInv /\ crashes \in Nat)' /\ [Falls]_vars
<1> SUFFICES ASSUME IInv, crashes \in Nat, [Next]_vars
             PROVE  IInv' /\ (crashes \in Nat)' /\ [Falls]_vars
  OBVIOUS
<1>1. CASE Next
  <2>1. IInv' /\ Falls
    BY <1>1, HubKeeps, TickKeeps, PollKeeps, SaveKeeps, SetupKeeps, AddedKeeps, UnloadKeeps,
       CrashKeeps DEF Next
  <2>2. crashes' \in {crashes, crashes + 1}
    BY <1>1 DEF Next, BleFrame, CloudFrame, DebounceFires, SocketChanges, LinkChanges, NotifyNow,
       Tick, Poll, Save, Setup, Added, Unload, Crash, Others, bounds
  <2> QED BY <2>1, <2>2
<1>2. CASE UNCHANGED vars
  BY <1>2 DEF vars, hubVars, meterVars, history, bounds, IInv, TypeOK, HubOK, MeterOK, IdleUnlessIn,
     NothingHeldWhileDown, OverrunInSilence, OverrunBounded, EveryTickOnce, StoredIsWhole, Counted, Live
<1> QED BY <1>1, <1>2

LEMMA Inductive == Spec => [](IInv /\ crashes \in Nat)
<1>1. Init => IInv /\ crashes \in Nat
  BY InitEstablishes DEF Init
<1>2. IInv /\ crashes \in Nat /\ [Next]_vars => (IInv /\ crashes \in Nat)'
  BY NextKeeps
<1> QED BY <1>1, <1>2, PTL DEF Spec

-----------------------------------------------------------------------------
(* Theorems *)

\* Whatever PowerIntegrator.update is fed, totals and held readings are not negative.
THEOREM TypeCorrect == Spec => []TypeOK
<1>1. IInv => TypeOK
  BY DEF IInv
<1> QED BY <1>1, Inductive, PTL

\* Intervals neither overlap nor leave a gap.
THEOREM EveryTickCountedOnce == Spec => []EveryTickOnce
<1>1. IInv => EveryTickOnce
  BY DEF IInv
<1> QED BY <1>1, Inductive, PTL

\* A spell without a live reading is counted for no longer than a polling interval.
THEOREM OverrunAlwaysBounded == Spec => []OverrunBounded
<1>1. IInv => OverrunBounded
  BY DEF IInv
<1> QED BY <1>1, Inductive, PTL

\* Nothing is held while the cloud hub's socket is down.
THEOREM NothingEverHeldWhileDown == Spec => []NothingHeldWhileDown
<1>1. IInv => NothingHeldWhileDown
  BY DEF IInv
<1> QED BY <1>1, Inductive, PTL

\* What the sensor shows goes down in no step but a crash.
THEOREM TotalNeverFallsButInACrash == Spec => TotalNeverFalls
<1>1. IInv /\ crashes \in Nat /\ [Next]_vars => [Falls]_vars
  BY NextKeeps
<1> QED BY <1>1, Inductive, PTL DEF Spec, TotalNeverFalls, Falls
=============================================================================
