--------------------------- MODULE SensorBusProofs --------------------------
(***************************************************************************)
(* Proofs about the sensor bus, for any slots, clock range, window and     *)
(* cooldown of its monitor (BusHealth); and about the sensor that is read  *)
(* over it without a runtime of its own (LightSensor), for any table of    *)
(* ranges, any limits and any light.                                       *)
(***************************************************************************)
EXTENDS BusHealth, LightSensor, FiniteSetTheorems, TLAPS

-----------------------------------------------------------------------------
(* Lemmas.                                                                 *)

\* Two counted failures are the failures of two devices (lines 183-195).
LEMMA TwoAreDistinct ==
  ASSUME NEW C \in SUBSET Slots, Cardinality(C) >= EvidenceMin, NEW s \in Slots
  PROVE  \E t \in C : t # s
<1>1. IsFiniteSet(C)
  BY BusAssumption, FS_Subset DEF BusAssumption
<1> SUFFICES ASSUME C \subseteq {s} PROVE FALSE
  OBVIOUS
<1>2. IsFiniteSet({s}) /\ Cardinality({s}) = 1
  BY FS_Singleton
<1>3. Cardinality(C) <= 1 /\ Cardinality(C) \in Nat
  BY <1>1, <1>2, FS_Subset, FS_CardinalityType
<1> QED
  BY <1>3 DEF EvidenceMin

-----------------------------------------------------------------------------
(* Invariance.                                                             *)

\* The monitor starts in a state of the invariant.
LEMMA InitIInv == Init => IInv
<1> SUFFICES ASSUME Init PROVE IInv
  OBVIOUS
<1> USE BusAssumption DEF BusAssumption, Init
<1>1. TypeOK
  <2>1. 0 \in Clock /\ LongAgo \in 0 .. LongAgo /\ Cooldown \in 0 .. Cooldown
    BY DEF Clock, ClockMod, LongAgo
  <2>2. last \in [Slots -> Clock] /\ age \in [Slots -> 0 .. LongAgo] /\ quiet \in 0 .. Cooldown
    BY <2>1
  <2>3. healthy \in [Slots -> BOOLEAN]
    OBVIOUS
  <2>4. evidence \in Nat /\ state \in {"OK", "RECOVERING"} /\ lastRecovery \in Clock /\ now \in Clock
    BY <2>1
  <2>5. everRecovered \in BOOLEAN /\ rolled \in BOOLEAN /\ genuine \in BOOLEAN
    OBVIOUS
  <2> QED
    BY <2>2, <2>3, <2>4, <2>5 DEF TypeOK
<1>2. RecoveryIsJustified /\ RecoveryTimed /\ FailuresTimed
  BY DEF RecoveryIsJustified, RecoveryTimed, FailuresTimed
<1> QED
  BY <1>1, <1>2 DEF IInv

\* A reported failure keeps the invariant: what is counted is real.
LEMMA ReportIInv ==
  ASSUME IInv, NEW s \in Slots, NEW status \in Statuses, Report(s, status)
  PROVE  IInv'
<1> DEFINE C == {t \in Slots : StillCounts(s, t)}
<1> USE BusAssumption DEF BusAssumption
<1>1. TypeOK
  BY DEF IInv
<1>2. IsFiniteSet(C) /\ Cardinality(C) \in Nat
  BY FS_Subset, FS_CardinalityType
<1>3. TypeOK'
  <2>1. last' \in [Slots -> Clock]
    BY <1>1 DEF TypeOK, Report, Clock, ClockMod
  <2>2. evidence' \in Nat
    BY <1>2 DEF Report
  <2>3. age' \in [Slots -> 0 .. LongAgo]
    BY <1>1 DEF TypeOK, Report, LongAgo, ClockMod
  <2>4. state' \in {"OK", "RECOVERING"} /\ genuine' \in BOOLEAN
    BY <1>1 DEF TypeOK, Report
  <2> QED
    BY <1>1, <2>1, <2>2, <2>3, <2>4 DEF TypeOK, Report
<1>4. RecoveryIsJustified'
  <2> SUFFICES ASSUME state' = "RECOVERING", ~rolled PROVE genuine'
    BY DEF RecoveryIsJustified, Report
  <2>1. CASE state = "RECOVERING"
    BY <2>1 DEF IInv, RecoveryIsJustified, Report
  <2>2. CASE state # "RECOVERING"
    <3>1. Cardinality(C) >= EvidenceMin
      BY <2>2 DEF Report
    <3>2. PICK t \in C : t # s
      BY <3>1, TwoAreDistinct
    <3>3. last[t] # 0 /\ Ticks(last[t]) < Window
      BY <3>2 DEF StillCounts, Within
    <3>4. age[t] < Window
      BY <3>3 DEF IInv, FailuresTimed
    <3> QED
      BY <3>2, <3>4 DEF Report
  <2> QED
    BY <2>1, <2>2
<1>5. RecoveryTimed'
  BY DEF IInv, RecoveryTimed, Report, Ticks
<1>6. FailuresTimed'
  <2> SUFFICES ASSUME ~rolled, NEW t \in Slots, last'[t] # 0
               PROVE  (Ticks(last[t]))' = age'[t]
    BY DEF FailuresTimed, Report
  <2>1. CASE t = s
    BY <1>1, <2>1 DEF TypeOK, Report, Ticks, Clock, ClockMod
  <2>2. CASE t # s
    <3>1. last'[t] = last[t] /\ last[t] # 0 /\ age'[t] = age[t] /\ now' = now
      BY <1>1, <2>2 DEF TypeOK, Report, StillCounts
    <3>2. Ticks(last[t]) = age[t]
      BY <3>1 DEF IInv, FailuresTimed
    <3> QED
      BY <3>1, <3>2 DEF Ticks
  <2> QED
    BY <2>1, <2>2
<1> QED
  BY <1>3, <1>4, <1>5, <1>6 DEF IInv

\* The beginning of a recovery keeps the invariant.
LEMMA BeginRecoveryIInv ==
  ASSUME IInv, BeginRecovery
  PROVE  IInv'
<1> USE BusAssumption DEF BusAssumption
<1>1. TypeOK
  BY DEF IInv
<1>2. TypeOK'
  <2>1. 0 \in Clock /\ LongAgo \in 0 .. LongAgo /\ 0 \in 0 .. Cooldown
    BY DEF Clock, ClockMod, LongAgo
  <2>2. last' \in [Slots -> Clock] /\ age' \in [Slots -> 0 .. LongAgo] /\ quiet' \in 0 .. Cooldown
    BY <2>1 DEF BeginRecovery
  <2>3. evidence' \in Nat /\ state' \in {"OK", "RECOVERING"} /\ lastRecovery' \in Clock /\ now' \in Clock
    BY <1>1 DEF TypeOK, BeginRecovery
  <2>4. everRecovered' \in BOOLEAN /\ rolled' \in BOOLEAN /\ genuine' \in BOOLEAN
    BY DEF BeginRecovery
  <2>5. healthy' \in [Slots -> BOOLEAN]
    BY <1>1 DEF TypeOK, BeginRecovery
  <2> QED
    BY <2>2, <2>3, <2>4, <2>5 DEF TypeOK
<1>3. RecoveryIsJustified' /\ FailuresTimed'
  BY DEF BeginRecovery, RecoveryIsJustified, FailuresTimed
<1>4. RecoveryTimed'
  BY <1>1 DEF TypeOK, BeginRecovery, RecoveryTimed, Ticks, Clock, ClockMod
<1> QED
  BY <1>2, <1>3, <1>4 DEF IInv

\* The passing of time keeps the invariant, across the wrap of the counter.
LEMMA TickIInv ==
  ASSUME IInv, NEW d \in 1 .. MaxStep, Tick(d)
  PROVE  IInv'
<1> USE BusAssumption DEF BusAssumption
<1>1. TypeOK
  BY DEF IInv
<1>2. TypeOK'
  <2>1. now' \in Clock
    BY <1>1 DEF TypeOK, Tick, Later, Clock, ClockMod
  <2>2. age' \in [Slots -> 0 .. LongAgo]
    BY <1>1 DEF TypeOK, Tick, Least, LongAgo, ClockMod
  <2>3. quiet' \in 0 .. Cooldown
    BY <1>1 DEF TypeOK, Tick, Least
  <2>4. rolled' \in BOOLEAN
    BY <1>1 DEF TypeOK, Tick
  <2> QED
    BY <1>1, <2>1, <2>2, <2>3, <2>4 DEF TypeOK, Tick
<1>3. RecoveryIsJustified'
  BY DEF IInv, RecoveryIsJustified, Tick
<1>4. RecoveryTimed'
  <2> SUFFICES ASSUME everRecovered, quiet' < Cooldown
               PROVE  (Ticks(lastRecovery))' = quiet'
    BY DEF RecoveryTimed, Tick
  <2>1. quiet + d < Cooldown /\ quiet' = quiet + d
    BY <1>1 DEF TypeOK, Tick, Least
  <2>2. Ticks(lastRecovery) = quiet
    BY <1>1, <2>1 DEF IInv, TypeOK, RecoveryTimed
  <2>3. Ticks(lastRecovery) + d < ClockMod
    BY <2>1, <2>2 DEF ClockMod
  <2>4. lastRecovery \in Clock /\ now \in Clock /\ now' = Later(now, d) /\ lastRecovery' = lastRecovery
    BY <1>1 DEF TypeOK, Tick
  <2>5. (Ticks(lastRecovery))' = Ticks(lastRecovery) + d
    BY <2>3, <2>4 DEF Clock, ClockMod, Ticks, Later
  <2> QED
    BY <2>1, <2>2, <2>5
<1>5. FailuresTimed'
  <2> SUFFICES ASSUME ~rolled', NEW s \in Slots, last[s] # 0
               PROVE  (Ticks(last[s]))' = age'[s]
    BY DEF FailuresTimed, Tick
  <2>0. age[s] \in 0 .. LongAgo /\ LongAgo \in Nat
    BY <1>1 DEF TypeOK, LongAgo, ClockMod
  <2>1. age[s] + d < LongAgo
    <3>1. ~(age[s] + d >= LongAgo)
      BY DEF Tick
    <3> QED
      BY <2>0, <3>1
  <2>2. age'[s] = age[s] + d
    BY <2>0, <2>1 DEF Tick, Least
  <2>3. Ticks(last[s]) = age[s]
    BY DEF IInv, FailuresTimed, Tick
  <2>4. last[s] \in Clock /\ now \in Clock /\ now' = Later(now, d) /\ last' = last
    BY <1>1 DEF TypeOK, Tick
  <2>5. (Ticks(last[s]))' = Ticks(last[s]) + d
    BY <2>1, <2>3, <2>4 DEF LongAgo, Clock, ClockMod, Ticks, Later
  <2> QED
    BY <2>2, <2>3, <2>5
<1> QED
  BY <1>2, <1>3, <1>4, <1>5 DEF IInv

\* Every step of the monitor keeps the invariant.
LEMMA NextIInv == IInv /\ [Next]_vars => IInv'
<1> SUFFICES ASSUME IInv, [Next]_vars PROVE IInv'
  OBVIOUS
<1>1. ASSUME NEW s \in Slots, MarkHealth(s) PROVE IInv'
  BY <1>1 DEF IInv, TypeOK, MarkHealth, RecoveryIsJustified, RecoveryTimed, FailuresTimed, Ticks
<1>2. ASSUME NEW s \in Slots, NEW status \in Statuses, Report(s, status) PROVE IInv'
  BY <1>2, ReportIInv
<1>3. CASE BeginRecovery
  BY <1>3, BeginRecoveryIInv
<1>4. ASSUME NEW d \in 1 .. MaxStep, Tick(d) PROVE IInv'
  BY <1>4, TickIInv
<1>5. CASE UNCHANGED vars
  BY <1>5 DEF vars, IInv, TypeOK, RecoveryIsJustified, RecoveryTimed, FailuresTimed, Ticks
<1> QED
  BY <1>1, <1>2, <1>3, <1>4, <1>5 DEF Next

\* The monitor's state is consistent and its times are real: the inductive
\* invariant of i2c_bus_health.h.
THEOREM Invariance == Spec => []IInv
<1>1. Init => IInv
  BY InitIInv
<1>2. IInv /\ [Next]_vars => IInv'
  BY NextIInv
<1> QED
  BY <1>1, <1>2, PTL DEF Spec

\* The bus is reset only on the failures of two once-healthy devices within one
\* window, whatever the number of devices and the length of the window.
THEOREM RecoveryNeedsTwoDevices == Spec => []RecoveryIsJustified
<1>1. IInv => RecoveryIsJustified
  BY DEF IInv
<1> QED
  BY <1>1, Invariance, PTL

\* Recoveries are a cooldown apart, across every wrap of the counter.
THEOREM RecoveriesAreSpaced == Spec => RecoveriesSpaced
<1>1. IInv /\ [Next]_vars => [BeginRecovery /\ everRecovered => quiet >= Cooldown]_vars
  <2> SUFFICES ASSUME IInv, BeginRecovery, everRecovered, quiet < Cooldown PROVE FALSE
    BY BusAssumption DEF IInv, TypeOK, BusAssumption
  <2>1. Ticks(lastRecovery) = quiet
    BY DEF IInv, RecoveryTimed
  <2>2. Ticks(lastRecovery) >= Cooldown
    BY DEF BeginRecovery, RecoveryEligible, Elapsed
  <2> QED
    BY <2>1, <2>2, BusAssumption DEF IInv, TypeOK, BusAssumption
<1> QED
  BY <1>1, Invariance, PTL DEF Spec, RecoveriesSpaced

-----------------------------------------------------------------------------
(* The light sensor.                                                       *)

\* Of two numbers the lesser.
LEMMA MinOfTwo ==
  ASSUME NEW a \in Int, NEW b \in Int
  PROVE  Min({a, b}) = IF a <= b THEN a ELSE b
<1>1. \E x \in {a, b} : \A y \in {a, b} : x =< y
  OBVIOUS
<1>2. Min({a, b}) \in {a, b} /\ \A y \in {a, b} : Min({a, b}) =< y
  BY <1>1 DEF Min
<1>3. QED BY <1>2

\* ShownIsMeasured is not inductive: the count the device holds is one of its
\* present range once an integration time has passed, and whenever the driver
\* has settled in that range.
CountIsFresh ==
  /\ since >= IntegrationTime[device] => counted = device
  /\ runtime = "READY" /\ ~settling /\ device = range => counted = device

LightIInv == ShownIsMeasured /\ CountIsFresh

\* Settling lasts at least as long as an integration.
LEMMA SettleCoversIntegration ==
  ASSUME NEW r \in Ranges PROVE Settle(r) >= IntegrationTime[r]
BY LightAssumption DEF LightAssumption, Settle

\* A count below the limit of the register is that of the light.
LEMMA CountIs ==
  ASSUME LightTypeOK, NEW r \in Ranges
  PROVE  /\ Counts(r) \in Nat
         /\ Counts(r) < Saturation => Counts(r) = bright \div Resolution[r]
<1>1. bright \in Nat /\ Resolution[r] \in Nat \ {0} /\ MaxCount \in Nat /\ Saturation <= MaxCount
      /\ Saturation \in Nat
  BY LightAssumption DEF LightAssumption, LightTypeOK
<1>2. bright \div Resolution[r] \in Nat
  BY <1>1
<1>3. Counts(r) = IF MaxCount <= bright \div Resolution[r] THEN MaxCount ELSE bright \div Resolution[r]
  BY <1>1, <1>2, MinOfTwo DEF Counts
<1>4. QED BY <1>1, <1>2, <1>3

\* The conversion of a count of the range the driver believes in is the light.
LEMMA LuxIsRight ==
  ASSUME LightTypeOK, device = range => counted = range, Counts(counted) < Saturation
  PROVE  Lux \in {"right", "misread"}
<1>1. CASE device # range
  BY <1>1 DEF Lux
<1>2. CASE device = range
  <2>1. bright \in Nat /\ range \in Ranges /\ Resolution[range] \in Nat \ {0}
    BY LightAssumption DEF LightAssumption, LightTypeOK
  <2>2. Counts(counted) = bright \div Resolution[range]
    BY <1>2, <2>1, CountIs
  <2>3. /\ (bright \div Resolution[range]) * Resolution[range] <= bright
        /\ bright < (bright \div Resolution[range]) * Resolution[range] + Resolution[range]
    BY <2>1
  <2>4. QED BY <2>2, <2>3 DEF Lux
<1>3. QED BY <1>1, <1>2

\* A move to a neighbour range begins to settle there.
LEMMA MovesTo ==
  ASSUME NEW want, Moves(want)
  PROVE  /\ range' \in Ranges /\ device' = range' /\ since' = 0
         /\ settling' = TRUE /\ adjust' = "NONE" /\ consecutive' = 0
BY DEF Moves, Applied, EnterSettling

\* Without a move the driver stays settled in its range, and the device with it,
\* unless it has taken a configuration the driver knows nothing of.
LEMMA StaysThere ==
  ASSUME LightTypeOK, NEW want, Stays(want)
  PROVE  /\ range' = range /\ settling' = FALSE
         /\ UNCHANGED hardware \/ (device' \in Ranges /\ since' = 0 /\ device' # range')
<1>1. Neighbour(want) # range
  BY DEF Neighbour, LightTypeOK, Ranges
<1>2. QED BY <1>1 DEF Stays, NotApplied

\* What a read does to the device leaves its count as fresh as it was.
LEMMA FreshKept ==
  ASSUME LightTypeOK, CountIsFresh, counted' = counted,
         UNCHANGED hardware \/ (device' \in Ranges /\ since' = 0)
  PROVE  since' >= IntegrationTime[device'] => counted' = device'
<1>1. CASE UNCHANGED hardware
  BY <1>1 DEF hardware, CountIsFresh
<1>2. CASE device' \in Ranges /\ since' = 0
  BY <1>2, LightAssumption DEF LightAssumption
<1>3. QED BY <1>1, <1>2

\* One more error is an error count.
LEMMA ErrorsCounted ==
  ASSUME LightTypeOK, OneMoreError
  PROVE  errors' \in 0 .. Threshold
<1>1. errors \in Nat /\ errors <= Threshold /\ Threshold \in Nat
  BY LightAssumption DEF LightAssumption, LightTypeOK
<1>2. errors' = IF errors + 1 <= Threshold THEN errors + 1 ELSE Threshold
  BY <1>1, MinOfTwo DEF OneMoreError
<1>3. QED BY <1>1, <1>2

\* The reset state of the processor is safe, whatever the device was left with.
LEMMA InitLight == LightInit => LightIInv
<1> SUFFICES ASSUME LightInit PROVE LightIInv
  OBVIOUS
<1> USE LightAssumption DEF LightAssumption
<1>1. 0 \in Ranges /\ 0 \in 0 .. Threshold /\ 0 \in 0 .. Converge - 1 /\ LongSince \in 0 .. LongSince
  BY DEF Ranges
<1>2. LightTypeOK
  <2>1. settling \in BOOLEAN /\ good \in BOOLEAN
    BY DEF LightInit
  <2>2. range \in Ranges /\ since \in 0 .. LongSince /\ device \in Ranges /\ counted \in Ranges
    BY <1>1 DEF LightInit
  <2>3. errors \in 0 .. Threshold /\ consecutive \in 0 .. Converge - 1 /\ absent \in 0 .. 3
        /\ probeIn \in Nat
    BY <1>1 DEF LightInit
  <2>4. QED BY <2>1, <2>2, <2>3 DEF LightInit, LightTypeOK
<1>3. QED BY <1>2 DEF LightInit, LightIInv, ShownIsMeasured, CountIsFresh

\* While settling nothing is shown, and nothing else changes.
LEMMA ReadSettlingInv ==
  ASSUME LightIInv, ReadLight, ReadSettling PROVE LightIInv'
<1>1. UNCHANGED <<runtime, errors, absent, probeIn, range, settling, adjust, consecutive,
                  device, since, counted, bright, good>> /\ shown' = "none"
  BY DEF ReadLight, ReadSettling, app, search, hardware
<1>2. LightTypeOK'
  BY <1>1 DEF LightIInv, ShownIsMeasured, LightTypeOK
<1>3. CountIsFresh'
  BY <1>1 DEF LightIInv, CountIsFresh
<1>4. QED BY <1>1, <1>2, <1>3 DEF LightIInv, ShownIsMeasured

\* Once settled, a count is of the range the device is in if the driver is.
LEMMA SettledCount ==
  ASSUME LightIInv, runtime = "READY", ReadSettled
  PROVE  device = range => counted = range
<1>1. CASE ~settling
  BY <1>1 DEF LightIInv, CountIsFresh
<1>2. CASE settling
  <2>1. range \in Ranges /\ since \in Int /\ since >= Settle(range)
    BY <1>2, LightAssumption DEF LightAssumption, ReadSettled, LightIInv, ShownIsMeasured, LightTypeOK
  <2>2. Settle(range) >= IntegrationTime[range] /\ IntegrationTime[range] \in Int /\ Settle(range) \in Int
    BY <2>1, SettleCoversIntegration, LightAssumption DEF LightAssumption, Settle
  <2>3. since >= IntegrationTime[range]
    BY <2>1, <2>2
  <2>4. QED BY <2>3 DEF LightIInv, CountIsFresh
<1>3. QED BY <1>1, <1>2

\* A count once settled is shown as it is, or moves the range, or is saturated.
LEMMA ReadSettledInv ==
  ASSUME LightIInv, ReadLight, ReadSettled PROVE LightIInv'
<1>1. LightTypeOK /\ CountIsFresh
  BY DEF LightIInv, ShownIsMeasured
<1>2. runtime = "READY" /\ UNCHANGED <<runtime, absent, probeIn, counted, bright, good>>
  BY DEF ReadLight, ReadSettled
<1>3. device = range => counted = range
  BY <1>2, SettledCount
<1>4. Counts(counted) < Saturation => Lux \in {"right", "misread"}
  BY <1>1, <1>3, LuxIsRight
<1>5. 0 \in 0 .. Threshold /\ 0 \in 0 .. Converge - 1 /\ Converge \in Nat /\ 0 \in 0 .. LongSince
  BY LightAssumption DEF LightAssumption
\* The range and the device afterwards.
<1>6. \/ range' \in Ranges /\ device' = range' /\ since' = 0 /\ settling' = TRUE
      \/ /\ range' = range /\ settling' = FALSE
         /\ UNCHANGED hardware \/ (device' \in Ranges /\ since' = 0 /\ device' # range')
  <2>1. CASE Saturated
    BY <1>1, <2>1, MovesTo, StaysThere DEF Saturated
  <2>2. CASE Measured
    <3> DEFINE want == Wanted(Counts(counted))
    <3>1. \/ Moves(want) \/ Stays(want)
          \/ UNCHANGED <<hardware, range>> /\ settling' = FALSE
      BY <2>2 DEF Measured
    <3>2. QED BY <1>1, <3>1, MovesTo, StaysThere
  <2>3. QED BY <2>1, <2>2 DEF ReadSettled
<1>7. /\ range' \in Ranges /\ device' \in Ranges /\ since' \in 0 .. LongSince /\ settling' \in BOOLEAN
      /\ UNCHANGED hardware \/ (device' \in Ranges /\ since' = 0)
  BY <1>1, <1>5, <1>6 DEF LightTypeOK, hardware
\* The hysteresis and what is shown.
<1>8. /\ adjust' \in {"NONE", "LESS", "MORE"} /\ consecutive' \in 0 .. Converge - 1
      /\ errors' \in 0 .. Threshold
      /\ shown' \in {"none", "right", "misread"}
  <2>1. CASE Saturated
    <3>1. shown' = "none" /\ errors' = errors
      BY <2>1 DEF Saturated
    <3>2. CASE Moves("LESS")
      BY <1>1, <1>5, <3>1, <3>2, MovesTo DEF LightTypeOK
    <3>3. CASE UNCHANGED <<adjust, consecutive>>
      BY <1>1, <3>1, <3>3 DEF LightTypeOK
    <3>4. QED BY <2>1, <3>2, <3>3 DEF Saturated
  <2>2. CASE Measured
    <3> DEFINE want == Wanted(Counts(counted))
               times == IF want = "NONE" THEN 0 ELSE IF want = adjust THEN consecutive + 1 ELSE 1
               enough == want # "NONE" /\ times >= Converge
    <3>1. \/ enough /\ Moves(want) /\ shown' = "none" /\ UNCHANGED errors
          \/ /\ enough /\ Stays(want)
             /\ adjust' = "NONE" /\ consecutive' = 0
             /\ shown' = Lux /\ errors' = 0
          \/ /\ ~enough /\ adjust' = want /\ consecutive' = times
             /\ shown' = Lux /\ errors' = 0
      BY <2>2 DEF Measured
    <3>2. Lux \in {"right", "misread"}
      BY <1>4, <2>2 DEF Measured
    <3>3. want \in {"NONE", "LESS", "MORE"}
      BY DEF Wanted
    <3>4. ~enough => times \in 0 .. Converge - 1
      <4>1. consecutive \in Nat
        BY <1>1, <1>5 DEF LightTypeOK
      <4>2. times \in Nat
        BY <4>1
      <4>3. ~enough => times = 0 \/ times < Converge
        BY <1>5, <4>2
      <4>4. QED BY <1>5, <4>2, <4>3
    <3> HIDE DEF want, times, enough
    <3>5. CASE enough /\ Moves(want) /\ shown' = "none" /\ UNCHANGED errors
      BY <1>1, <1>5, <3>5, MovesTo DEF LightTypeOK
    <3>6. CASE adjust' = "NONE" /\ consecutive' = 0 /\ shown' = Lux /\ errors' = 0
      BY <1>5, <3>2, <3>6
    <3>7. CASE ~enough /\ adjust' = want /\ consecutive' = times /\ shown' = Lux /\ errors' = 0
      BY <1>5, <3>2, <3>3, <3>4, <3>7
    <3>8. QED BY <3>1, <3>5, <3>6, <3>7
  <2>3. QED BY <2>1, <2>2 DEF ReadSettled
<1>9. LightTypeOK'
  BY <1>1, <1>2, <1>7, <1>8 DEF LightTypeOK
<1>10. since' >= IntegrationTime[device'] => counted' = device'
  BY <1>1, <1>2, <1>7, FreshKept
<1>11. ~settling' /\ device' = range' => counted' = device'
  BY <1>2, <1>3, <1>6 DEF hardware
<1>12. QED BY <1>2, <1>8, <1>9, <1>10, <1>11 DEF LightIInv, ShownIsMeasured, CountIsFresh

\* A read that fails is the last before App_DoRetry, or leaves the sensor READY.
LEMMA ReadFailsInv ==
  ASSUME LightIInv, ReadLight, ReadFails PROVE LightIInv'
<1>1. UNCHANGED <<absent, probeIn, range, settling, adjust, consecutive, shown,
                  device, since, counted, bright, good>>
  BY DEF ReadLight, ReadFails, search, hardware
<1>2. runtime = "READY" /\ runtime' = IF errors' >= Threshold THEN "ERROR" ELSE runtime
  BY DEF ReadLight, ReadFails
<1>3. errors' \in 0 .. Threshold /\ Threshold \in Nat
  BY ErrorsCounted, LightAssumption DEF LightAssumption, ReadFails, LightIInv, ShownIsMeasured
<1>4. runtime' = "READY" \/ (runtime' = "ERROR" /\ errors' = Threshold)
  BY <1>2, <1>3
<1>5. LightTypeOK'
  BY <1>1, <1>3, <1>4 DEF LightIInv, ShownIsMeasured, LightTypeOK
<1>6. CountIsFresh'
  BY <1>1, <1>2 DEF LightIInv, CountIsFresh
<1>7. QED BY <1>1, <1>4, <1>5, <1>6 DEF LightIInv, ShownIsMeasured

\* A probe finds nothing, or the driver starts again.
LEMMA ProbeKeeps ==
  ASSUME LightTypeOK, CountIsFresh, NEW absences \in 0 .. 3, Probe(absences),
         shown' = "none", UNCHANGED <<counted, bright, good>>
  PROVE  LightIInv'
<1>1. 0 \in 0 .. Threshold /\ 0 \in 0 .. Converge - 1 /\ 0 \in 0 .. LongSince /\ 0 \in Ranges
      /\ StartRange \in Ranges
  BY LightAssumption DEF LightAssumption, Ranges
<1>2. CASE runtime' = "NOT_FOUND" /\ UNCHANGED <<errors, search, hardware>>
           /\ absent' \in 0 .. 3 /\ probeIn' \in Nat
  <2>1. LightTypeOK'
    BY <1>2 DEF LightTypeOK, search, hardware
  <2>2. CountIsFresh'
    BY <1>2 DEF CountIsFresh, hardware
  <2>3. QED BY <2>1, <2>2 DEF LightIInv, ShownIsMeasured
<1>3. CASE absent' = 0 /\ UNCHANGED probeIn /\ InitVeml
  <2>1. CASE Applied(StartRange) /\ EnterSettling /\ runtime' = "READY" /\ errors' = 0
    <3>1. /\ device' = StartRange /\ since' = 0 /\ range' = StartRange
          /\ settling' = TRUE /\ adjust' = "NONE" /\ consecutive' = 0
      BY <2>1 DEF Applied, EnterSettling
    <3>2. LightTypeOK'
      BY <1>1, <1>3, <2>1, <3>1 DEF LightTypeOK
    <3>3. since' >= IntegrationTime[device'] => counted' = device'
      BY <1>1, <3>1, FreshKept
    <3>4. QED BY <3>1, <3>2, <3>3 DEF LightIInv, ShownIsMeasured, CountIsFresh
  <2>2. CASE /\ NotApplied(StartRange)
             /\ range' = 0 /\ settling' = FALSE /\ adjust' = "NONE" /\ consecutive' = 0
             /\ runtime' = "ERROR" /\ OneMoreError
    <3>1. errors' \in 0 .. Threshold
      BY <2>2, ErrorsCounted
    <3>2. UNCHANGED hardware \/ (device' \in Ranges /\ since' = 0)
      BY <1>1, <2>2 DEF NotApplied
    <3>3. device' \in Ranges /\ since' \in 0 .. LongSince
      BY <1>1, <3>2 DEF hardware, LightTypeOK
    <3>4. LightTypeOK'
      <4>1. settling' \in BOOLEAN /\ good' \in BOOLEAN /\ bright' \in Brightnesses
        BY <2>2 DEF LightTypeOK
      <4>2. range' \in Ranges /\ consecutive' \in 0 .. Converge - 1 /\ absent' \in 0 .. 3
            /\ probeIn' \in Nat
        BY <1>1, <1>3, <2>2 DEF LightTypeOK
      <4>3. QED BY <2>2, <3>1, <3>3, <4>1, <4>2 DEF LightTypeOK
    <3>5. since' >= IntegrationTime[device'] => counted' = device'
      BY <3>2, FreshKept
    <3>6. QED BY <2>2, <3>4, <3>5 DEF LightIInv, ShownIsMeasured, CountIsFresh
  <2>3. QED BY <1>3, <2>1, <2>2 DEF InitVeml
<1>4. CASE /\ absent' = Min({absences + 1, 3}) /\ probeIn' = Backoff[absent']
           /\ runtime' = "NOT_FOUND" /\ UNCHANGED <<errors, search, hardware>>
  <2>1. absent' = IF absences + 1 <= 3 THEN absences + 1 ELSE 3
    BY <1>4, MinOfTwo
  <2>2. absent' \in 1 .. 3
    BY <2>1
  <2>3. probeIn' \in Nat
    BY <1>4, <2>2, LightAssumption DEF LightAssumption
  <2>4. QED BY <1>2, <1>4, <2>2, <2>3
<1>5. CASE runtime' = "NOT_FOUND" /\ UNCHANGED <<absent, probeIn, errors, search, hardware>>
  BY <1>2, <1>5 DEF LightTypeOK
<1>6. QED BY <1>3, <1>4, <1>5 DEF Probe

\* App_DoRetry shows nothing until the next read.
LEMMA RetryInv ==
  ASSUME LightIInv, Retry PROVE LightIInv'
<1>1. LightTypeOK /\ CountIsFresh
  BY DEF LightIInv, ShownIsMeasured
<1>2. shown' = "none" /\ UNCHANGED <<counted, bright, good>>
  BY DEF Retry
<1>3. CASE \E absences \in {0, absent} : Probe(absences)
  <2>1. absent \in 0 .. 3 /\ 0 \in 0 .. 3
    BY <1>1 DEF LightTypeOK
  <2>2. QED BY <1>1, <1>2, <1>3, <2>1, ProbeKeeps
<1>4. CASE /\ runtime = "ERROR" /\ runtime' = "RECOVERING"
           /\ UNCHANGED <<errors, absent, probeIn, search, hardware>>
  <2>1. LightTypeOK'
    BY <1>1, <1>2, <1>4 DEF LightTypeOK, search, hardware
  <2>2. CountIsFresh'
    BY <1>1, <1>2, <1>4 DEF CountIsFresh, hardware
  <2>3. QED BY <1>2, <2>1, <2>2 DEF LightIInv, ShownIsMeasured
<1>5. QED BY <1>3, <1>4 DEF Retry

\* An integration that completes is one of the range the device is in.
LEMMA TimePassesInv ==
  ASSUME LightIInv, TimePasses PROVE LightIInv'
<1>1. LightTypeOK /\ CountIsFresh
  BY DEF LightIInv, ShownIsMeasured
<1>2. /\ UNCHANGED <<runtime, errors, absent, range, settling, adjust, consecutive,
                     shown, device, bright, good>>
      /\ counted' = IF since' >= IntegrationTime[device] THEN device ELSE counted
      /\ probeIn' = IF probeIn > 0 THEN probeIn - 1 ELSE 0
  BY DEF TimePasses, search
<1>3. since' \in 0 .. LongSince
  <2>1. since \in Nat /\ LongSince \in Nat
    BY <1>1, LightAssumption DEF LightAssumption, LightTypeOK
  <2>2. since' = IF since + 1 <= LongSince THEN since + 1 ELSE LongSince
    BY <2>1, MinOfTwo DEF TimePasses
  <2>3. QED BY <2>1, <2>2
<1>4. probeIn' \in Nat /\ counted' \in Ranges
  BY <1>1, <1>2 DEF LightTypeOK
<1>5. LightTypeOK'
  BY <1>1, <1>2, <1>3, <1>4 DEF LightTypeOK
<1>6. CountIsFresh'
  BY <1>1, <1>2 DEF CountIsFresh
<1>7. QED BY <1>2, <1>5, <1>6 DEF LightIInv, ShownIsMeasured

\* Light that changes, and faults that end, change neither device nor driver.
LEMMA SurroundingsInv ==
  ASSUME LightIInv, LightChanges \/ Heal \/ UNCHANGED lightVars PROVE LightIInv'
<1>1. /\ UNCHANGED <<runtime, errors, absent, probeIn, range, settling, adjust, consecutive,
                     shown, device, since, counted>>
      /\ bright' = bright \/ bright' \in Brightnesses
      /\ good' = good \/ good' = TRUE
  BY DEF LightChanges, Heal, lightVars, app, search, hardware
<1>2. LightTypeOK'
  BY <1>1 DEF LightIInv, ShownIsMeasured, LightTypeOK
<1>3. CountIsFresh'
  BY <1>1 DEF LightIInv, CountIsFresh
<1>4. QED BY <1>1, <1>2, <1>3 DEF LightIInv, ShownIsMeasured

\* What is shown was counted, in full, in the range it was converted with, unless
\* the device is in a range the driver does not know of, and it is gone with the
\* App_DoRetry after the third failure: for every table of ranges whose settling
\* time covers an integration, every limit and every light (veml7700.c:168-281).
THEOREM LightIsMeasured == LightSpec => []ShownIsMeasured
<1>1. LightInit => LightIInv
  BY InitLight
<1>2. LightIInv /\ [LightNext]_lightVars => LightIInv'
  BY ReadSettlingInv, ReadSettledInv, ReadFailsInv, RetryInv, TimePassesInv, SurroundingsInv
     DEF LightNext, ReadLight
<1>3. LightIInv => ShownIsMeasured
  BY DEF LightIInv
<1>4. QED BY <1>1, <1>2, <1>3, PTL DEF LightSpec

=============================================================================
