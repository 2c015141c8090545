------------------------------ MODULE BusHealth -----------------------------
(***************************************************************************)
(* The shared I2C bus monitor of Platform/Inc/i2c_bus_health.h: it decides *)
(* from the outcomes the sensor runtimes report whether the whole bus is   *)
(* at fault, and App_DoRetry (App/Src/app.c:843-853) then resets the bus.  *)
(*                                                                         *)
(* Each call of the monitor is an action; the millisecond counter wraps    *)
(* and moves between calls.  window_open and window_open_ms are left out:  *)
(* when the window has aged, lines 223-230 re-anchor it and run the very   *)
(* count that line 231 runs anyway, so they reach no decision.  So are     *)
(* never_present, which nothing reads, and the diagnostic counters.        *)
(***************************************************************************)
EXTENDS Integers, FiniteSets

CONSTANTS
  Slots,        \* the device slots that report, 2..6 in the firmware
  ClockHalf,    \* half the range of the millisecond counter, 2^31
  Window,       \* RECOVERY_BUS_WINDOW_MS, 10000
  Cooldown,     \* RECOVERY_BUS_COOLDOWN_MS, 60000
  MaxStep       \* most ticks between two calls

ASSUME BusAssumption ==
  /\ IsFiniteSet(Slots)
  /\ ClockHalf \in Nat
  /\ Window \in Nat \ {0} /\ Window < ClockHalf
  /\ Cooldown \in Nat \ {0}
  /\ MaxStep \in Nat \ {0}
  \* The stretch in which a recovery is eligible is not stepped over.
  /\ Cooldown + MaxStep <= ClockHalf

ClockMod == 2 * ClockHalf
Clock == 0 .. ClockMod - 1
EvidenceMin == 2    \* RECOVERY_BUS_EVIDENCE_MIN

VARIABLES
  last,           \* last_transport_ms: tick of a slot's last transport failure, 0 = none
  healthy,        \* previously_healthy, a latch
  evidence,       \* transport_evidence
  state,          \* I2cBusHealthState
  everRecovered,  \* ever_recovered
  lastRecovery,   \* last_recovery_ms
  now,            \* Platform_GetTickMs()
  age,            \* real ticks since a slot's last counted failure (history)
  quiet,          \* real ticks since the last recovery began (history)
  rolled,         \* the counter came round on a recorded failure (history)
  genuine         \* two once-healthy devices failed within a window (history)

vars == <<last, healthy, evidence, state, everRecovered, lastRecovery, now,
          age, quiet, rolled, genuine>>

\* The outcomes a runtime can report, DRIVER_STATUS_OK included.
Statuses == {"OK", "NOT_FOUND", "BUS_ERROR", "TIMEOUT", "CRC_ERROR", "DEVICE_ERROR"}

\* A history of more ticks than this is as good as none.
LongAgo == ClockMod

TypeOK ==
  /\ last \in [Slots -> Clock]
  /\ healthy \in [Slots -> BOOLEAN]
  /\ evidence \in Nat
  /\ state \in {"OK", "RECOVERING"}
  /\ everRecovered \in BOOLEAN
  /\ lastRecovery \in Clock /\ now \in Clock
  /\ age \in [Slots -> 0 .. LongAgo]
  /\ quiet \in 0 .. Cooldown
  /\ rolled \in BOOLEAN /\ genuine \in BOOLEAN

-----------------------------------------------------------------------------
(* Time.                                                                   *)

Later(t, d) == IF t + d >= ClockMod THEN t + d - ClockMod ELSE t + d
Least(a, b) == IF a <= b THEN a ELSE b

\* (uint32_t)(now - t)
Ticks(t) == IF now >= t THEN now - t ELSE now - t + ClockMod

\* Mutant: instants are compared, which a wrap breaks.
ElapsedFlat(since, wait) == now >= Later(since, wait)
\* RecoveryPolicy_Elapsed: half of the counter's range reads as the future.
Elapsed(since, wait) == Ticks(since) < ClockHalf /\ Ticks(since) >= wait
\* RecoveryPolicy_WindowWithin
Within(t) == Ticks(t) < Window

-----------------------------------------------------------------------------
(* The calls.                                                              *)

Init ==
  /\ last = [s \in Slots |-> 0]
  /\ healthy = [s \in Slots |-> FALSE]
  /\ evidence = 0
  /\ state = "OK"
  /\ everRecovered = FALSE
  /\ lastRecovery = 0
  /\ now \in Clock
  /\ age = [s \in Slots |-> LongAgo]
  /\ quiet = Cooldown
  /\ rolled = FALSE /\ genuine = FALSE

\* I2cBusHealth_MarkHealth(slot, true); with false the call does nothing.
MarkHealth(s) ==
  /\ healthy' = [healthy EXCEPT ![s] = TRUE]
  /\ UNCHANGED <<last, evidence, state, everRecovered, lastRecovery, now, age, quiet, rolled, genuine>>

\* RecoveryPolicy_Classify(status) = FAIL_CLASS_TRANSPORT
IsTransport(status) == status \in {"BUS_ERROR", "TIMEOUT"}

\* Mutant: old failures are counted with the new ones.
StillCountsAll(s, t) == last[t] # 0 \/ t = s
\* I2cBusHealth_CountWithinWindow, once s has failed now: the failures that
\* stay recorded.  A failure at tick 0 reads as none.
StillCounts(s, t) ==
  IF t = s THEN now # 0 ELSE last[t] # 0 /\ Within(last[t])

\* I2cBusHealth_Report of a transport failure of a once-healthy device.  For any
\* other status, and for a device never seen healthy, the call returns before
\* it changes or recounts anything.
Report(s, status) ==
  /\ IsTransport(status)
  /\ healthy[s]
  /\ last' = [t \in Slots |-> IF ~StillCounts(s, t) THEN 0 ELSE IF t = s THEN now ELSE last[t]]
  /\ evidence' = Cardinality({t \in Slots : StillCounts(s, t)})
  /\ state' = IF evidence' >= EvidenceMin THEN "RECOVERING" ELSE state
  /\ age' = [age EXCEPT ![s] = 0]
  /\ genuine' = (genuine \/ \E t \in Slots \ {s} : age[t] < Window)
  /\ UNCHANGED <<healthy, everRecovered, lastRecovery, now, quiet, rolled>>

\* Mutant: two devices are not enough.
RecoveryEligibleLate ==
  /\ state = "RECOVERING"
  /\ evidence > EvidenceMin
  /\ everRecovered => Elapsed(lastRecovery, Cooldown)
\* I2cBusHealth_RecoveryEligible
RecoveryEligible ==
  /\ state = "RECOVERING"
  /\ evidence >= EvidenceMin
  /\ everRecovered => Elapsed(lastRecovery, Cooldown)

\* Mutant: the recorded failures outlive the recovery.
BeginRecoveryKeepsFailures ==
  /\ RecoveryEligible
  /\ everRecovered' = TRUE
  /\ lastRecovery' = now
  /\ state' = "OK"
  /\ evidence' = 0
  /\ age' = [s \in Slots |-> LongAgo]
  /\ quiet' = 0
  /\ rolled' = FALSE /\ genuine' = FALSE
  /\ UNCHANGED <<last, healthy, now>>
\* I2cBusHealth_BeginRecovery, which App_DoRetry calls before I2cBus_Recover.
\* Evidence and state are cleared whether or not the recovery then succeeds.
BeginRecovery ==
  /\ RecoveryEligible
  /\ everRecovered' = TRUE
  /\ lastRecovery' = now
  /\ state' = "OK"
  /\ evidence' = 0
  /\ last' = [s \in Slots |-> 0]
  /\ age' = [s \in Slots |-> LongAgo]
  /\ quiet' = 0
  /\ rolled' = FALSE /\ genuine' = FALSE
  /\ UNCHANGED <<healthy, now>>

\* Time passes.
Tick(d) ==
  /\ now' = Later(now, d)
  /\ age' = [s \in Slots |-> Least(age[s] + d, LongAgo)]
  /\ quiet' = Least(quiet + d, Cooldown)
  /\ rolled' = (rolled \/ \E s \in Slots : last[s] # 0 /\ age[s] + d >= LongAgo)
  /\ UNCHANGED <<last, healthy, evidence, state, everRecovered, lastRecovery, genuine>>

Next ==
  \/ \E s \in Slots : MarkHealth(s)
  \/ \E s \in Slots, status \in Statuses : Report(s, status)
  \/ BeginRecovery
  \/ \E d \in 1 .. MaxStep : Tick(d)

\* Time passes for ever, and a recovery that is eligible again and again is
\* begun: App_DoRetry asks every 5 s, and an eligible stretch lasts 24.8 days.
Fairness ==
  /\ WF_vars(\E d \in 1 .. MaxStep : Tick(d))
  /\ SF_vars(BeginRecovery)

Spec == Init /\ [][Next]_vars /\ Fairness

-----------------------------------------------------------------------------
(* Properties.                                                             *)

\* A recovery is wanted only after two devices, both once seen healthy, have
\* failed on the bus within one window of each other since the last recovery: a
\* single device, a checksum error or an absent sensor never resets the bus
\* (i2c_bus_health.h:16-35).  The exception is a failure so old that the 32-bit
\* counter has come round on it, 49.7 days.
RecoveryIsJustified == state = "RECOVERING" => genuine \/ rolled

\* Two recoveries begin at least a cooldown apart, across any number of wraps
\* (i2c_bus_health.h:37-41).
RecoveriesSpaced == [][BeginRecovery /\ everRecovered => quiet >= Cooldown]_vars

\* Standing evidence does not stand for ever: a recovery takes it away, or a
\* later count does, although half of the counter's range refuses recoveries.
EvidenceIsActedOn == (evidence >= EvidenceMin) ~> (evidence < EvidenceMin)

-----------------------------------------------------------------------------
(* Why the first two hold.                                                 *)

\* Until the cooldown is over, the counter tells the time since the recovery.
RecoveryTimed == everRecovered /\ quiet < Cooldown => Ticks(lastRecovery) = quiet

\* Until it comes round, it tells the age of every recorded failure.
FailuresTimed == ~rolled => \A s \in Slots : last[s] # 0 => Ticks(last[s]) = age[s]

IInv ==
  /\ TypeOK
  /\ RecoveryIsJustified
  /\ RecoveryTimed
  /\ FailuresTimed
=============================================================================
