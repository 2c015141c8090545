---------------------------- MODULE SensorRuntime ---------------------------
(***************************************************************************)
(* What the sensor runtimes (Drivers/*/Src/*_runtime.c) share: their state,*)
(* the transfers on the bus, counted failures and the backoff of absent    *)
(* devices.  One sensor is modelled, of a kind chosen at the start; the    *)
(* modules of the kinds add Start and Poll, and Sensors the super-loop.    *)
(*                                                                         *)
(* Time is counted in ticks of one poll interval, 500 ms: a sensor is      *)
(* polled at most once a tick.  A deadline is the ticks still to wait.     *)
(* Measured values are left out, whether one is held is kept.  So is       *)
(* last_error_class, which only the bus monitor reads (module BusHealth).  *)
(***************************************************************************)
EXTENDS Naturals

CONSTANTS
  Kinds,      \* the kinds of sensor to consider
  Threshold,  \* ..._ERROR_THRESHOLD, 3
  Interval,   \* ticks between two measurements: SHT45 4, SGP41 2, others 10
  Delay,      \* ticks until the answer to a command is due: BMP 4, others 1
  CondMax,    \* SGP41_RUNTIME_CONDITIONING_MAX_MS in conditionings, 10
  Backoff     \* ticks before an absent device is probed again, by absences

ASSUME SensorAssumption ==
  /\ Kinds \subseteq {"SHT45", "SCD41", "SGP41", "BMP"}
  \* Two failures of one poll do not pass the threshold from below it by two.
  /\ Threshold \in Nat /\ Threshold >= 2
  /\ Interval \in Nat \ {0}
  /\ Delay \in Nat \ {0}
  /\ CondMax \in Nat \ {0}
  /\ Backoff \in [1 .. 3 -> Nat]

Stale == 3 * Interval    \* ..._STALE_MS

VARIABLES
  kind,         \* which sensor this is
  state,        \* DeviceState
  phase,        \* the kind's own phase
  valid,        \* last_sample.valid
  age,          \* ticks since last_valid_measurement_ms, up to Stale
  wait,         \* ticks to deadline_ms, stop_settle_deadline_ms, or the end of
                \* the interval that began at started_at_ms
  errors,       \* consecutive_errors
  absent,       \* consecutive_absent, up to 3, where the backoff stays
  probeIn,      \* ticks to next_probe_ms
  conditioned,  \* SGP41: conditioning_ms in conditionings
  sampled,      \* SGP41: a sample was once accepted
  armed,        \* the device has a measurement running or its result
  good,         \* no transfer fails any more (environment)
  room,         \* RoomState: the sensor's values are marked valid
  reset,        \* marked valid since before a bus recovery (history)
  pc            \* place in App_Run

runtime == <<state, phase, valid, age, wait, errors>>
absence == <<absent, probeIn>>
gas == <<conditioned, sampled>>
app == <<room, reset>>
vars == <<kind, runtime, absence, gas, armed, good, app, pc>>

States == {"NOT_FOUND", "STARTING", "WAITING", "READY", "ERROR", "RECOVERING"}
Phases == {"IDLE", "MEASURING", "BETWEEN", "CONDITIONING",
           "SETTLE", "DATA_READY_RESPONSE", "MEASUREMENT_RESPONSE"}

\* The states in which App_Run polls the sensor, app.c:1443-1475.
Operating == state \in {"STARTING", "WAITING", "READY"}

\* ..._HasValidSample
HasValid == valid /\ (kind = "SCD41" => state = "READY")

-----------------------------------------------------------------------------
(* Freshness, transfers and failures.                                      *)

\* Mutant: a sample is trusted as long as the sensor operates.
NeverStale == valid
\* ..._EnforceFreshness: whether the sample is still valid after it.
StillValid == valid /\ age < Stale

\* Outcomes of a bus transfer that the device accepts if possible is TRUE.
Transfers(possible) == {possible} \cup (IF good THEN {} ELSE {FALSE})

Goes(s, p, w) == state' = s /\ phase' = p /\ wait' = w

\* RecordFailure n times, and EscalateError at the threshold; else (s, p).
Fails(n, s, p, inError) ==
  /\ errors' = errors + n
  /\ IF errors' < Threshold
     THEN state' = s /\ phase' = p /\ valid' = StillValid
     ELSE state' = "ERROR" /\ phase' = inError /\ valid' = FALSE

\* Start counts a failure: the state is ERROR at the threshold, else it stays.
StartFails ==
  /\ errors' = errors + 1
  /\ state' = IF errors' < Threshold THEN state ELSE "ERROR"
  /\ UNCHANGED <<phase, valid, age, wait, armed>>

\* A sample is accepted, and RecordSuccess.
Accepts(p) ==
  /\ state' = "READY" /\ phase' = p
  /\ valid' = TRUE /\ age' = 0
  /\ errors' = 0
  /\ UNCHANGED wait

\* A poll that finds nothing due only enforces freshness.
OnlyFreshness == valid' = StillValid /\ UNCHANGED <<state, phase, age, wait, errors, armed>>

-----------------------------------------------------------------------------
(* Presence.                                                               *)

\* RecoveryPolicy_TrackAbsence, as far as BackoffMs tells absences apart.
OneMoreAbsence == IF absent < 3 THEN absent + 1 ELSE 3

\* ..._Start of a device whose backoff is not over, or that does not answer.
NotFound ==
  /\ \/ absent > 0 /\ probeIn > 0 /\ UNCHANGED absence
     \/ /\ absent > 0 => probeIn = 0
        /\ ~good
        /\ absent' = OneMoreAbsence
        /\ probeIn' = Backoff[absent']
  /\ state' = "NOT_FOUND"
  /\ UNCHANGED <<phase, valid, age, wait, errors, gas, armed>>

\* ..._Start of a device that answers the probe.
Found ==
  /\ absent > 0 => probeIn = 0
  /\ absent' = 0
  /\ UNCHANGED probeIn

\* Mutant: the last sample outlives the recovery.
RecoverKeepsSample ==
  /\ errors' = 0
  /\ phase' = IF kind = "SCD41" THEN phase ELSE "IDLE"
  /\ state' = "RECOVERING"
  /\ UNCHANGED <<valid, age, wait, absence, gas, armed>>
\* ..._Recover; the SCD41's leaves the phase.
Recover ==
  /\ errors' = 0
  /\ valid' = FALSE
  /\ phase' = IF kind = "SCD41" THEN phase ELSE "IDLE"
  /\ state' = "RECOVERING"
  /\ UNCHANGED <<age, wait, absence, gas, armed>>

=============================================================================
