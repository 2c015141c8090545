----------------------------- MODULE LightSensor ----------------------------
(***************************************************************************)
(* The light sensor: the driver that looks for a range in which it counts  *)
(* neither too little nor too much (Drivers/veml7700/Src/veml7700.c), and  *)
(* what App_DoRetry and App_DoReadLight (App/Src/app.c) make of it.        *)
(*                                                                         *)
(* A brightness is the count of it in the most sensitive range.  Of the    *)
(* counter that gives the time only differences are used, over less than   *)
(* its range, so ages stand for instants.  "initialized" is left out: the  *)
(* driver is initialized whenever the state is READY, so that neither the  *)
(* refusal of an uninitialized driver (veml7700.c:155) nor app.c:903 is    *)
(* ever taken.  Calibration, persistence and statistics decide nothing.    *)
(***************************************************************************)
EXTENDS Integers, FiniteSetsExt

CONSTANTS
  RangeCount,        \* VEML7700_RANGE_COUNT, 10
  StartRange,        \* the range Init applies, 4
  Resolution,        \* [range -> brightness per count]; range 0 is the least sensitive
  IntegrationTime,   \* [range -> ticks until a count is complete]
  Low, High,         \* VEML7700_RANGE_LOW, _HIGH: 80, 12000
  Saturation,        \* VEML7700_RANGE_SATURATION, 64000
  MaxCount,          \* the count register's limit, 65535
  Converge,          \* VEML7700_RANGE_CONVERGE, 3
  Threshold,         \* CONSECUTIVE_ERROR_THRESHOLD, 3
  Backoff,           \* ticks before an absent sensor is probed again, by absences
  LongSince,         \* a time after which a configuration is as good as old
  Brightnesses       \* the light there may be

Ranges == 0 .. RangeCount - 1

\* Mutant: the settling ends with the integration time halved.
SettleHalf(r) == IntegrationTime[r] \div 2
\* settle_duration_ms
Settle(r) == (3 * IntegrationTime[r]) \div 2

ASSUME LightAssumption ==
  /\ RangeCount \in Nat \ {0} /\ StartRange \in Ranges
  /\ Resolution \in [Ranges -> Nat \ {0}] /\ IntegrationTime \in [Ranges -> Nat \ {0}]
  /\ {Low, High, Saturation, MaxCount} \subseteq Nat
  /\ Low < High /\ High < Saturation /\ Saturation <= MaxCount
  /\ Converge \in Nat \ {0} /\ Threshold \in Nat \ {0}
  /\ Backoff \in [1 .. 3 -> Nat]
  /\ LongSince \in Nat
  /\ \A r \in Ranges : Settle(r) <= LongSince /\ IntegrationTime[r] <= LongSince
  /\ Brightnesses \subseteq Nat

VARIABLES
  runtime,      \* s_light_rt.state, between two calls
  errors,       \* consecutive_errors, up to the threshold
  absent,       \* s_veml_absent, up to 3, where the backoff stays
  probeIn,      \* ticks to s_veml_next_probe_ms
  range,        \* range_index
  settling,     \* range_state
  adjust,       \* pending_adjust
  consecutive,  \* range_consecutive
  shown,        \* the room state's illuminance: "none" while not valid
  device,       \* the range the device is configured with
  since,        \* ticks since it was, up to LongSince
  counted,      \* the range in which the count it holds was taken
  bright,       \* the light
  good          \* no transfer fails, and the light stays as it is, from now on

app == <<runtime, errors, absent, probeIn>>
search == <<range, settling, adjust, consecutive>>
hardware == <<device, since>>
lightVars == <<app, search, shown, hardware, counted, bright, good>>

\* The device may be configured from before a reset of the processor.
LightInit ==
  /\ runtime = "NOT_FOUND" /\ errors = 0 /\ absent = 0 /\ probeIn = 0
  /\ range = 0 /\ settling = FALSE /\ adjust = "NONE" /\ consecutive = 0
  /\ shown = "none"
  /\ device \in Ranges /\ since = LongSince /\ counted = device
  /\ bright \in Brightnesses
  /\ good = FALSE

-----------------------------------------------------------------------------
(* The driver.                                                             *)

\* VEML7700_ApplyIndex.  The device takes the configuration with the write; a read
\* that fails, or reads back something else, leaves the driver with the old one.
Applied(r) == device' = r /\ since' = 0 /\ range' = r
NotApplied(r) == ~good /\ (UNCHANGED hardware \/ (device' = r /\ since' = 0))

\* VEML7700_EnterSettling
EnterSettling == settling' = TRUE /\ adjust' = "NONE" /\ consecutive' = 0

\* VEML7700_SetLessSensitive and VEML7700_SetMoreSensitive.
Neighbour(want) == IF want = "LESS" THEN range - 1 ELSE range + 1
Moves(want) == Neighbour(want) \in Ranges /\ Applied(Neighbour(want)) /\ EnterSettling
Stays(want) ==
  /\ UNCHANGED range /\ settling' = FALSE
  /\ IF Neighbour(want) \in Ranges THEN NotApplied(Neighbour(want)) ELSE UNCHANGED hardware

Counts(r) == Min({MaxCount, bright \div Resolution[r]})

\* A count multiplied by the resolution of the range the driver believes in: the
\* light, unless the device is in another range ("misread") or something is amiss.
Lux ==
  LET lux == Counts(counted) * Resolution[range]
  IN  IF lux <= bright /\ bright < lux + Resolution[range] THEN "right"
      ELSE IF device # range THEN "misread" ELSE "wrong"

\* Mutant: a count is too high where, one range up, it would be too low.
WantedNarrow(count) ==
  IF count < Low THEN "MORE" ELSE IF count > Low + Low \div 2 THEN "LESS" ELSE "NONE"
Wanted(count) == IF count < Low THEN "MORE" ELSE IF count > High THEN "LESS" ELSE "NONE"

\* VEML7700_ReadWithAutoRange of a count, once settled, and what App_DoReadLight
\* shows of it.  Errors are forgotten with a valid sample only.
Saturated ==
  /\ Counts(counted) >= Saturation
  /\ Moves("LESS") \/ (Stays("LESS") /\ UNCHANGED <<adjust, consecutive>>)
  /\ shown' = "none" /\ UNCHANGED errors

Measured ==
  /\ Counts(counted) < Saturation
  /\ LET want == Wanted(Counts(counted))
         times == IF want = "NONE" THEN 0 ELSE IF want = adjust THEN consecutive + 1 ELSE 1
         enough == want # "NONE" /\ times >= Converge
     IN  \/ enough /\ Moves(want) /\ shown' = "none" /\ UNCHANGED errors
         \/ /\ enough /\ Stays(want)
            /\ adjust' = "NONE" /\ consecutive' = 0
            /\ shown' = Lux /\ errors' = 0
         \/ /\ ~enough /\ UNCHANGED <<hardware, range>>
            /\ settling' = FALSE /\ adjust' = want /\ consecutive' = times
            /\ shown' = Lux /\ errors' = 0

-----------------------------------------------------------------------------
(* The super-loop, and time.                                               *)

OneMoreError == errors' = Min({errors + 1, Threshold})

\* App_DoReadLight
ReadSettling ==
  /\ settling /\ since < Settle(range)
  /\ shown' = "none"
  /\ UNCHANGED <<app, search, hardware>>

ReadSettled ==
  /\ settling => since >= Settle(range)
  /\ Saturated \/ Measured
  /\ UNCHANGED <<runtime, absent, probeIn>>

ReadFails ==
  /\ ~good
  /\ OneMoreError
  /\ runtime' = IF errors' >= Threshold THEN "ERROR" ELSE runtime
  /\ UNCHANGED <<absent, probeIn, search, shown, hardware>>

ReadLight ==
  /\ runtime = "READY"
  /\ ReadSettling \/ ReadSettled \/ ReadFails
  /\ UNCHANGED <<counted, bright, good>>

\* App_DoInitVeml: the driver is cleared, and begins in StartRange.
InitVeml ==
  \/ /\ Applied(StartRange) /\ EnterSettling
     /\ runtime' = "READY" /\ errors' = 0
  \/ /\ NotApplied(StartRange)
     /\ range' = 0 /\ settling' = FALSE /\ adjust' = "NONE" /\ consecutive' = 0
     /\ runtime' = "ERROR" /\ OneMoreError

\* App_DoProbeVeml; absences are those the recovery of the bus has not cleared.
Probe(absences) ==
  \/ /\ absences > 0 /\ probeIn > 0
     /\ runtime' = "NOT_FOUND"
     /\ UNCHANGED <<absent, probeIn, errors, search, hardware>>
  \/ /\ absences > 0 => probeIn = 0
     /\ \/ absent' = 0 /\ UNCHANGED probeIn /\ InitVeml
        \/ /\ ~good
           /\ absent' = Min({absences + 1, 3})
           /\ probeIn' = Backoff[absent']
           /\ runtime' = "NOT_FOUND"
           /\ UNCHANGED <<errors, search, hardware>>

\* Mutant: an error is not left.
RetryAbsent ==
  /\ runtime = "NOT_FOUND" /\ Probe(absent) /\ shown' = "none"
  /\ UNCHANGED <<counted, bright, good>>
\* The light sensor's part of App_DoRetry, which may have recovered the bus.  The
\* states PROBING and INITIALIZING are left in the call that enters them.
Retry ==
  /\ \/ ~good /\ Probe(0)
     \/ runtime \in {"NOT_FOUND", "RECOVERING"} /\ Probe(absent)
     \/ /\ runtime = "ERROR" /\ runtime' = "RECOVERING"
        /\ UNCHANGED <<errors, absent, probeIn, search, hardware>>
  /\ shown' = "none"
  /\ UNCHANGED <<counted, bright, good>>

\* Time passes, and an integration is complete.
TimePasses ==
  /\ since' = Min({since + 1, LongSince})
  /\ counted' = IF since' >= IntegrationTime[device] THEN device ELSE counted
  /\ probeIn' = IF probeIn > 0 THEN probeIn - 1 ELSE 0
  /\ UNCHANGED <<runtime, errors, absent, search, shown, device, bright, good>>

LightChanges ==
  /\ ~good
  /\ bright' \in Brightnesses
  \* What is shown was measured before.
  /\ UNCHANGED <<app, search, shown, hardware, counted, good>>

Heal ==
  /\ ~good /\ good' = TRUE
  /\ UNCHANGED <<app, search, shown, hardware, counted, bright>>

LightNext == ReadLight \/ Retry \/ TimePasses \/ LightChanges \/ Heal

\* The super-loop reads every light_period_ms and retries every retry_period_ms.
LightSpec ==
  /\ LightInit /\ [][LightNext]_lightVars
  /\ WF_lightVars(ReadLight) /\ WF_lightVars(Retry) /\ WF_lightVars(TimePasses)

-----------------------------------------------------------------------------
(* Properties.                                                             *)

LightTypeOK ==
  /\ runtime \in {"NOT_FOUND", "READY", "ERROR", "RECOVERING"}
  /\ errors \in 0 .. Threshold /\ absent \in 0 .. 3 /\ probeIn \in Nat
  /\ range \in Ranges /\ settling \in BOOLEAN
  /\ adjust \in {"NONE", "LESS", "MORE"} /\ consecutive \in 0 .. Converge - 1
  /\ shown \in {"none", "right", "misread", "wrong"}
  /\ device \in Ranges /\ since \in 0 .. LongSince /\ counted \in Ranges
  /\ bright \in Brightnesses /\ good \in BOOLEAN

\* A value that is shown was counted, in full, in the range whose resolution it was
\* multiplied with, and was not cut off by the register (veml7700.c:173: no
\* decision on stale data), however ranges change and transfers fail; the exception
\* is a device that is not in the range the driver believes in.  And after the third
\* failure it is shown until the next App_DoRetry and no longer (app.c:901).
ShownIsMeasured ==
  /\ LightTypeOK
  /\ shown # "wrong"
  /\ shown # "none" => runtime = "READY" \/ (runtime = "ERROR" /\ errors = Threshold)

\* In steady light the search for a range ends, whatever came before, and the light
\* is shown for good (veml7700.c:198-272): neither the hysteresis nor a sensor that
\* was lost leaves it hunting.  Excepted is light too bright for the least sensitive
\* range, and a device a failed read-back has left one range above that one: the
\* driver, believing in range 0, has no less sensitive range to apply.
TooBright == Counts(0) >= Saturation
Stranded == range = 0 /\ device # 0 /\ Counts(device) >= Saturation
LightIsShown == <>good => <>[](shown # "none" \/ TooBright \/ Stranded)

\* "Compute valid lux (current config unchanged)" (veml7700.c:274).
ConfigUnchanged == shown # "misread"

=============================================================================
