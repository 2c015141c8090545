------------------------------- MODULE Sensors ------------------------------
(***************************************************************************)
(* A sensor in the super-loop: App_Run (App/Src/app.c) counts ticks, calls *)
(* App_DoRetry now and then, polls the runtime and copies its validity into*)
(* the room state.  The bus monitor's recovery of the whole bus is an      *)
(* action of the environment that comes at the beginning of App_DoRetry.   *)
(***************************************************************************)
EXTENDS Sht45Runtime, Scd41Runtime, Sgp41Runtime, BmpRuntime

TypeOK ==
  /\ kind \in Kinds
  /\ state \in States /\ phase \in Phases
  /\ valid \in BOOLEAN
  /\ age \in 0 .. Stale
  /\ wait \in Nat
  /\ errors \in 0 .. Threshold
  /\ absent \in 0 .. 3 /\ probeIn \in Nat
  /\ conditioned \in 0 .. CondMax /\ sampled \in BOOLEAN
  /\ armed \in BOOLEAN /\ good \in BOOLEAN
  /\ room \in BOOLEAN /\ reset \in BOOLEAN
  /\ pc \in {"idle", "due", "switch", "poll"}

\* A device may have kept measuring across a reboot.
Init ==
  /\ kind \in Kinds
  /\ state = "NOT_FOUND" /\ phase = "IDLE"
  /\ valid = FALSE /\ age = Stale /\ wait = 0 /\ errors = 0
  /\ absent = 0 /\ probeIn = 0
  /\ conditioned = 0 /\ sampled = FALSE
  /\ armed \in BOOLEAN /\ good = FALSE
  /\ room = FALSE /\ reset = FALSE
  /\ pc = "idle"

-----------------------------------------------------------------------------
(* The super-loop.                                                         *)

OneLess(n) == IF n > 0 THEN n - 1 ELSE 0

\* A poll interval passes, and the sensor's turn comes.
Tick ==
  /\ pc = "idle"
  /\ age' = IF age < Stale THEN age + 1 ELSE Stale
  /\ wait' = OneLess(wait)
  /\ probeIn' = OneLess(probeIn)
  /\ pc' = "due"
  /\ UNCHANGED <<kind, state, phase, valid, errors, absent, gas, armed, good, app>>

\* App_DoRetry has recovered the bus, app.c:852-874: every runtime's sample is
\* invalidated and no value of the room state.
BusRecovery ==
  /\ pc = "due"
  /\ ~good
  /\ Recover
  /\ reset' = room
  /\ pc' = "switch"
  /\ UNCHANGED <<kind, good, room>>

\* ..._Start
Start ==
  \/ NotFound
  \/ /\ Found
     /\ \/ kind = "SHT45" /\ StartSht45 /\ UNCHANGED gas
        \/ kind = "SCD41" /\ StartScd41 /\ UNCHANGED gas
        \/ kind = "BMP" /\ StartBmp /\ UNCHANGED gas
        \/ kind = "SGP41" /\ StartSgp41

\* Mutant: only an absent sensor is started.
RetryOnlyAbsent ==
  /\ pc \in {"due", "switch"}
  /\ \/ state = "NOT_FOUND" /\ Start /\ UNCHANGED app
     \/ state = "ERROR" /\ Recover /\ room' = FALSE /\ reset' = FALSE
     \/ state \notin {"NOT_FOUND", "ERROR"} /\ UNCHANGED <<runtime, absence, gas, armed, app>>
  /\ pc' = "poll"
  /\ UNCHANGED <<kind, good>>
\* App_DoRetry, app.c:930-1030.  (The BMP380's values are invalidated a little
\* later in the same pass, by App_CommitBarometricRoomState.)
Retry ==
  /\ pc \in {"due", "switch"}
  /\ \/ state \in {"NOT_FOUND", "RECOVERING"} /\ Start /\ UNCHANGED app
     \/ state = "ERROR" /\ Recover /\ room' = FALSE /\ reset' = FALSE
     \/ Operating /\ UNCHANGED <<runtime, absence, gas, armed, app>>
  /\ pc' = "poll"
  /\ UNCHANGED <<kind, good>>

\* Mutant: only a new sample is copied, and no loss of one.
CommitsNewOnly == room' = (room \/ HasValid') /\ reset' = (reset /\ ~HasValid')
\* App_DoPoll..., after the poll: what had a valid sample and has none is
\* invalidated, what has one is valid; App_CommitBarometricRoomState copies
\* the pressure's validity as it is.
Commits ==
  /\ room' = \/ HasValid'
             \/ room /\ ~HasValid /\ kind # "BMP"
  /\ reset' = (reset /\ room' /\ ~HasValid')

\* The sensor's part of App_Run once App_DoRetry has had its turn.
Poll ==
  /\ pc \in {"due", "poll"}
  /\ UNCHANGED <<kind, absence, good>>
  /\ \/ Operating /\ kind = "SHT45" /\ PollSht45 /\ UNCHANGED gas /\ Commits
     \/ Operating /\ kind = "SCD41" /\ PollScd41 /\ UNCHANGED gas /\ Commits
     \/ Operating /\ kind = "BMP" /\ PollBmp /\ UNCHANGED gas /\ Commits
     \/ Operating /\ kind = "SGP41" /\ PollSgp41 /\ Commits
     \/ /\ ~Operating
        /\ UNCHANGED <<runtime, gas, armed>>
        /\ IF kind = "BMP" THEN Commits ELSE UNCHANGED app
  /\ pc' = "idle"

-----------------------------------------------------------------------------
(* The environment.                                                        *)

\* A device loses its power or its command, or an unacknowledged one reaches it.
Glitch ==
  /\ ~good
  /\ armed' = ~armed
  /\ UNCHANGED <<kind, runtime, absence, gas, good, app, pc>>

\* From now on the device is there, and no transfer fails.
Heal ==
  /\ ~good /\ good' = TRUE
  /\ UNCHANGED <<kind, runtime, absence, gas, armed, app, pc>>

Next == Tick \/ BusRecovery \/ Retry \/ Poll \/ Glitch \/ Heal

\* The loop goes on, App_DoRetry is called again and again (retry_period_ms),
\* and a measuring SCD41 asked again and again has data once.
Fairness ==
  /\ WF_vars(Tick)
  /\ WF_vars(Poll)
  /\ SF_vars(Retry)
  /\ SF_vars(Poll /\ kind = "SCD41" /\ FindScd41)

Spec == Init /\ [][Next]_vars /\ Fairness

-----------------------------------------------------------------------------
(* Properties.                                                             *)

\* A sample is trusted only while its sensor operates: one that was lost, is in
\* error or is being recovered holds no valid sample.
TrustedOnlyWhileOperating == valid => Operating

\* A sensor is in error exactly when as many failures as the threshold have come
\* since a sample, a recovery or a start of the SCD41's measurement last reset their
\* count: none is taken after that, and none before leads there.  They need not come in
\* a row: an SGP41 conditioning that succeeds resets nothing (sgp41_runtime.c:282-303).
ErrorMeansThreshold == state = "ERROR" <=> errors >= Threshold

\* What the room state marks valid is a valid sample of the runtime, and the
\* other way round, except what was marked before a bus recovery.
RoomFollowsRuntime == (HasValid => room) /\ (room => HasValid \/ reset)

\* At the end of every pass, when displays and telemetry read it, the room state
\* shows no value older than the stale timeout, with the same exception.
NothingStaleIsShown == pc = "idle" /\ room => reset \/ age < Stale

\* A sensor that works again gives a sample again, whatever has happened,
\* except from the states no call leads out of.
Lost ==
  \/ kind = "SHT45" /\ LostSht45
  \/ kind = "SCD41" /\ LostScd41
  \/ kind = "SGP41" /\ LostSgp41
  \/ kind = "BMP" /\ LostBmp
ComesBack == good ~> (HasValid \/ Lost)

\* As the headers have it: a sensor that works again gives a sample again.
AlwaysComesBack == good ~> HasValid

\* As App_DoRetry has it (app.c:869-873): after a bus recovery no value is
\* trusted before a fresh sample.
OnlyTrustedIsShown == pc = "idle" /\ room => HasValid

-----------------------------------------------------------------------------
(* The inductive invariant.                                                *)

\* The SCD41's sample goes with READY.
ValidIsReady == kind = "SCD41" /\ valid => state = "READY"

\* What is shown since before a bus recovery has no sample.
ResetIsShown == reset => room /\ ~HasValid

\* A conditioning is begun only within the budget.
WithinBudget == kind = "SGP41" /\ phase = "CONDITIONING" => conditioned < CondMax

IInv ==
  /\ TypeOK
  /\ TrustedOnlyWhileOperating
  /\ ErrorMeansThreshold
  /\ RoomFollowsRuntime
  /\ NothingStaleIsShown
  /\ ValidIsReady
  /\ ResetIsShown
  /\ WithinBudget
=============================================================================
