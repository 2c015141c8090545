---------------------------- MODULE SensorsProofs ---------------------------
(* Proofs about Sensors, for any intervals, delays, thresholds and backoff. *)
EXTENDS Sensors, TLAPS

\* What a poll, and each of its steps, gives back.
Kept ==
  /\ state' \in States /\ phase' \in Phases
  /\ valid' \in BOOLEAN /\ age' \in 0 .. Stale /\ wait' \in Nat
  /\ errors' \in 0 .. Threshold
  /\ armed' \in BOOLEAN
  /\ state' = "ERROR" <=> errors' >= Threshold
  /\ valid' => state' \in {"STARTING", "WAITING", "READY"} /\ age' < Stale

GasKept ==
  /\ conditioned' \in 0 .. CondMax /\ sampled' \in BOOLEAN
  /\ phase' = "CONDITIONING" => conditioned' < CondMax

\* The runtime's part of the invariant while it operates.
Running ==
  /\ Operating /\ phase \in Phases
  /\ valid \in BOOLEAN /\ age \in 0 .. Stale /\ wait \in Nat
  /\ errors \in 0 .. Threshold /\ errors < Threshold
  /\ conditioned \in 0 .. CondMax /\ sampled \in BOOLEAN
  /\ armed \in BOOLEAN /\ good \in BOOLEAN

-----------------------------------------------------------------------------
(* The shared steps.                                                       *)

LEMMA StaleIsNat == Stale \in Nat /\ Stale > 0
  BY SensorAssumption DEF SensorAssumption, Stale

LEMMA Outcomes == ASSUME NEW possible \in BOOLEAN PROVE Transfers(possible) \subseteq BOOLEAN
  BY DEF Transfers

\* n counted failures that do not pass the threshold by more than one.
LEMMA FailsKeeps ==
  ASSUME Running, NEW n \in {1, 2}, errors + n <= Threshold,
         NEW s \in {"STARTING", "WAITING", "READY"}, NEW p \in Phases, NEW e \in Phases,
         Fails(n, s, p, e), age' = age, wait' \in Nat, armed' \in BOOLEAN
  PROVE  Kept /\ (state' \in {s, "ERROR"}) /\ (valid' => state' = s)
<1> USE SensorAssumption, StaleIsNat DEF SensorAssumption
<1>1. errors' = errors + n /\ errors' \in 0 .. Threshold
  BY DEF Running, Fails
<1>2. CASE errors' < Threshold
  <2>1. state' = s /\ phase' = p /\ valid' = StillValid
    BY <1>2 DEF Fails
  <2>2. valid' \in BOOLEAN /\ (valid' => age' < Stale)
    BY <2>1, ZenonT(30) DEF StillValid
  <2>3. state' \in States /\ state' # "ERROR" /\ state' \in {"STARTING", "WAITING", "READY"}
    BY <2>1 DEF States
  <2>4. ~(errors' >= Threshold)
    BY <1>1, <1>2
  <2>5. phase' \in Phases /\ age' \in 0 .. Stale
    BY <2>1 DEF Running
  <2> QED
    BY <1>1, <2>1, <2>2, <2>3, <2>4, <2>5 DEF Kept
<1>3. CASE ~(errors' < Threshold)
  <2>1. state' = "ERROR" /\ phase' = e /\ valid' = FALSE
    BY <1>3 DEF Fails
  <2>2. age' \in 0 .. Stale /\ errors' >= Threshold
    BY <1>1, <1>3 DEF Running
  <2> QED
    BY <1>1, <2>1, <2>2 DEF Kept, States
<1> QED
  BY <1>2, <1>3

LEMMA AcceptsKeeps ==
  ASSUME Running, NEW p \in Phases, Accepts(p), armed' \in BOOLEAN
  PROVE  Kept /\ state' = "READY"
  BY SensorAssumption, StaleIsNat DEF SensorAssumption, Running, Accepts, Kept, States

\* A poll that counts no failure, or one below the threshold.
LEMMA GoesKeeps ==
  ASSUME Running, state' \in {"STARTING", "WAITING", "READY"}, phase' \in Phases, wait' \in Nat,
         valid' = StillValid, age' = age, armed' \in BOOLEAN,
         errors' \in {0, errors, errors + 1}, errors' < Threshold
  PROVE  Kept
<1> USE SensorAssumption, StaleIsNat DEF SensorAssumption
<1>1. valid' \in BOOLEAN /\ (valid' => age' < Stale)
  BY ZenonT(30) DEF StillValid
<1>2. age' \in 0 .. Stale
  BY DEF Running
<1>3. errors' \in 0 .. Threshold /\ ~(errors' >= Threshold)
  BY DEF Running
<1>4. state' \in States /\ state' # "ERROR"
  BY DEF States
<1> QED
  BY <1>1, <1>2, <1>3, <1>4 DEF Kept

LEMMA FreshnessKeeps ==
  ASSUME Running, OnlyFreshness
  PROVE  Kept
<1>1. state' \in {"STARTING", "WAITING", "READY"} /\ errors' = errors /\ errors < Threshold
  BY DEF Running, OnlyFreshness, Operating
<1> QED
  BY <1>1, GoesKeeps DEF Running, OnlyFreshness

-----------------------------------------------------------------------------
(* The polls.                                                              *)

LEMMA PollSht45Keeps ==
  ASSUME Running, PollSht45
  PROVE  Kept
<1> USE SensorAssumption DEF SensorAssumption
<1>0. "IDLE" \in Phases /\ "BETWEEN" \in Phases /\ "MEASURING" \in Phases
  BY DEF Phases
<1>1. ASSUME Measures PROVE state' = "STARTING" /\ phase' = "MEASURING" /\ wait' \in Nat /\ armed' = TRUE
  BY <1>1 DEF Measures, Goes
<1>2. CASE ReadSht45
  <2>1. PICK answer \in Answers :
          \/ /\ answer = "OK"
             /\ Accepts("BETWEEN")
             /\ armed' = FALSE
          \/ /\ answer = "OTHER" \/ (answer = "BUS_ERROR" /\ errors + 1 >= Threshold)
             /\ Fails(1, "STARTING", "IDLE", "IDLE")
             /\ UNCHANGED <<age, wait, armed>>
          \/ /\ answer = "BUS_ERROR" /\ errors + 1 < Threshold
             /\ \E ok \in Transfers(TRUE) :
                  \/ /\ ok /\ Measures
                     /\ errors' = errors + 1 /\ valid' = StillValid
                     /\ UNCHANGED age
                  \/ /\ ~ok /\ Fails(2, "STARTING", "IDLE", "IDLE")
                     /\ UNCHANGED <<age, wait, armed>>
    BY <1>2 DEF ReadSht45
  <2>2. CASE Accepts("BETWEEN") /\ armed' = FALSE
    BY <1>0, <2>2, AcceptsKeeps
  <2>3. CASE Fails(1, "STARTING", "IDLE", "IDLE") /\ UNCHANGED <<age, wait, armed>>
    <3>1. errors + 1 <= Threshold /\ age' = age /\ wait' \in Nat /\ armed' \in BOOLEAN
      BY <2>3 DEF Running
    <3> QED
      BY <1>0, <2>3, <3>1, FailsKeeps
  <2>4. CASE errors + 1 < Threshold /\ Measures /\ errors' = errors + 1 /\ valid' = StillValid /\ UNCHANGED age
    BY <1>0, <1>1, <2>4, GoesKeeps
  <2>5. CASE errors + 1 < Threshold /\ Fails(2, "STARTING", "IDLE", "IDLE") /\ UNCHANGED <<age, wait, armed>>
    <3>1. errors + 2 <= Threshold /\ age' = age /\ wait' \in Nat /\ armed' \in BOOLEAN
      BY <2>5 DEF Running
    <3> QED
      BY <1>0, <2>5, <3>1, FailsKeeps
  <2> QED
    BY <2>1, <2>2, <2>3, <2>4, <2>5
<1>3. CASE NextSht45
  <2>1. \/ Measures /\ valid' = StillValid /\ UNCHANGED <<age, errors>>
        \/ Fails(1, "READY", "BETWEEN", "IDLE") /\ UNCHANGED <<age, wait, armed>>
    BY <1>3 DEF NextSht45
  <2>2. CASE Measures /\ valid' = StillValid /\ UNCHANGED <<age, errors>>
    <3>1. errors' < Threshold
      BY <2>2 DEF Running
    <3> QED
      BY <1>0, <1>1, <2>2, <3>1, GoesKeeps
  <2>3. CASE Fails(1, "READY", "BETWEEN", "IDLE") /\ UNCHANGED <<age, wait, armed>>
    <3>1. errors + 1 <= Threshold /\ age' = age /\ wait' \in Nat /\ armed' \in BOOLEAN
      BY <2>3 DEF Running
    <3> QED
      BY <1>0, <2>3, <3>1, FailsKeeps
  <2> QED
    BY <2>1, <2>2, <2>3
<1>4. CASE OnlyFreshness
  BY <1>4, FreshnessKeeps
<1> QED
  BY <1>2, <1>3, <1>4 DEF PollSht45

LEMMA PollBmpKeeps ==
  ASSUME Running, PollBmp
  PROVE  Kept
<1> USE SensorAssumption DEF SensorAssumption
<1>0. "IDLE" \in Phases /\ "BETWEEN" \in Phases /\ "MEASURING" \in Phases
  BY DEF Phases
<1>1. ASSUME Triggers PROVE state' = "STARTING" /\ phase' = "MEASURING" /\ wait' \in Nat /\ armed' = TRUE
  BY <1>1 DEF Triggers, Goes
<1>2. errors + 1 <= Threshold /\ armed \in BOOLEAN /\ wait \in Nat /\ Delay \in Nat
  BY DEF Running
<1>3. CASE ReadBmp
  <2>1. CASE armed /\ Accepts("BETWEEN") /\ armed' = FALSE
    BY <1>0, <2>1, AcceptsKeeps
  <2>2. CASE valid' = StillValid /\ wait' = Delay /\ UNCHANGED <<state, phase, age, errors, armed>>
    <3>1. state' = "STARTING" /\ phase' = "MEASURING" /\ errors' < Threshold
      BY <1>3, <2>2 DEF ReadBmp, Running
    <3> QED
      BY <1>0, <1>2, <2>2, <3>1, GoesKeeps
  <2>3. CASE Fails(1, "STARTING", "MEASURING", "MEASURING") /\ wait' = Delay /\ UNCHANGED <<age, armed>>
    BY <1>0, <1>2, <2>3, FailsKeeps
  <2>4. CASE Retriggers
    <3>1. CASE Fails(1, "STARTING", "MEASURING", "IDLE") /\ armed' = FALSE /\ UNCHANGED <<age, wait>>
      BY <1>0, <1>2, <3>1, FailsKeeps
    <3>2. CASE errors + 1 < Threshold /\ Triggers /\ errors' = errors + 1 /\ valid' = StillValid /\ UNCHANGED age
      BY <1>0, <1>1, <3>2, GoesKeeps
    <3>3. CASE errors + 1 < Threshold /\ Fails(2, "STARTING", "MEASURING", "IDLE") /\ armed' = FALSE /\ UNCHANGED <<age, wait>>
      <4>1. errors + 2 <= Threshold
        BY <3>3 DEF Running
      <4> QED
        BY <1>0, <1>2, <3>3, <4>1, FailsKeeps
    <3> QED
      BY <2>4, <3>1, <3>2, <3>3 DEF Retriggers
  <2> QED
    BY <1>3, <2>1, <2>2, <2>3, <2>4 DEF ReadBmp
<1>4. CASE NextBmp
  <2>1. CASE Triggers /\ valid' = StillValid /\ UNCHANGED <<age, errors>>
    <3>1. errors' < Threshold
      BY <2>1 DEF Running
    <3> QED
      BY <1>0, <1>1, <2>1, <3>1, GoesKeeps
  <2>2. CASE Fails(1, "READY", "BETWEEN", "BETWEEN") /\ UNCHANGED <<age, wait, armed>>
    BY <1>0, <1>2, <2>2, FailsKeeps
  <2> QED
    BY <1>4, <2>1, <2>2 DEF NextBmp
<1>5. CASE OnlyFreshness
  BY <1>5, FreshnessKeeps
<1> QED
  BY <1>3, <1>4, <1>5 DEF PollBmp

\* The SCD41's also keeps its sample to READY, and STARTING has none.
LEMMA PollScd41Keeps ==
  ASSUME Running, valid => state = "READY", PollScd41
  PROVE  Kept /\ (valid' => state' = "READY")
<1> USE SensorAssumption DEF SensorAssumption
<1>0. "IDLE" \in Phases /\ "DATA_READY_RESPONSE" \in Phases /\ "MEASUREMENT_RESPONSE" \in Phases
  BY DEF Phases
<1>1. /\ errors + 1 <= Threshold /\ errors < Threshold /\ armed \in BOOLEAN /\ wait \in Nat
      /\ Delay \in Nat /\ Interval \in Nat /\ phase \in Phases /\ 0 < Threshold
  BY DEF Running
<1>2. ASSUME state = "STARTING" PROVE valid = FALSE /\ StillValid = FALSE
  BY <1>2 DEF Running, StillValid
<1>3. ASSUME Periodic("STARTING", "IDLE"), state = "STARTING", UNCHANGED <<valid, age>>
      PROVE  Kept /\ (valid' => state' = "READY")
  <2>1. state' = "STARTING" /\ phase' = "IDLE" /\ wait' \in Nat /\ armed' = TRUE /\ errors' = 0
    BY <1>1, <1>3 DEF Periodic, Goes
  <2> QED
    BY <1>0, <1>1, <1>2, <1>3, <2>1, GoesKeeps
<1>4. ASSUME state \in {"WAITING", "READY"}
      PROVE  FreshState \in {"WAITING", "READY"} /\ (StillValid => FreshState = "READY")
  BY <1>4, StaleIsNat DEF Running, FreshState, StillValid
<1>5. ASSUME state \in {"WAITING", "READY"}, NEW p \in Phases, NEW w \in Nat, Proceeds(p, w)
      PROVE  Kept /\ (valid' => state' = "READY")
  <2>1. state' = FreshState /\ phase' = p /\ wait' = w /\ valid' = StillValid
        /\ age' = age /\ errors' = errors /\ armed' = armed
    BY <1>5 DEF Proceeds, Goes
  <2>2. Kept
    BY <1>1, <1>4, <1>5, <2>1, GoesKeeps
  <2> QED
    BY <1>4, <1>5, <2>1, <2>2
<1>6. ASSUME state \in {"WAITING", "READY"}, Refused
      PROVE  Kept /\ (valid' => state' = "READY")
  <2>1. FreshState \in {"STARTING", "WAITING", "READY"}
    BY <1>4, <1>6
  <2>2. Kept /\ (valid' => state' = FreshState)
    BY <1>0, <1>1, <1>6, <2>1, FailsKeeps DEF Refused
  <2>3. valid' => StillValid
    BY <1>6 DEF Refused, Fails
  <2> QED
    BY <1>4, <1>6, <2>2, <2>3
<1>7. CASE RestartScd41
  <2>1. CASE Periodic("STARTING", "IDLE") /\ UNCHANGED <<valid, age>>
    BY <1>3, <1>7, <2>1 DEF RestartScd41
  <2>2. CASE Fails(1, "STARTING", "IDLE", "IDLE") /\ wait' \in 0 .. Interval /\ UNCHANGED <<age, armed>>
    <3>1. wait' \in Nat
      BY <1>1, <2>2
    <3>2. Kept
      BY <1>0, <1>1, <2>2, <3>1, FailsKeeps
    <3>3. ~valid'
      BY <1>2, <1>7, <2>2 DEF RestartScd41, Fails
    <3> QED
      BY <3>2, <3>3
  <2> QED
    BY <1>7, <2>1, <2>2 DEF RestartScd41
<1>8. CASE FirstScd41
  <2>1. state' = "WAITING" /\ valid' = StillValid /\ ~valid'
    BY <1>2, <1>8 DEF FirstScd41
  <2> QED
    BY <1>1, <1>8, <2>1, GoesKeeps DEF FirstScd41
<1>9. CASE AskScd41
  BY <1>0, <1>1, <1>5, <1>6, <1>9 DEF AskScd41
<1>10. CASE FindScd41
  BY <1>0, <1>1, <1>5, <1>10 DEF FindScd41
<1>11. CASE NoneScd41
  BY <1>0, <1>1, <1>5, <1>6, <1>11 DEF NoneScd41
<1>12. CASE ReadScd41
  <2>1. CASE Accepts("IDLE") /\ UNCHANGED armed
    BY <1>0, <1>1, <2>1, AcceptsKeeps
  <2> QED
    BY <1>6, <1>12, <2>1 DEF ReadScd41
<1>13. CASE state = "STARTING" /\ wait > 0 /\ UNCHANGED <<runtime, armed>>
  <2>1. state' = "STARTING" /\ valid' = StillValid /\ ~valid'
    BY <1>2, <1>13 DEF runtime
  <2> QED
    BY <1>1, <1>13, <2>1, GoesKeeps DEF runtime
<1>14. CASE state \in {"WAITING", "READY"} /\ phase # "IDLE" /\ wait > 0 /\ Proceeds(phase, wait)
  BY <1>1, <1>5, <1>14
<1> QED
  BY <1>7, <1>8, <1>9, <1>10, <1>11, <1>12, <1>13, <1>14 DEF PollScd41

\* The SGP41's also keeps its budget.
LEMMA PollSgp41Keeps ==
  ASSUME Running, phase = "CONDITIONING" => conditioned < CondMax, PollSgp41
  PROVE  Kept /\ GasKept
<1> USE SensorAssumption DEF SensorAssumption
<1>0. "IDLE" \in Phases /\ "CONDITIONING" \in Phases /\ "MEASURING" \in Phases
  BY DEF Phases
<1>1. /\ errors + 1 <= Threshold /\ errors < Threshold /\ armed \in BOOLEAN /\ wait \in Nat
      /\ Delay \in Nat /\ phase \in Phases /\ 0 < Threshold /\ CondMax \in Nat
      /\ conditioned \in 0 .. CondMax /\ sampled \in BOOLEAN
  BY DEF Running
<1>2. ASSUME Measures41 PROVE phase' = "MEASURING" /\ phase' \in Phases /\ wait' \in Nat /\ armed' \in BOOLEAN
  BY <1>0, <1>1, <1>2 DEF Measures41
<1>3. ASSUME BeginStartup(conditioned)
      PROVE  /\ phase' \in Phases /\ wait' \in Nat /\ armed' \in BOOLEAN
             /\ phase' = "CONDITIONING" => conditioned < CondMax
  BY <1>0, <1>1, <1>3 DEF BeginStartup, Conditions, Measures41
<1>4. ASSUME NEW s \in {"STARTING", "WAITING"}, Fails(1, s, "IDLE", "IDLE"), age' = age,
             wait' \in Nat, armed' \in BOOLEAN
      PROVE  Kept /\ phase' = "IDLE"
  <2>1. Kept
    BY <1>0, <1>1, <1>4, FailsKeeps
  <2>2. phase' = "IDLE"
    BY <1>4 DEF Fails
  <2> QED
    BY <2>1, <2>2
<1>5. CASE FinishConditioning
  <2>0. conditioned < CondMax /\ conditioned + 1 \in 0 .. CondMax /\ age' = age /\ sampled' = sampled
    BY <1>1, <1>5 DEF FinishConditioning
  <2>1. CASE Fails(1, "STARTING", "IDLE", "IDLE") /\ UNCHANGED <<conditioned, wait, armed>>
    BY <1>1, <1>4, <2>0, <2>1 DEF GasKept
  <2>2. CASE /\ conditioned' = conditioned + 1 /\ Goes("STARTING", "IDLE", wait)
             /\ valid' = StillValid /\ armed' = FALSE /\ UNCHANGED errors
    <3>1. state' = "STARTING" /\ phase' = "IDLE" /\ wait' = wait
      BY <2>2 DEF Goes
    <3>2. Kept
      BY <1>0, <1>1, <2>0, <2>2, <3>1, GoesKeeps
    <3> QED
      BY <1>1, <2>0, <2>2, <3>1, <3>2 DEF GasKept
  <2>3. CASE /\ conditioned' = conditioned + 1 /\ Measures41 /\ state' = "WAITING"
             /\ valid' = StillValid /\ UNCHANGED errors
    <3>1. Kept
      BY <1>1, <1>2, <2>0, <2>3, GoesKeeps
    <3> QED
      BY <1>1, <1>2, <2>0, <2>3, <3>1 DEF GasKept
  <2>4. CASE /\ conditioned' = conditioned + 1 /\ Fails(1, "STARTING", "IDLE", "IDLE")
             /\ armed' = FALSE /\ UNCHANGED wait
    BY <1>1, <1>4, <2>0, <2>4 DEF GasKept
  <2> QED
    BY <1>5, <2>1, <2>2, <2>3, <2>4 DEF FinishConditioning
<1>6. CASE Restartup
  <2>0. age' = age /\ conditioned' = conditioned /\ sampled' = sampled /\ state = "STARTING"
    BY <1>6 DEF Restartup, gas
  <2>1. CASE BeginStartup(conditioned) /\ valid' = StillValid /\ UNCHANGED <<state, errors>>
    <3>1. Kept
      BY <1>1, <1>3, <2>0, <2>1, GoesKeeps
    <3> QED
      BY <1>1, <1>3, <2>0, <2>1, <3>1 DEF GasKept
  <2>2. CASE Fails(1, "STARTING", "IDLE", "IDLE") /\ UNCHANGED <<wait, armed>>
    BY <1>1, <1>4, <2>0, <2>2 DEF GasKept
  <2> QED
    BY <1>6, <2>1, <2>2 DEF Restartup
<1>7. CASE ReadSgp41
  <2>0. conditioned' = conditioned /\ state = "WAITING"
    BY <1>7 DEF ReadSgp41
  <2>1. CASE Accepts("IDLE") /\ sampled' = TRUE /\ armed' = FALSE
    <3>1. Kept /\ phase' = "IDLE"
      BY <1>0, <2>1, AcceptsKeeps DEF Accepts
    <3> QED
      BY <1>1, <2>0, <2>1, <3>1 DEF GasKept
  <2>2. CASE Fails(1, "WAITING", "IDLE", "IDLE") /\ UNCHANGED <<sampled, age, wait, armed>>
    BY <1>1, <1>4, <2>0, <2>2 DEF GasKept
  <2>3. CASE /\ errors + 1 < Threshold /\ Measures41 /\ errors' = errors + 1
             /\ valid' = StillValid /\ UNCHANGED <<state, sampled, age>>
    <3>1. Kept
      BY <1>1, <1>2, <2>0, <2>3, GoesKeeps
    <3> QED
      BY <1>1, <1>2, <2>0, <2>3, <3>1 DEF GasKept
  <2>4. CASE /\ errors + 1 < Threshold /\ Fails(2, "WAITING", "IDLE", "IDLE")
             /\ UNCHANGED <<sampled, age, wait, armed>>
    <3>1. errors + 2 <= Threshold
      BY <2>4 DEF Running
    <3>2. Kept
      BY <1>0, <1>1, <2>4, <3>1, FailsKeeps
    <3>3. phase' = "IDLE"
      BY <2>4 DEF Fails
    <3> QED
      BY <1>1, <2>0, <2>4, <3>2, <3>3 DEF GasKept
  <2> QED
    BY <1>7, <2>1, <2>2, <2>3, <2>4 DEF ReadSgp41
<1>8. CASE NextSgp41
  <2>0. age' = age /\ conditioned' = conditioned /\ sampled' = sampled /\ state = "READY"
    BY <1>8 DEF NextSgp41, gas
  <2>1. CASE Measures41 /\ state' = "WAITING" /\ valid' = StillValid /\ UNCHANGED errors
    <3>1. Kept
      BY <1>1, <1>2, <2>0, <2>1, GoesKeeps
    <3> QED
      BY <1>1, <1>2, <2>0, <2>1, <3>1 DEF GasKept
  <2>2. CASE Fails(1, "READY", phase, phase) /\ UNCHANGED <<wait, armed>>
    <3>1. Kept
      BY <1>1, <2>0, <2>2, FailsKeeps
    <3>2. phase' = phase
      BY <2>2 DEF Fails
    <3> QED
      BY <1>1, <2>0, <2>2, <3>1, <3>2 DEF GasKept
  <2> QED
    BY <1>8, <2>1, <2>2 DEF NextSgp41
<1>9. CASE OnlyFreshness /\ UNCHANGED gas
  <2>1. phase' = phase /\ conditioned' = conditioned /\ sampled' = sampled
    BY <1>9 DEF OnlyFreshness, gas
  <2> QED
    BY <1>1, <1>9, <2>1, FreshnessKeeps DEF GasKept
<1> QED
  BY <1>5, <1>6, <1>7, <1>8, <1>9 DEF PollSgp41

-----------------------------------------------------------------------------
(* The steps of the super-loop.                                            *)

LEMMA InitIInv == Init => IInv
<1> SUFFICES ASSUME Init PROVE IInv
  OBVIOUS
<1> USE SensorAssumption, StaleIsNat DEF SensorAssumption
<1>1. TypeOK
  <2>1. /\ kind \in Kinds /\ state \in States /\ phase \in Phases
        /\ pc \in {"idle", "due", "switch", "poll"}
    BY DEF Init, States, Phases
  <2>2. /\ age \in 0 .. Stale /\ wait \in Nat /\ errors \in 0 .. Threshold
        /\ absent \in 0 .. 3 /\ probeIn \in Nat /\ conditioned \in 0 .. CondMax
    BY DEF Init
  <2>3. /\ valid \in BOOLEAN /\ sampled \in BOOLEAN /\ armed \in BOOLEAN
        /\ good \in BOOLEAN /\ room \in BOOLEAN /\ reset \in BOOLEAN
    BY ZenonT(30) DEF Init
  <2> QED
    BY <2>1, <2>2, <2>3 DEF TypeOK
<1>2. valid = FALSE /\ room = FALSE /\ reset = FALSE /\ state = "NOT_FOUND" /\ errors = 0 /\ phase = "IDLE"
  BY DEF Init
<1> QED
  BY <1>1, <1>2 DEF IInv, TrustedOnlyWhileOperating, ErrorMeansThreshold, RoomFollowsRuntime,
     NothingStaleIsShown, ValidIsReady, ResetIsShown, WithinBudget, HasValid

LEMMA OperatingIsRunning == IInv /\ Operating => Running
<1> SUFFICES ASSUME IInv, Operating PROVE Running
  OBVIOUS
<1>1. errors \in 0 .. Threshold /\ state # "ERROR"
  BY DEF IInv, TypeOK, Operating
<1>2. errors < Threshold
  BY <1>1, SensorAssumption DEF IInv, ErrorMeansThreshold, SensorAssumption
<1> QED
  BY <1>1, <1>2 DEF IInv, TypeOK, Running

\* A step after which the runtime holds no sample, and what is marked valid is
\* marked since before.
LEMMA EmptyKeeps ==
  ASSUME IInv, kind' = kind, good' = good, pc' \in {"switch", "poll"},
         state' \in States, phase' \in Phases, valid' = FALSE, age' = age, wait' \in Nat,
         errors' \in 0 .. Threshold, state' = "ERROR" <=> errors' >= Threshold,
         absent' \in 0 .. 3, probeIn' \in Nat, armed' \in BOOLEAN,
         conditioned' \in 0 .. CondMax, sampled' \in BOOLEAN,
         kind = "SGP41" /\ phase' = "CONDITIONING" => conditioned' < CondMax,
         room' \in BOOLEAN, reset' = room'
  PROVE  IInv'
<1>1. TypeOK'
  BY DEF IInv, TypeOK
<1>2. ~HasValid'
  BY DEF HasValid
<1>3. RoomFollowsRuntime' /\ ResetIsShown'
  BY <1>2 DEF RoomFollowsRuntime, ResetIsShown
<1>4. NothingStaleIsShown' /\ WithinBudget'
  BY DEF NothingStaleIsShown, WithinBudget
<1> QED
  BY <1>1, <1>3, <1>4 DEF IInv, TrustedOnlyWhileOperating, ErrorMeansThreshold, ValidIsReady

\* A step that leaves the runtime and the room state alone.
LEMMA SameKeeps ==
  ASSUME IInv, UNCHANGED <<kind, runtime, absence, gas, app>>,
         armed' \in BOOLEAN, good' \in BOOLEAN,
         pc' \in {"idle", "due", "switch", "poll"}, pc' = "idle" => pc = "idle"
  PROVE  IInv'
<1>1. /\ kind' = kind /\ state' = state /\ phase' = phase /\ valid' = valid /\ age' = age
      /\ wait' = wait /\ errors' = errors /\ absent' = absent /\ probeIn' = probeIn
      /\ conditioned' = conditioned /\ sampled' = sampled /\ room' = room /\ reset' = reset
  BY DEF runtime, absence, gas, app
<1>2. TypeOK'
  BY <1>1 DEF IInv, TypeOK
<1>3. HasValid' = HasValid
  BY <1>1 DEF HasValid
<1>4. RoomFollowsRuntime' /\ ResetIsShown'
  BY <1>1, <1>3, ZenonT(30) DEF IInv, RoomFollowsRuntime, ResetIsShown
<1>5. NothingStaleIsShown' /\ WithinBudget' /\ ValidIsReady'
  BY <1>1 DEF IInv, NothingStaleIsShown, WithinBudget, ValidIsReady, Stale
<1>6. TrustedOnlyWhileOperating' /\ ErrorMeansThreshold'
  BY <1>1 DEF IInv, TrustedOnlyWhileOperating, ErrorMeansThreshold, Operating
<1> QED
  BY <1>2, <1>4, <1>5, <1>6 DEF IInv

LEMMA TickKeeps ==
  ASSUME IInv, Tick
  PROVE  IInv'
<1> USE SensorAssumption, StaleIsNat DEF SensorAssumption
<1>1. /\ kind' = kind /\ state' = state /\ phase' = phase /\ valid' = valid
      /\ errors' = errors /\ absent' = absent
      /\ conditioned' = conditioned /\ sampled' = sampled /\ room' = room /\ reset' = reset
      /\ armed' = armed /\ good' = good /\ pc' = "due"
  BY DEF Tick, gas, app
<1>2. age' \in 0 .. Stale /\ wait' \in Nat /\ probeIn' \in Nat
  BY DEF Tick, OneLess, IInv, TypeOK
<1>3. TypeOK'
  BY <1>1, <1>2 DEF IInv, TypeOK
<1>4. HasValid' = HasValid
  BY <1>1 DEF HasValid
<1>5. RoomFollowsRuntime' /\ ResetIsShown'
  BY <1>1, <1>4, ZenonT(30) DEF IInv, RoomFollowsRuntime, ResetIsShown
<1>6. NothingStaleIsShown' /\ WithinBudget' /\ ValidIsReady'
  BY <1>1 DEF IInv, NothingStaleIsShown, WithinBudget, ValidIsReady
<1>7. TrustedOnlyWhileOperating' /\ ErrorMeansThreshold'
  BY <1>1 DEF IInv, TrustedOnlyWhileOperating, ErrorMeansThreshold, Operating
<1> QED
  BY <1>3, <1>5, <1>6, <1>7 DEF IInv

LEMMA RecoverKeeps ==
  ASSUME IInv, Recover, kind' = kind, good' = good, pc' \in {"switch", "poll"},
         room' \in BOOLEAN, reset' = room'
  PROVE  IInv'
<1> USE SensorAssumption DEF SensorAssumption
<1>1. /\ state' = "RECOVERING" /\ valid' = FALSE /\ errors' = 0 /\ age' = age /\ wait' = wait
      /\ absent' = absent /\ probeIn' = probeIn /\ conditioned' = conditioned
      /\ sampled' = sampled /\ armed' = armed
      /\ phase' = IF kind = "SCD41" THEN phase ELSE "IDLE"
  BY DEF Recover, absence, gas
<1>2. /\ phase \in Phases /\ wait \in Nat /\ absent \in 0 .. 3 /\ probeIn \in Nat
      /\ conditioned \in 0 .. CondMax /\ sampled \in BOOLEAN /\ armed \in BOOLEAN
  BY DEF IInv, TypeOK
<1>3. phase' \in Phases /\ (kind = "SGP41" => phase' = "IDLE")
  BY <1>1, <1>2 DEF Phases
<1>4. state' \in States /\ errors' \in 0 .. Threshold /\ ~(errors' >= Threshold)
  BY <1>1 DEF States
<1> QED
  BY <1>1, <1>2, <1>3, <1>4, EmptyKeeps

LEMMA StartKeeps ==
  ASSUME IInv, state \in {"NOT_FOUND", "RECOVERING"}, Start,
         UNCHANGED <<kind, good, app>>, pc' = "poll"
  PROVE  IInv'
<1> USE SensorAssumption, StaleIsNat DEF SensorAssumption
<1>1. /\ kind' = kind /\ good' = good /\ room' = room /\ reset' = reset /\ pc' = "poll"
  BY DEF app
<1>2. valid = FALSE /\ errors < Threshold
  <2>1. ~Operating /\ state # "ERROR"
    BY DEF Operating
  <2>2. ~valid /\ valid \in BOOLEAN
    BY <2>1 DEF IInv, TrustedOnlyWhileOperating, TypeOK
  <2>3. errors < Threshold
    BY <2>1 DEF IInv, ErrorMeansThreshold, TypeOK
  <2> QED
    BY <2>2, <2>3
<1>3. room' \in BOOLEAN /\ reset' = room'
  <2>1. room \in BOOLEAN /\ reset \in BOOLEAN
    BY DEF IInv, TypeOK
  <2>2. ~HasValid
    BY <1>2 DEF HasValid
  <2>3. (room => reset) /\ (reset => room)
    BY <2>2 DEF IInv, RoomFollowsRuntime, ResetIsShown
  <2> QED
    BY <1>1, <2>1, <2>3
<1>4. /\ phase \in Phases /\ age \in 0 .. Stale /\ wait \in Nat /\ absent \in 0 .. 3 /\ probeIn \in Nat
      /\ errors \in 0 .. Threshold /\ state \in States
      /\ conditioned \in 0 .. CondMax /\ sampled \in BOOLEAN /\ armed \in BOOLEAN
      /\ kind = "SGP41" /\ phase = "CONDITIONING" => conditioned < CondMax
  BY DEF IInv, TypeOK, WithinBudget
<1> DEFINE Left ==
      /\ state' \in States /\ phase' \in Phases /\ valid' = FALSE /\ age' = age /\ wait' \in Nat
      /\ errors' \in 0 .. Threshold /\ (state' = "ERROR" <=> errors' >= Threshold)
      /\ armed' \in BOOLEAN
<1>5. ASSUME state' \in {state, "STARTING", "NOT_FOUND"}, phase' \in Phases, wait' \in Nat, armed' \in BOOLEAN,
             UNCHANGED <<valid, age>>, errors' \in {0, errors}
      PROVE  Left
  BY <1>2, <1>4, <1>5 DEF States
<1>6. ASSUME StartFails PROVE Left /\ phase' = phase
  <2>1. errors' = errors + 1 /\ errors' \in 0 .. Threshold
    BY <1>2, <1>4, <1>6 DEF StartFails
  <2>2. state' = IF errors' < Threshold THEN state ELSE "ERROR"
    BY <1>6 DEF StartFails
  <2>3. state' \in States /\ (state' = "ERROR" <=> errors' >= Threshold)
    BY <2>1, <2>2 DEF States
  <2>4. /\ phase' = phase /\ valid' = FALSE /\ age' = age /\ wait' = wait /\ armed' = armed
    BY <1>2, <1>6 DEF StartFails
  <2> QED
    BY <1>4, <2>1, <2>3, <2>4
<1>7. CASE NotFound
  <2>1. /\ state' = "NOT_FOUND" /\ phase' = phase /\ valid' = valid /\ age' = age /\ wait' = wait
        /\ errors' = errors /\ armed' = armed /\ conditioned' = conditioned /\ sampled' = sampled
    BY <1>7 DEF NotFound, gas
  <2>2. absent' \in 0 .. 3 /\ probeIn' \in Nat
    <3>1. CASE UNCHANGED absence
      BY <1>4, <3>1 DEF absence
    <3>2. CASE absent' = OneMoreAbsence /\ probeIn' = Backoff[absent']
      <4>1. absent' \in 1 .. 3
        BY <1>4, <3>2 DEF OneMoreAbsence
      <4> QED
        BY <3>2, <4>1
    <3> QED
      BY <1>7, <3>1, <3>2 DEF NotFound
  <2>3. Left
    BY <1>4, <1>5, <2>1
  <2> HIDE DEF Left
  <2> QED
    BY <1>1, <1>3, <1>4, <2>1, <2>2, <2>3, EmptyKeeps DEF Left
<1>8. CASE /\ Found
           /\ \/ kind = "SHT45" /\ StartSht45 /\ UNCHANGED gas
              \/ kind = "SCD41" /\ StartScd41 /\ UNCHANGED gas
              \/ kind = "BMP" /\ StartBmp /\ UNCHANGED gas
              \/ kind = "SGP41" /\ StartSgp41
  <2>1. absent' \in 0 .. 3 /\ probeIn' \in Nat
    BY <1>4, <1>8 DEF Found
  <2>2. ASSUME UNCHANGED gas, Left, phase' \in {phase, "IDLE", "SETTLE", "MEASURING"}
        PROVE  IInv'
    <3>1. conditioned' = conditioned /\ sampled' = sampled
      BY <2>2 DEF gas
    <3> QED
      BY <1>1, <1>3, <1>4, <2>1, <2>2, <3>1, EmptyKeeps
  <2>3. CASE StartSht45 /\ UNCHANGED gas
    <3>1. CASE Measures /\ UNCHANGED <<valid, age, errors>>
      <4>1. state' = "STARTING" /\ phase' = "MEASURING" /\ wait' = Delay /\ armed' = TRUE
        BY <3>1 DEF Measures, Goes
      <4>2. Left
        BY <1>5, <3>1, <4>1 DEF Phases
      <4> QED
        BY <2>2, <2>3, <4>1, <4>2
    <3> QED
      BY <1>6, <2>2, <2>3, <3>1 DEF StartSht45
  <2>4. CASE StartBmp /\ UNCHANGED gas
    <3>1. CASE Triggers /\ UNCHANGED <<valid, age, errors>>
      <4>1. state' = "STARTING" /\ phase' = "MEASURING" /\ wait' = Delay /\ armed' = TRUE
        BY <3>1 DEF Triggers, Goes
      <4>2. Left
        BY <1>5, <3>1, <4>1 DEF Phases
      <4> QED
        BY <2>2, <2>4, <4>1, <4>2
    <3>2. CASE UNCHANGED <<runtime, armed>>
      <4>1. /\ state' = state /\ phase' = phase /\ valid' = valid /\ age' = age /\ wait' = wait
            /\ errors' = errors /\ armed' = armed
        BY <3>2 DEF runtime
      <4>2. Left
        BY <1>4, <1>5, <4>1
      <4> QED
        BY <2>2, <2>4, <4>1, <4>2
    <3> QED
      BY <1>6, <2>2, <2>4, <3>1, <3>2 DEF StartBmp
  <2>5. CASE StartScd41 /\ UNCHANGED gas
    <3>1. CASE Periodic("STARTING", "IDLE") /\ UNCHANGED <<valid, age>>
      <4>1. state' = "STARTING" /\ phase' = "IDLE" /\ wait' = Interval /\ armed' = TRUE /\ errors' = 0
        BY <3>1 DEF Periodic, Goes
      <4>2. Left
        BY <1>5, <3>1, <4>1 DEF Phases
      <4> QED
        BY <2>2, <2>5, <4>1, <4>2
    <3>2. CASE Goes("STARTING", "SETTLE", Delay) /\ armed' = FALSE /\ UNCHANGED <<valid, age, errors>>
      <4>1. state' = "STARTING" /\ phase' = "SETTLE" /\ wait' = Delay
        BY <3>2 DEF Goes
      <4>2. Left
        BY <1>5, <3>2, <4>1 DEF Phases
      <4> QED
        BY <2>2, <2>5, <4>1, <4>2
    <3> QED
      BY <1>6, <2>2, <2>5, <3>1, <3>2 DEF StartScd41
  <2>6. CASE StartSgp41
    <3>1. conditioned' \in 0 .. CondMax /\ sampled' \in BOOLEAN /\ conditioned' <= conditioned
      BY <1>4, <2>6 DEF StartSgp41
    <3>2. CASE BeginStartup(conditioned') /\ state' = "STARTING" /\ UNCHANGED <<valid, age, errors>>
      <4>1. /\ phase' \in Phases /\ wait' = Delay /\ armed' = TRUE
            /\ phase' = "CONDITIONING" => conditioned' < CondMax
        BY <3>2 DEF BeginStartup, Conditions, Measures41, Phases
      <4>2. Left
        BY <1>5, <3>2, <4>1
      <4> QED
        BY <1>1, <1>3, <2>1, <3>1, <4>1, <4>2, EmptyKeeps
    <3>3. CASE StartFails
      <4>1. kind = "SGP41" /\ phase' = "CONDITIONING" => conditioned' < CondMax
        BY <1>4, <1>6, <3>1, <3>3
      <4> QED
        BY <1>1, <1>3, <1>6, <2>1, <3>1, <3>3, <4>1, EmptyKeeps
    <3> QED
      BY <2>6, <3>2, <3>3 DEF StartSgp41
  <2> QED
    BY <1>8, <2>3, <2>4, <2>5, <2>6, Zenon
<1> QED
  BY <1>7, <1>8, Zenon DEF Start

\* A poll, and the copy of its outcome into the room state.
LEMMA PolledKeeps ==
  ASSUME IInv, Kept, Commits, kind' = kind, good' = good, UNCHANGED absence, pc' = "idle",
         conditioned' \in 0 .. CondMax, sampled' \in BOOLEAN,
         kind = "SGP41" /\ phase' = "CONDITIONING" => conditioned' < CondMax,
         kind = "SCD41" /\ valid' => state' = "READY"
  PROVE  IInv'
<1>1. room' \in BOOLEAN /\ reset' \in BOOLEAN
  BY ZenonT(30) DEF Commits
<1>2. TypeOK'
  <2>1. absent' = absent /\ probeIn' = probeIn
    BY DEF absence
  <2> QED
    BY <1>1, <2>1 DEF IInv, TypeOK, Kept
<1>3. TrustedOnlyWhileOperating' /\ ErrorMeansThreshold' /\ ValidIsReady' /\ WithinBudget'
  BY DEF Kept, TrustedOnlyWhileOperating, Operating, ErrorMeansThreshold, ValidIsReady, WithinBudget
<1>4. RoomFollowsRuntime' /\ ResetIsShown'
  BY ZenonT(60) DEF IInv, RoomFollowsRuntime, ResetIsShown, Commits
<1>5. NothingStaleIsShown'
  <2>1. SUFFICES ASSUME room', ~reset' PROVE age' < Stale
    BY DEF NothingStaleIsShown, Stale
  <2>2. HasValid'
    BY <1>4, <2>1 DEF RoomFollowsRuntime
  <2> QED
    BY <2>2 DEF HasValid, Kept
<1> QED
  BY <1>2, <1>3, <1>4, <1>5 DEF IInv

LEMMA PollKeeps ==
  ASSUME IInv, Poll
  PROVE  IInv'
<1>1. kind' = kind /\ good' = good /\ UNCHANGED absence /\ pc' = "idle"
  BY DEF Poll
<1>2. /\ conditioned \in 0 .. CondMax /\ sampled \in BOOLEAN
      /\ kind = "SGP41" /\ phase = "CONDITIONING" => conditioned < CondMax
      /\ kind = "SCD41" /\ valid => state = "READY"
  BY DEF IInv, TypeOK, WithinBudget, ValidIsReady
<1>3. ASSUME UNCHANGED gas, Kept, Commits, kind \in {"SHT45", "BMP", "SCD41"},
             kind = "SCD41" /\ valid' => state' = "READY"
      PROVE  IInv'
  <2>1. conditioned' = conditioned /\ sampled' = sampled
    BY <1>3 DEF gas
  <2> QED
    BY <1>1, <1>2, <1>3, <2>1, PolledKeeps
<1>4. CASE Operating /\ kind = "SHT45" /\ PollSht45 /\ UNCHANGED gas /\ Commits
  BY <1>3, <1>4, OperatingIsRunning, PollSht45Keeps
<1>5. CASE Operating /\ kind = "SCD41" /\ PollScd41 /\ UNCHANGED gas /\ Commits
  BY <1>2, <1>3, <1>5, OperatingIsRunning, PollScd41Keeps
<1>6. CASE Operating /\ kind = "BMP" /\ PollBmp /\ UNCHANGED gas /\ Commits
  BY <1>3, <1>6, OperatingIsRunning, PollBmpKeeps
<1>7. CASE Operating /\ kind = "SGP41" /\ PollSgp41 /\ Commits
  <2>1. Kept /\ GasKept
    BY <1>2, <1>7, OperatingIsRunning, PollSgp41Keeps
  <2> QED
    BY <1>1, <1>7, <2>1, PolledKeeps DEF GasKept
<1>8. CASE ~Operating /\ UNCHANGED <<runtime, gas, armed>> /\ (IF kind = "BMP" THEN Commits ELSE UNCHANGED app)
  <2>1. /\ state' = state /\ phase' = phase /\ valid' = valid /\ age' = age
        /\ wait' = wait /\ errors' = errors /\ armed' = armed
        /\ conditioned' = conditioned /\ sampled' = sampled
        /\ absent' = absent /\ probeIn' = probeIn
    BY <1>1, <1>8 DEF runtime, gas, absence
  <2>2. ~HasValid /\ ~HasValid'
    BY <1>8, <2>1 DEF HasValid, IInv, TrustedOnlyWhileOperating
  <2>3. /\ room \in BOOLEAN /\ reset \in BOOLEAN
        /\ (room => reset) /\ (reset => room)
    BY <2>2 DEF IInv, TypeOK, RoomFollowsRuntime, ResetIsShown
  <2>4. room' \in BOOLEAN /\ reset' \in BOOLEAN /\ (room' => reset') /\ (reset' => room')
    <3>1. CASE kind = "BMP"
      BY <1>8, <2>2, <2>3, <3>1, ZenonT(30) DEF Commits
    <3>2. CASE kind # "BMP"
      BY <1>8, <2>3, <3>2 DEF app
    <3> QED
      BY <3>1, <3>2
  <2>5. TypeOK'
    BY <1>1, <2>1, <2>4 DEF IInv, TypeOK
  <2>6. RoomFollowsRuntime' /\ ResetIsShown' /\ NothingStaleIsShown'
    BY <2>2, <2>4 DEF RoomFollowsRuntime, ResetIsShown, NothingStaleIsShown
  <2>7. TrustedOnlyWhileOperating' /\ ErrorMeansThreshold' /\ ValidIsReady' /\ WithinBudget'
    BY <1>1, <2>1 DEF IInv, TrustedOnlyWhileOperating, Operating, ErrorMeansThreshold,
       ValidIsReady, WithinBudget
  <2> QED
    BY <2>5, <2>6, <2>7 DEF IInv
<1> QED
  BY <1>4, <1>5, <1>6, <1>7, <1>8, Zenon DEF Poll

LEMMA RetryKeeps ==
  ASSUME IInv, Retry
  PROVE  IInv'
<1>1. kind' = kind /\ good' = good /\ pc' = "poll"
  BY DEF Retry
<1>2. CASE state \in {"NOT_FOUND", "RECOVERING"} /\ Start /\ UNCHANGED app
  BY <1>1, <1>2, StartKeeps
<1>3. CASE state = "ERROR" /\ Recover /\ room' = FALSE /\ reset' = FALSE
  BY <1>1, <1>3, RecoverKeeps
<1>4. CASE Operating /\ UNCHANGED <<runtime, absence, gas, armed, app>>
  <2>1. armed' \in BOOLEAN /\ good' \in BOOLEAN
    BY <1>1, <1>4 DEF IInv, TypeOK
  <2> QED
    BY <1>1, <1>4, <2>1, SameKeeps
<1> QED
  BY <1>2, <1>3, <1>4 DEF Retry

LEMMA NextIInv == IInv /\ [Next]_vars => IInv'
<1> SUFFICES ASSUME IInv, [Next]_vars PROVE IInv'
  OBVIOUS
<1>1. armed \in BOOLEAN /\ good \in BOOLEAN /\ room \in BOOLEAN /\ pc \in {"idle", "due", "switch", "poll"}
  BY DEF IInv, TypeOK
<1>2. CASE Tick
  BY <1>2, TickKeeps
<1>3. CASE BusRecovery
  BY <1>1, <1>3, RecoverKeeps DEF BusRecovery
<1>4. CASE Retry
  BY <1>4, RetryKeeps
<1>5. CASE Poll
  BY <1>5, PollKeeps
<1>6. CASE Glitch
  BY <1>1, <1>6, SameKeeps DEF Glitch
<1>7. CASE Heal
  BY <1>1, <1>7, SameKeeps DEF Heal
<1>8. CASE UNCHANGED vars
  BY <1>1, <1>8, SameKeeps DEF vars
<1> QED
  BY <1>2, <1>3, <1>4, <1>5, <1>6, <1>7, <1>8 DEF Next

-----------------------------------------------------------------------------
(* The theorems.                                                           *)

\* The inductive invariant: what each poll, start and recovery keeps.
THEOREM Invariance == Spec => []IInv
<1>1. Init => IInv
  BY InitIInv
<1>2. IInv /\ [Next]_vars => IInv'
  BY NextIInv
<1> QED
  BY <1>1, <1>2, PTL DEF Spec

\* A sensor that was lost, is in error or is being recovered has no valid sample.
THEOREM TrustIsEarned == Spec => []TrustedOnlyWhileOperating
<1>1. IInv => TrustedOnlyWhileOperating
  BY DEF IInv
<1> QED
  BY <1>1, Invariance, PTL

\* A sensor is in error exactly when Threshold failures have come since their count
\* was last reset.
THEOREM ErrorsAreCounted == Spec => []ErrorMeansThreshold
<1>1. IInv => ErrorMeansThreshold
  BY DEF IInv
<1> QED
  BY <1>1, Invariance, PTL

\* The room state marks valid what the runtime holds valid, or did before a bus
\* recovery.
THEOREM RoomIsFaithful == Spec => []RoomFollowsRuntime
<1>1. IInv => RoomFollowsRuntime
  BY DEF IInv
<1> QED
  BY <1>1, Invariance, PTL

\* Whatever the intervals and the failures, a pass ends with no stale value
\* marked valid, except those a bus recovery left.
THEOREM NothingStale == Spec => []NothingStaleIsShown
<1>1. IInv => NothingStaleIsShown
  BY DEF IInv
<1> QED
  BY <1>1, Invariance, PTL
=============================================================================
