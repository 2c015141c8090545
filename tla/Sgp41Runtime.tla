---------------------------- MODULE Sgp41Runtime ----------------------------
(* The SGP41's runtime, Drivers/sgp41/Src/sgp41_runtime.c: conditionings   *)
(* first, then a measurement a second.  The gas index that the samples     *)
(* feed is left out.                                                       *)
EXTENDS SensorRuntime

\* A command is accepted; its answer is due after Delay.
Conditions == phase' = "CONDITIONING" /\ wait' = Delay /\ armed' = TRUE
Measures41 == phase' = "MEASURING" /\ wait' = Delay /\ armed' = TRUE

\* Sgp41Runtime_BeginStartup after budget conditionings, accepted.
BeginStartup(budget) == IF budget < CondMax THEN Conditions ELSE Measures41

\* Sgp41Runtime_Start once the device has answered.  The budget starts anew
\* only until the first sample of this boot.
StartSgp41 ==
  /\ conditioned' = IF sampled THEN conditioned ELSE 0
  /\ UNCHANGED sampled
  /\ \E ok \in Transfers(TRUE) :
       \/ ok /\ BeginStartup(conditioned') /\ state' = "STARTING" /\ UNCHANGED <<valid, age, errors>>
       \/ ~ok /\ StartFails

\* Sgp41Runtime_FinishConditioning.  Successes do not reset the errors.
FinishConditioning ==
  /\ state = "STARTING" /\ phase = "CONDITIONING" /\ wait = 0
  /\ UNCHANGED <<sampled, age>>
  /\ \E ok \in Transfers(armed) :
       \/ /\ ~ok /\ Fails(1, "STARTING", "IDLE", "IDLE")
          /\ UNCHANGED <<conditioned, wait, armed>>
       \/ /\ ok /\ conditioned' = conditioned + 1 /\ conditioned' < CondMax
          /\ Goes("STARTING", "IDLE", wait) /\ valid' = StillValid
          /\ armed' = FALSE /\ UNCHANGED errors
       \/ /\ ok /\ conditioned' = conditioned + 1 /\ conditioned' >= CondMax
          /\ \E begun \in Transfers(TRUE) :
               \/ /\ begun /\ Measures41 /\ state' = "WAITING"
                  /\ valid' = StillValid /\ UNCHANGED errors
               \/ /\ ~begun /\ Fails(1, "STARTING", "IDLE", "IDLE")
                  /\ armed' = FALSE /\ UNCHANGED wait

\* STARTING with nothing in flight.
Restartup ==
  /\ state = "STARTING" /\ phase = "IDLE"
  /\ UNCHANGED <<gas, age>>
  /\ \E ok \in Transfers(TRUE) :
       \/ ok /\ BeginStartup(conditioned) /\ valid' = StillValid /\ UNCHANGED <<state, errors>>
       \/ ~ok /\ Fails(1, "STARTING", "IDLE", "IDLE") /\ UNCHANGED <<wait, armed>>

\* The measurement's deadline has passed: the answer is read.
ReadSgp41 ==
  /\ state = "WAITING" /\ phase = "MEASURING" /\ wait = 0
  /\ UNCHANGED conditioned
  /\ \E ok \in Transfers(armed) :
       \/ ok /\ Accepts("IDLE") /\ sampled' = TRUE /\ armed' = FALSE
       \/ /\ ~ok /\ errors + 1 >= Threshold
          /\ Fails(1, "WAITING", "IDLE", "IDLE")
          /\ UNCHANGED <<sampled, age, wait, armed>>
       \* Sgp41Runtime_IssueNextMeasure after a failed read.
       \/ /\ ~ok /\ errors + 1 < Threshold
          /\ UNCHANGED <<sampled, age>>
          /\ \E begun \in Transfers(TRUE) :
               \/ /\ begun /\ Measures41
                  /\ errors' = errors + 1 /\ valid' = StillValid
                  /\ UNCHANGED state
               \/ /\ ~begun /\ Fails(2, "WAITING", "IDLE", "IDLE")
                  /\ UNCHANGED <<wait, armed>>

\* A second after the last sample, the next measurement.
NextSgp41 ==
  /\ state = "READY" /\ age >= Interval
  /\ UNCHANGED <<gas, age>>
  /\ \E ok \in Transfers(TRUE) :
       \/ ok /\ Measures41 /\ state' = "WAITING" /\ valid' = StillValid /\ UNCHANGED errors
       \/ ~ok /\ Fails(1, "READY", phase, phase) /\ UNCHANGED <<wait, armed>>

\* No branch of the poll is for this state, and no case of App_DoRetry.
LostSgp41 ==
  \/ state = "STARTING" /\ phase = "MEASURING"
  \/ state = "WAITING" /\ phase = "IDLE"

\* Sgp41Runtime_Poll
PollSgp41 ==
  \/ FinishConditioning
  \/ Restartup
  \/ ReadSgp41
  \/ NextSgp41
  \/ /\ \/ phase \in {"CONDITIONING", "MEASURING"} /\ wait > 0
        \/ state = "READY" /\ age < Interval
        \/ LostSgp41
     /\ OnlyFreshness /\ UNCHANGED gas
=============================================================================
