---------------------------- MODULE Sht45Runtime ----------------------------
(* The SHT45's runtime, Drivers/sht45/Src/sht45_runtime.c: single-shot     *)
(* measurements, read once the conversion is done.  NOT_READY, which the   *)
(* driver gives only before its initialisation, is left out, and so is a   *)
(* sample read without error but not valid, which it never gives.          *)
EXTENDS SensorRuntime

\* SHT45_FinishMeasurement: BUS_ERROR is no answer, OTHER a timeout or a checksum.
Answers == {IF armed THEN "OK" ELSE "BUS_ERROR"}
             \cup (IF good THEN {} ELSE {"BUS_ERROR", "OTHER"})

\* SHT45_BeginMeasurement is accepted.
Measures == Goes("STARTING", "MEASURING", Delay) /\ armed' = TRUE

\* Sht45Runtime_Start once the device has answered.
StartSht45 ==
  \E ok \in Transfers(TRUE) :
    \/ ok /\ Measures /\ UNCHANGED <<valid, age, errors>>
    \/ ~ok /\ StartFails

\* The conversion's deadline has passed: the answer is read.
ReadSht45 ==
  /\ state = "STARTING" /\ phase = "MEASURING" /\ wait = 0
  /\ \E answer \in Answers :
       \/ /\ answer = "OK"
          /\ Accepts("BETWEEN")
          /\ armed' = FALSE
       \* Below the threshold nothing is due any more: no retry comes.
       \/ /\ answer = "OTHER" \/ (answer = "BUS_ERROR" /\ errors + 1 >= Threshold)
          /\ Fails(1, "STARTING", "IDLE", "IDLE")
          /\ UNCHANGED <<age, wait, armed>>
       \/ /\ answer = "BUS_ERROR" /\ errors + 1 < Threshold
          /\ \E ok \in Transfers(TRUE) :
               \/ /\ ok /\ Measures
                  /\ errors' = errors + 1 /\ valid' = StillValid
                  /\ UNCHANGED age
               \/ /\ ~ok /\ Fails(2, "STARTING", "IDLE", "IDLE")
                  /\ UNCHANGED <<age, wait, armed>>

\* The interval is over: the next measurement is started.
NextSht45 ==
  /\ state = "READY" /\ phase = "BETWEEN" /\ age >= Interval
  /\ \E ok \in Transfers(TRUE) :
       \/ ok /\ Measures /\ valid' = StillValid /\ UNCHANGED <<age, errors>>
       \/ /\ ~ok /\ Fails(1, "READY", "BETWEEN", "IDLE")
          /\ UNCHANGED <<age, wait, armed>>

\* Sht45Runtime_Poll
PollSht45 ==
  \/ ReadSht45
  \/ NextSht45
  \/ /\ ~(state = "STARTING" /\ phase = "MEASURING" /\ wait = 0)
     /\ ~(state = "READY" /\ phase = "BETWEEN" /\ age >= Interval)
     /\ OnlyFreshness

\* No call leaves this state any more but the recovery of the bus.
LostSht45 == state = "STARTING" /\ phase = "IDLE"
=============================================================================
