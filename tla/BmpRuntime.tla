----------------------------- MODULE BmpRuntime -----------------------------
(* The BMP390's runtime, Drivers/bmp390/Src/bmp390_runtime.c, and the      *)
(* BMP380's, which differs only in text: forced measurements, whose result *)
(* is read once the device says it is ready.                               *)
EXTENDS SensorRuntime

\* BMP390_TriggerMeasurement is accepted.
Triggers == Goes("STARTING", "MEASURING", Delay) /\ armed' = TRUE

\* Bmp390Runtime_Start once the device has been detected.  If the calibration
\* cannot be read, nothing is counted.
StartBmp ==
  \/ Triggers /\ UNCHANGED <<valid, age, errors>>
  \/ ~good /\ (StartFails \/ UNCHANGED <<runtime, armed>>)

\* ReTriggerMeasurement, after a first failure: the result has been consumed.
Retriggers ==
  \/ /\ errors + 1 >= Threshold
     /\ Fails(1, "STARTING", "MEASURING", "IDLE")
     /\ armed' = FALSE /\ UNCHANGED <<age, wait>>
  \/ /\ errors + 1 < Threshold
     /\ Triggers
     /\ errors' = errors + 1 /\ valid' = StillValid /\ UNCHANGED age
  \* Nothing is measured, and the wait for data goes on.
  \/ /\ errors + 1 < Threshold
     /\ Fails(2, "STARTING", "MEASURING", "IDLE")
     /\ armed' = FALSE /\ UNCHANGED <<age, wait>>

\* The deadline has passed: the status is read, then the sample.
ReadBmp ==
  /\ state = "STARTING" /\ phase = "MEASURING" /\ wait = 0
  /\ \/ armed /\ Accepts("BETWEEN") /\ armed' = FALSE
     \* The data is not ready, or never will be.
     \/ /\ ~(armed /\ good)
        /\ valid' = StillValid /\ wait' = Delay
        /\ UNCHANGED <<state, phase, age, errors, armed>>
     \* A register is not read, or reports a fault of the device.
     \/ /\ ~good
        /\ Fails(1, "STARTING", "MEASURING", "MEASURING")
        /\ wait' = Delay /\ UNCHANGED <<age, armed>>
     \* The sample is not read, or is implausible.
     \/ ~good /\ Retriggers

\* The interval is over: the next measurement is triggered.
NextBmp ==
  /\ state = "READY" /\ phase = "BETWEEN" /\ age >= Interval
  /\ \/ Triggers /\ valid' = StillValid /\ UNCHANGED <<age, errors>>
     \/ /\ ~good /\ Fails(1, "READY", "BETWEEN", "BETWEEN")
        /\ UNCHANGED <<age, wait, armed>>

\* Bmp390Runtime_Poll
PollBmp ==
  \/ ReadBmp
  \/ NextBmp
  \/ /\ ~(state = "STARTING" /\ phase = "MEASURING" /\ wait = 0)
     /\ ~(state = "READY" /\ phase = "BETWEEN" /\ age >= Interval)
     /\ OnlyFreshness

\* The device waits for a trigger and the runtime for the device.
LostBmp == state = "STARTING" /\ phase = "MEASURING" /\ ~armed
=============================================================================
