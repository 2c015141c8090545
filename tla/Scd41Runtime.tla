---------------------------- MODULE Scd41Runtime ----------------------------
(* The SCD41's runtime, Drivers/scd41/Src/scd41_runtime.c: the sensor      *)
(* measures periodically by itself (armed) and is asked for data in two    *)
(* transactions of two polls each.                                         *)
EXTENDS SensorRuntime

\* START_PERIODIC is accepted; started_at_ms is now.
Periodic(s, p) == Goes(s, p, Interval) /\ armed' = TRUE /\ errors' = 0

\* Scd41Runtime_Start once the device has answered.  A sensor that already
\* measures refuses START; it is stopped, and started when it has settled.
StartScd41 ==
  \E ok \in Transfers(~armed) :
    \/ ok /\ Periodic("STARTING", "IDLE") /\ UNCHANGED <<valid, age>>
    \/ /\ ~ok
       /\ \E stopped \in Transfers(TRUE) :
            \/ /\ stopped /\ Goes("STARTING", "SETTLE", Delay)
               /\ armed' = FALSE
               /\ UNCHANGED <<valid, age, errors>>
            \/ ~stopped /\ StartFails

\* The stopped sensor has settled and is started again.
RestartScd41 ==
  /\ state = "STARTING" /\ phase = "SETTLE" /\ wait = 0
  /\ \E ok \in Transfers(~armed) :
       \/ ok /\ Periodic("STARTING", "IDLE") /\ UNCHANGED <<valid, age>>
       \* started_at_ms is an earlier start's; nothing is measured.
       \/ /\ ~ok /\ Fails(1, "STARTING", "IDLE", "IDLE")
          /\ wait' \in 0 .. Interval
          /\ UNCHANGED <<age, armed>>

\* The first interval is over.
FirstScd41 ==
  /\ state = "STARTING" /\ phase = "IDLE" /\ wait = 0
  /\ state' = "WAITING"
  /\ UNCHANGED <<phase, valid, age, wait, errors, armed>>

\* A value gone stale sends the runtime back to WAITING.
FreshState == IF state = "READY" /\ age >= Stale THEN "WAITING" ELSE state

\* A transaction of a running sensor goes on to the phase p, after w ticks.
Proceeds(p, w) ==
  /\ Goes(FreshState, p, w)
  /\ valid' = StillValid
  /\ UNCHANGED <<age, errors, armed>>

Refused ==
  /\ Fails(1, FreshState, "IDLE", "IDLE")
  /\ UNCHANGED <<age, wait, armed>>

\* GET_DATA_READY is sent.
AskScd41 ==
  /\ state \in {"WAITING", "READY"} /\ phase = "IDLE"
  /\ \E ok \in Transfers(TRUE) :
       \/ ok /\ Proceeds("DATA_READY_RESPONSE", Delay)
       \/ ~ok /\ Refused

\* The answer says there is data, and READ_MEASUREMENT is sent.
FindScd41 ==
  /\ state \in {"WAITING", "READY"} /\ phase = "DATA_READY_RESPONSE" /\ wait = 0
  /\ armed
  /\ Proceeds("MEASUREMENT_RESPONSE", Delay)

\* There is no data, which is no error, or the transfer of one of the two fails.
NoneScd41 ==
  /\ state \in {"WAITING", "READY"} /\ phase = "DATA_READY_RESPONSE" /\ wait = 0
  /\ \/ Proceeds("IDLE", wait)
     \/ ~good /\ Refused

\* The measurement is read.
ReadScd41 ==
  /\ state \in {"WAITING", "READY"} /\ phase = "MEASUREMENT_RESPONSE" /\ wait = 0
  /\ \E ok \in Transfers(armed) :
       \/ ok /\ Accepts("IDLE") /\ UNCHANGED armed
       \/ ~ok /\ Refused

\* Scd41Runtime_Poll
PollScd41 ==
  \/ RestartScd41
  \/ FirstScd41
  \/ AskScd41
  \/ FindScd41
  \/ NoneScd41
  \/ ReadScd41
  \/ state = "STARTING" /\ wait > 0 /\ UNCHANGED <<runtime, armed>>
  \/ /\ state \in {"WAITING", "READY"} /\ phase # "IDLE" /\ wait > 0
     /\ Proceeds(phase, wait)

\* The runtime waits for data of a sensor that was never started.
LostScd41 == Operating /\ phase # "SETTLE" /\ ~armed
=============================================================================
