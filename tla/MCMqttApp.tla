------------------------------ MODULE MCMqttApp ------------------------------
EXTENDS MqttApp

\* Three steps of the schedule, so that one is neither the first nor the cap.
MCBackoff == [n \in 0 .. 2 |-> n + 1]
=============================================================================
