------------------------------ MODULE MCSensors -----------------------------
(* Sensors with short intervals, and a backoff that grows twice.           *)
EXTENDS Sensors

MCBackoff == [n \in 1 .. 3 |-> n]
=============================================================================
