---------------------------- MODULE MCMqttClient ----------------------------
EXTENDS MqttClient

\* A telemetry packet is larger than the ring, the others fit.
MCSize == [k \in Kinds |-> IF k = "PUBLISH_QOS0" THEN 3 ELSE IF k = "PUBLISH_QOS1" THEN 2 ELSE 1]
=============================================================================
