---------------------------- MODULE MCLightSensor ---------------------------
(* LightSensor with four ranges, each twice as sensitive as the one before, *)
(* the firmware's limits on counts, and light on both sides of every limit. *)
EXTENDS LightSensor

MCResolution == [r \in Ranges |-> 2 ^ (3 - r)]
MCIntegrationTime == [r \in Ranges |-> IF r < 2 THEN 2 ELSE r + 1]
MCBackoff == [n \in 1 .. 3 |-> n]

\* In the most sensitive range counts are brightnesses; in the least, an eighth.
MCBrightnesses ==
  {0, Low - 1, Low, 2 * Low - 1, High + 1, 8 * High, 8 * High + 8,
   4 * Saturation, 8 * Saturation - 8, 8 * Saturation, 8 * MaxCount + 8}
=============================================================================
