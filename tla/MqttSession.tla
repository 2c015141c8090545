----------------------------- MODULE MqttSession -----------------------------
(***************************************************************************)
(* What the MQTT client promises its user, without bytes, identifiers and  *)
(* time: one packet is sent at a time, one publish and one subscription    *)
(* wait for their acknowledgement, a PUBACK waits for the packet before it *)
(* and no other, and nothing of a connection outlives it.  MqttClient      *)
(* implements this module, and MqttApp is built on it.                     *)
(***************************************************************************)

VARIABLES
  state,     \* MqttClientState
  sending,   \* the kind of the outgoing packet, "NONE" if there is none
  inflight,  \* a QoS 1 publish is unacknowledged
  sub,       \* a SUBSCRIBE is unacknowledged
  ack,       \* a PUBACK is deferred
  at         \* "caller" between two calls, "ingest" within Run

sessionVars == <<state, sending, inflight, sub, ack, at>>

Opening == {"CONNECTING", "WAIT_CONNACK"}
Alive == {"WAIT_CONNACK", "CONNECTED"}

\* A connection ends, and everything it had with it.
Ends(to) ==
  /\ state' = to /\ sending' = "NONE"
  /\ inflight' = FALSE /\ sub' = FALSE /\ ack' = FALSE
  /\ at' = "caller"

-----------------------------------------------------------------------------
(* Calls.                                                                  *)

Connect ==
  /\ at = "caller" /\ state = "DISCONNECTED"
  /\ state' \in {"CONNECTING", "ERROR"}
  /\ UNCHANGED <<sending, inflight, sub, ack, at>>

Disconnect ==
  /\ at = "caller" /\ state # "DISCONNECTED"
  /\ IF state = "CONNECTED"
     THEN /\ state' = "DISCONNECTING" /\ sending' = "DISCONNECT"
          /\ UNCHANGED <<inflight, sub, ack, at>>
     ELSE Ends("DISCONNECTED")

CanSend == at = "caller" /\ state = "CONNECTED" /\ sending = "NONE"

PublishQos0 ==
  /\ CanSend /\ sending' = "PUBLISH_QOS0"
  /\ UNCHANGED <<state, inflight, sub, ack, at>>

PublishQos1 ==
  /\ CanSend /\ ~inflight
  /\ sending' = "PUBLISH_QOS1" /\ inflight' = TRUE
  /\ UNCHANGED <<state, sub, ack, at>>

Subscribe ==
  /\ CanSend /\ ~sub
  /\ sending' = "SUBSCRIBE" /\ sub' = TRUE
  /\ UNCHANGED <<state, inflight, ack, at>>

-----------------------------------------------------------------------------
(* MqttClient_Run, in parts.                                               *)

\* The connection is lost or given up, at any time.
Fails == state # "DISCONNECTED" /\ Ends("ERROR")

RunOpens ==
  /\ at = "caller" /\ state = "CONNECTING"
  /\ state' = "WAIT_CONNACK" /\ sending' \in {"CONNECT", "NONE"}
  /\ at' = "ingest"
  /\ UNCHANGED <<inflight, sub, ack>>

\* The outgoing packet is handed over or not; a deferred PUBACK is next.
RunServes ==
  /\ at = "caller" /\ state \in Alive
  /\ \/ /\ state = "CONNECTED" /\ ack
        /\ sending' = "PUBACK" /\ ack' = FALSE
     \/ /\ sending' \in {sending, "NONE"}
        /\ ack /\ state = "CONNECTED" => sending' # "NONE"
        /\ UNCHANGED ack
  /\ at' = "ingest"
  /\ UNCHANGED <<state, inflight, sub>>

RunCloses == at = "caller" /\ state = "DISCONNECTING" /\ Ends("DISCONNECTED")

Reads == at = "ingest"

ReceiveConnack ==
  /\ Reads /\ state = "WAIT_CONNACK"
  /\ state' = "CONNECTED"
  /\ UNCHANGED <<sending, inflight, sub, ack, at>>

\* A PUBLISH that is not acknowledged.
ReceivePublish == Reads /\ UNCHANGED sessionVars

\* A PUBLISH that is: its PUBACK is sent at once, or deferred.
ReceivePublishQos1 ==
  /\ Reads
  /\ IF sending = "NONE" THEN sending' = "PUBACK" /\ UNCHANGED ack
     ELSE ack' = TRUE /\ UNCHANGED sending
  /\ UNCHANGED <<state, inflight, sub, at>>

\* An acknowledgement, of the one outstanding or of none.
ReceivePuback ==
  /\ Reads /\ state = "CONNECTED"
  /\ inflight' \in {inflight, FALSE}
  /\ UNCHANGED <<state, sending, sub, ack, at>>

ReceiveSuback ==
  /\ Reads /\ state = "CONNECTED"
  /\ sub' \in {sub, FALSE}
  /\ UNCHANGED <<state, sending, inflight, ack, at>>

\* Keepalive may start a ping.
RunEnd ==
  /\ at = "ingest"
  /\ \/ UNCHANGED sending
     \/ state = "CONNECTED" /\ sending = "NONE" /\ sending' = "PINGREQ"
  /\ at' = "caller"
  /\ UNCHANGED <<state, inflight, sub, ack>>

Init ==
  /\ state = "DISCONNECTED" /\ sending = "NONE"
  /\ inflight = FALSE /\ sub = FALSE /\ ack = FALSE
  /\ at = "caller"

Next ==
  \/ Connect \/ Disconnect \/ PublishQos0 \/ PublishQos1 \/ Subscribe
  \/ Fails \/ RunOpens \/ RunServes \/ RunCloses
  \/ ReceiveConnack \/ ReceivePublish \/ ReceivePublishQos1 \/ ReceivePuback \/ ReceiveSuback
  \/ RunEnd

\* What may happen, and that opening a connection does not take for ever.
SafeSpec == Init /\ [][Next]_sessionVars
Spec == SafeSpec /\ (state \in Opening ~> state \notin Opening)
=============================================================================
