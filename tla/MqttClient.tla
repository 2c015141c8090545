----------------------------- MODULE MqttClient -----------------------------
(***************************************************************************)
(* The MQTT client of Mqtt/Src/mqtt_client.c: connection epochs, the       *)
(* single outgoing packet, the QoS 1 and SUBSCRIBE slots, the deferred     *)
(* PUBACK, keepalive and the timeouts, over a transport whose states and   *)
(* answers are those of NetworkTransport.                                  *)
(*                                                                         *)
(* A packet is a sequence of parts, as many as Size says, so that the      *)
(* transport may accept it piece by piece; MqttIngest tells how inbound    *)
(* packets are cut out of the byte stream, and here any packet may come.   *)
(* MqttClient_Run is RunBegin, one Receive action per inbound packet, and  *)
(* RunEnd; no other call and no tick comes in between.                     *)
(***************************************************************************)
EXTENDS Integers, Sequences

CONSTANTS
  Size,            \* how many parts a packet of each kind has
  RingCap,         \* how many parts the transport's ring holds
  MaxId,           \* 65535 in the firmware
  PacketsPerRun,   \* MAX_PACKETS_PER_RUN
  Keepalive,       \* keepalive_s, in ticks
  PingTimeout,     \* MQTT_PINGRESP_TIMEOUT_MS
  ConnackTimeout,  \* MQTT_CONNACK_TIMEOUT_MS
  NetTimeout,      \* the transport's bound on opening a connection
  MaxLag           \* most ticks between two calls of MqttClient_Run

Kinds == {"CONNECT", "PINGREQ", "DISCONNECT", "PUBLISH_QOS0", "PUBLISH_QOS1", "SUBSCRIBE", "PUBACK"}

ASSUME ClientAssumption ==
  /\ Size \in [Kinds -> Nat \ {0}]
  /\ RingCap \in Nat \ {0} /\ MaxId \in Nat \ {0} /\ PacketsPerRun \in Nat \ {0}
  /\ Keepalive \in Nat \ {0} /\ PingTimeout \in Nat \ {0} /\ ConnackTimeout \in Nat \ {0}
  /\ NetTimeout \in Nat \ {0} /\ MaxLag \in Nat \ {0}

VARIABLES
  state,     \* MqttClientState
  net,       \* the transport's state
  ring,      \* the parts waiting in the transport's TX ring
  wire,      \* the last part handed to the adapter on this connection
  tx,        \* the outgoing packet: its kind and how many parts were accepted
  rx,        \* part of an inbound packet is in rx_buf
  inflight,  \* the identifier of the unacknowledged QoS 1 publish, 0 if none
  sub,       \* the identifier of the pending SUBSCRIBE, 0 if none
  ack,       \* the identifier of the deferred PUBACK, 0 if none
  ping,      \* ping_outstanding
  nextId, nextSub,
  idle,      \* ticks since last_activity_ms
  pingAge,   \* ticks since ping_sent_ms
  wait,      \* ticks since Connect, or since the CONNACK deadline was set
  lag,       \* ticks since the last Run, for the bound MaxLag
  at,        \* "caller" between two calls, "ingest" within Run
  left       \* how many packets this Run may still take

slots == <<inflight, sub, ack>>
conn == <<tx, rx, inflight, sub, ack, ping>>
link == <<net, ring, wire>>
ids == <<nextId, nextSub>>
ages == <<idle, pingAge, wait>>
vars == <<state, link, conn, ids, ages, lag, at, left>>

States == {"DISCONNECTED", "CONNECTING", "WAIT_CONNACK", "CONNECTED", "DISCONNECTING", "ERROR"}
NetStates == {"DISCONNECTED", "CONNECTING", "CONNECTED", "CLOSING", "ERROR"}

NoTx == [kind |-> "NONE", off |-> 0]
\* A part of a packet, and how many parts of the packet come after it.
Parts == [kind : Kinds, rest : Nat]
\* What is on the wire ends with a whole packet, or nothing is.
Whole == [kind |-> "NONE", rest |-> 0]

\* An age is counted while something reads it and no further than it matters,
\* and is 0 else.
IdleCap == Keepalive + 2 * MaxLag
PingCap == PingTimeout + MaxLag
WaitCap == NetTimeout + 2 * ConnackTimeout + MaxLag
Older(age, cap) == IF age < cap THEN age + 1 ELSE age

TypeOK ==
  /\ state \in States /\ net \in NetStates
  /\ ring \in Seq(Parts) /\ Len(ring) <= RingCap
  /\ wire \in Parts \cup {Whole}
  /\ tx \in {NoTx} \cup UNION {[kind : {k}, off : 0 .. Size[k] - 1] : k \in Kinds}
  /\ rx \in BOOLEAN /\ ping \in BOOLEAN
  /\ inflight \in 0 .. MaxId /\ sub \in 0 .. MaxId /\ ack \in 0 .. MaxId
  /\ nextId \in 1 .. MaxId /\ nextSub \in 1 .. MaxId
  /\ idle \in 0 .. IdleCap /\ pingAge \in 0 .. PingCap /\ wait \in 0 .. WaitCap
  /\ lag \in 0 .. MaxLag
  /\ at \in {"caller", "ingest"} /\ left \in 0 .. PacketsPerRun

-----------------------------------------------------------------------------
(* The outgoing packet.                                                    *)

\* The next n parts of packet t.
PartsOf(t, n) == [i \in 1 .. n |-> [kind |-> t.kind, rest |-> Size[t.kind] - (t.off + i)]]
Start(kind) == [kind |-> kind, off |-> 0]
Pending(t) == t.kind # "NONE"

\* How many parts of packet t a ring with these parts accepts.
Accepted(t, parts) ==
  LET missing == Size[t.kind] - t.off
      room == RingCap - Len(parts)
  IN IF missing <= room THEN missing ELSE room
Completes(t, parts) == Pending(t) /\ t.off + Accepted(t, parts) = Size[t.kind]
TxAfter(t, parts) ==
  IF ~Pending(t) \/ Completes(t, parts) THEN NoTx
  ELSE [kind |-> t.kind, off |-> t.off + Accepted(t, parts)]
RingAfter(t, parts) ==
  IF Pending(t) THEN parts \o PartsOf(t, Accepted(t, parts)) ELSE parts

\* The identifier after id; 0 is none.
NextPacketId(id) == IF id = MaxId THEN 1 ELSE id + 1

-----------------------------------------------------------------------------
(* The end of a connection epoch.                                          *)

\* Mutant: the deferred PUBACK survives the connection.
KeepAck ==
  /\ tx' = NoTx /\ rx' = FALSE /\ ping' = FALSE
  /\ inflight' = 0 /\ sub' = 0 /\ UNCHANGED ack
  /\ idle' = 0 /\ pingAge' = 0 /\ wait' = 0
ResetConnectionEpoch ==
  /\ tx' = NoTx /\ rx' = FALSE /\ ping' = FALSE
  /\ inflight' = 0 /\ sub' = 0 /\ ack' = 0
  /\ idle' = 0 /\ pingAge' = 0 /\ wait' = 0

CloseTransport == net' = "DISCONNECTED" /\ ring' = <<>> /\ wire' = Whole

\* CloseTransport, then EnterError: the call of Run that meets an error ends.
Fail ==
  /\ state' = "ERROR"
  /\ ResetConnectionEpoch /\ CloseTransport
  /\ at' = "caller" /\ left' = 0
  /\ UNCHANGED ids

-----------------------------------------------------------------------------
(* Calls.                                                                  *)

\* MqttClient_Connect: the transport opens a connection or refuses.
Connect ==
  /\ at = "caller" /\ state = "DISCONNECTED"
  /\ \/ /\ net = "DISCONNECTED"
        /\ net' = "CONNECTING" /\ state' = "CONNECTING"
        /\ wait' = 0
     \/ /\ net' = (IF net = "DISCONNECTED" THEN "ERROR" ELSE net)
        /\ state' = "ERROR"
        /\ UNCHANGED wait
  /\ UNCHANGED <<ring, wire, conn, ids, idle, pingAge, lag, at, left>>

\* MqttClient_Disconnect: a connected client queues a DISCONNECT packet, in
\* place of what it was sending; any other tears down at once.
Disconnect ==
  /\ at = "caller" /\ state # "DISCONNECTED"
  /\ IF state = "CONNECTED"
     THEN /\ tx' = Start("DISCONNECT")
          /\ state' = "DISCONNECTING"
          /\ UNCHANGED <<link, rx, slots, ping, ages>>
     ELSE /\ CloseTransport /\ ResetConnectionEpoch
          /\ state' = "DISCONNECTED"
  /\ UNCHANGED <<ids, lag, at, left>>

\* Mutant: the packet being sent is not waited for.
ReadyToSend == at = "caller" /\ state = "CONNECTED"
\* Where the transmit buffer is taken the call answers MQTT_BUSY.
CanSend == at = "caller" /\ state = "CONNECTED" /\ ~Pending(tx)

PublishQos0 ==
  /\ CanSend
  /\ tx' = Start("PUBLISH_QOS0")
  /\ idle' = 0
  /\ UNCHANGED <<state, link, rx, slots, ping, ids, pingAge, wait, lag, at, left>>

\* A topic that cannot be encoded still uses up an identifier.
PublishQos1 ==
  /\ CanSend /\ inflight = 0
  /\ nextId' = NextPacketId(nextId)
  /\ \/ /\ tx' = Start("PUBLISH_QOS1")
        /\ inflight' = nextId
        /\ idle' = 0
     \/ UNCHANGED <<tx, inflight, idle>>
  /\ UNCHANGED <<state, link, rx, sub, ack, ping, nextSub, pingAge, wait, lag, at, left>>

Subscribe ==
  /\ CanSend /\ sub = 0
  /\ nextSub' = NextPacketId(nextSub)
  /\ \/ /\ tx' = Start("SUBSCRIBE")
        /\ sub' = nextSub
        /\ idle' = 0
     \/ UNCHANGED <<tx, sub, idle>>
  /\ UNCHANGED <<state, link, rx, inflight, ack, ping, nextId, pingAge, wait, lag, at, left>>

-----------------------------------------------------------------------------
(* MqttClient_Run.                                                         *)

\* What NetworkTransport_Run may answer, and what it leaves behind.
Answer(status, n, parts, last) == [status |-> status, net |-> n, ring |-> parts, wire |-> last]
Sent(n) == IF n = 0 THEN wire ELSE IF ring[n].rest = 0 THEN Whole ELSE ring[n]
Unsent(n) == SubSeq(ring, n + 1, Len(ring))
NetRun ==
  IF net = "DISCONNECTED" THEN {Answer("NOT_CONNECTED", net, ring, wire)}
  ELSE IF net = "ERROR" THEN {Answer("TRANSPORT_ERROR", net, ring, wire)}
  ELSE IF net = "CLOSING" THEN {Answer("OK", net, ring, wire)}
  ELSE IF net = "CONNECTING"
  THEN {Answer("OK", "CONNECTED", ring, wire)}
       \cup (IF wait < NetTimeout THEN {Answer("IN_PROGRESS", net, ring, wire)} ELSE {})
       \cup (IF wait < NetTimeout THEN {} ELSE {Answer("TIMEOUT", "ERROR", ring, wire)})
       \cup {Answer(s, "ERROR", ring, wire) : s \in {"TRANSPORT_ERROR", "REMOTE_CLOSED"}}
  ELSE {Answer("OK", net, Unsent(n), Sent(n)) : n \in 0 .. Len(ring)}
       \cup {Answer("REMOTE_CLOSED", "CLOSING", Unsent(n), Sent(n)) : n \in 0 .. Len(ring)}
       \cup {Answer(s, "ERROR", <<>>, Sent(n)) : s \in {"TRANSPORT_ERROR", "REMOTE_CLOSED"}, n \in 0 .. Len(ring)}

\* After answer r, DrainTx puts what fits of packet t into the ring.
Drains(r, t) ==
  /\ net' = r.net /\ wire' = r.wire
  /\ ring' = RingAfter(t, r.ring)
  /\ ping' = (ping \/ (Completes(t, r.ring) /\ t.kind = "PINGREQ"))
  /\ pingAge' = IF Completes(t, r.ring) /\ t.kind = "PINGREQ" THEN 0 ELSE pingAge
  /\ idle' = IF Completes(t, r.ring) THEN 0 ELSE idle

\* An error of the transport, or a send to a connection that is gone.
RunFails ==
  \E r \in NetRun :
    /\ \/ r.status = "TRANSPORT_ERROR"
       \/ state = "CONNECTING" /\ r.status \notin {"OK", "IN_PROGRESS"}
       \/ state # "CONNECTING" /\ Pending(tx) /\ r.net # "CONNECTED"
    /\ Fail

\* The connection is still being opened.
RunWaits ==
  \E r \in NetRun :
    /\ state = "CONNECTING" /\ r.status = "IN_PROGRESS"
    /\ UNCHANGED <<state, link, conn, ids, ages, at, left>>

\* The connection is open: CONNECT is sent and CONNACK waited for.
RunStartsSession ==
  \E r \in NetRun :
    /\ state = "CONNECTING" /\ r.status = "OK"
    /\ Drains(r, Start("CONNECT"))
    /\ tx' = TxAfter(Start("CONNECT"), r.ring)
    /\ state' = "WAIT_CONNACK" /\ wait' = 0
    /\ at' = "ingest" /\ left' = PacketsPerRun
    /\ UNCHANGED <<rx, slots, ids>>

\* The answer to a Run that goes on, and whose packet can be sent.
GoesOn(r) == r.status # "TRANSPORT_ERROR" /\ (Pending(tx) => r.net = "CONNECTED")

\* Mutant: CONNACK is waited for without end.
ConnackForgotten(age) == FALSE
\* Elapsed(now, connack_deadline_ms, MQTT_CONNACK_TIMEOUT_MS): the timeout is
\* counted from the deadline, which already is a timeout away.
ConnackElapsed(age) == age >= 2 * ConnackTimeout

\* CONNACK is waited for: the deadline restarts when CONNECT is wholly accepted.
RunAwaitsConnack ==
  \E r \in NetRun :
    LET age == IF Completes(tx, r.ring) /\ tx.kind = "CONNECT" THEN 0 ELSE wait IN
    /\ state = "WAIT_CONNACK" /\ GoesOn(r)
    /\ IF r.net \in {"ERROR", "CLOSING"} \/ ConnackElapsed(age)
       THEN Fail
       ELSE /\ Drains(r, tx)
            /\ tx' = TxAfter(tx, r.ring)
            /\ wait' = age
            /\ at' = "ingest" /\ left' = PacketsPerRun
            /\ UNCHANGED <<state, rx, slots, ids>>

\* Connected: a deferred PUBACK takes the transmit buffer once it is free.
RunServes ==
  \E r \in NetRun :
    LET sending == TxAfter(tx, r.ring)
        flush == ack # 0 /\ ~Pending(sending)
    IN
    /\ state = "CONNECTED" /\ GoesOn(r)
    /\ Drains(r, tx)
    /\ tx' = IF flush THEN Start("PUBACK") ELSE sending
    /\ ack' = IF flush THEN 0 ELSE ack
    /\ at' = "ingest" /\ left' = PacketsPerRun
    /\ UNCHANGED <<state, rx, inflight, sub, ids, wait>>

\* Disconnecting: what was put into the ring is cleared with the transport.
RunDisconnects ==
  \E r \in NetRun :
    /\ state = "DISCONNECTING" /\ GoesOn(r)
    /\ CloseTransport /\ ResetConnectionEpoch
    /\ state' = "DISCONNECTED"
    /\ UNCHANGED <<ids, at, left>>

\* No connection: nothing to do.
RunIdle ==
  \E r \in NetRun :
    /\ state \in {"DISCONNECTED", "ERROR"} /\ GoesOn(r)
    /\ UNCHANGED <<state, link, conn, ids, ages, at, left>>

RunBegin ==
  /\ at = "caller"
  /\ lag' = 0
  /\ RunFails \/ RunWaits \/ RunStartsSession \/ RunAwaitsConnack \/ RunServes
     \/ RunDisconnects \/ RunIdle

-----------------------------------------------------------------------------
(* Ingest and DispatchPacket: one inbound packet each.                     *)

\* The transport hands out bytes while it is connected, and those it had
\* received before the end of the stream.
Reads == at = "ingest" /\ left > 0 /\ net \in {"CONNECTED", "CLOSING"}

\* The packet is handled and the parser is empty again.
Handled == left' = left - 1 /\ rx' = FALSE /\ UNCHANGED <<link, lag, at>>
Refused == Fail /\ UNCHANGED lag

\* CONNACK: accepted, or refused by the broker, or out of place.
ReceiveConnack ==
  /\ Reads
  /\ \/ /\ state = "WAIT_CONNACK"
        /\ state' = "CONNECTED"
        /\ idle' = 0 /\ wait' = 0
        /\ Handled
        /\ UNCHANGED <<tx, slots, ping, ids, pingAge>>
     \/ Refused

\* PUBLISH that needs no acknowledgement, or that the application rejects.
ReceivePublish ==
  /\ Reads
  /\ Handled
  /\ UNCHANGED <<state, tx, slots, ping, ids, ages>>

\* QoS 1 PUBLISH the application accepts: PUBACK is sent, or deferred if a
\* packet is being sent.
ReceivePublishQos1 ==
  /\ Reads
  /\ \E id \in 1 .. MaxId :
       IF Pending(tx)
       THEN ack' = id /\ UNCHANGED tx
       ELSE tx' = Start("PUBACK") /\ UNCHANGED ack
  /\ Handled
  /\ UNCHANGED <<state, inflight, sub, ping, ids, ages>>

\* An acknowledgement with another identifier completes nothing.
Acknowledges(slot, id) == slot # 0 /\ id = slot

ReceivePuback ==
  /\ Reads
  /\ \E id \in 1 .. MaxId :
       IF state # "CONNECTED" THEN Refused
       ELSE /\ inflight' = IF Acknowledges(inflight, id) THEN 0 ELSE inflight
            /\ Handled
            /\ UNCHANGED <<state, tx, sub, ack, ping, ids, ages>>

ReceiveSuback ==
  /\ Reads
  /\ \E id \in 1 .. MaxId :
       IF state # "CONNECTED" THEN Refused
       ELSE /\ sub' = IF Acknowledges(sub, id) THEN 0 ELSE sub
            /\ Handled
            /\ UNCHANGED <<state, tx, inflight, ack, ping, ids, ages>>

ReceivePingresp ==
  /\ Reads
  /\ IF state # "CONNECTED" THEN Refused
     ELSE /\ ping' = FALSE /\ pingAge' = 0
          /\ idle' = IF ping THEN 0 ELSE idle
          /\ Handled
          /\ UNCHANGED <<state, tx, slots, ids, wait>>

\* A malformed, oversized or unsupported packet.
ReceiveBad == Reads /\ Refused

\* The end of the stream, once its bytes are read.
ReceiveEnd == Reads /\ net = "CLOSING" /\ Refused

\* Mutant: a PINGREQ is written over the packet being sent.
PingNow == state = "CONNECTED" /\ ~ping /\ idle >= Keepalive
\* RunKeepalive sends PINGREQ after an idle keepalive period, if it can.
PingDue == state = "CONNECTED" /\ ~ping /\ idle >= Keepalive /\ ~Pending(tx)
\* Mutant: an unanswered ping is never given up.
PingForgotten == FALSE
PingOverdue == state = "CONNECTED" /\ ping /\ pingAge >= PingTimeout

\* No more packets in this Run, perhaps a part of one; then RunKeepalive.  (In
\* the Run that receives CONNACK the code skips it, and it would do nothing.)
RunEnd ==
  /\ at = "ingest"
  /\ IF PingOverdue THEN Fail
     ELSE /\ UNCHANGED rx \/ (Reads /\ rx' = TRUE)
          /\ tx' = IF PingDue THEN Start("PINGREQ") ELSE tx
          /\ at' = "caller" /\ left' = 0
          /\ UNCHANGED <<state, link, slots, ping, ids, ages>>
  /\ UNCHANGED lag

Receive ==
  \/ ReceiveConnack \/ ReceivePublish \/ ReceivePublishQos1 \/ ReceivePuback \/ ReceiveSuback
  \/ ReceivePingresp \/ ReceiveBad \/ ReceiveEnd

\* Time passes between two calls.
Tick ==
  /\ at = "caller" /\ lag < MaxLag
  /\ lag' = lag + 1
  /\ idle' = IF state = "CONNECTED" THEN Older(idle, IdleCap) ELSE idle
  /\ pingAge' = IF state = "CONNECTED" /\ ping THEN Older(pingAge, PingCap) ELSE pingAge
  /\ wait' = IF state \in {"CONNECTING", "WAIT_CONNACK"} THEN Older(wait, WaitCap) ELSE wait
  /\ UNCHANGED <<state, link, conn, ids, at, left>>

Init ==
  /\ state = "DISCONNECTED"
  /\ net = "DISCONNECTED" /\ ring = <<>> /\ wire = Whole
  /\ tx = NoTx /\ rx = FALSE /\ ping = FALSE
  /\ inflight = 0 /\ sub = 0 /\ ack = 0
  /\ nextId = 1 /\ nextSub = 1
  /\ idle = 0 /\ pingAge = 0 /\ wait = 0
  /\ lag = 0 /\ at = "caller" /\ left = 0

Call == Connect \/ Disconnect \/ PublishQos0 \/ PublishQos1 \/ Subscribe
Run == RunBegin \/ Receive \/ RunEnd
Next == Call \/ Run \/ Tick

\* The super-loop calls MqttClient_Run for ever, a call of Run ends, and the
\* clock goes on; as it ticks here between calls only, it does so under strong
\* fairness.
Fairness == WF_vars(RunBegin) /\ WF_vars(RunEnd) /\ SF_vars(Tick)
Spec == Init /\ [][Next]_vars /\ Fairness

-----------------------------------------------------------------------------
(* Properties.                                                             *)

\* Nothing of a connection is left when it has ended, and the transport is
\* ready for the next one (mqtt_client.c:43-59, 74-78): Connect never finds a
\* transport that is still open.
EpochEnded == tx = NoTx /\ ~rx /\ ~ping /\ inflight = 0 /\ sub = 0 /\ ack = 0 /\ ring = <<>> /\ wire = Whole
EpochClean ==
  /\ state \in {"DISCONNECTED", "CONNECTING", "ERROR"} => EpochEnded
  /\ state = "DISCONNECTED" => net = "DISCONNECTED"
  /\ state = "CONNECTING" => net = "CONNECTING"
  /\ state = "ERROR" => net \in {"DISCONNECTED", "ERROR"}
  /\ state \in {"WAIT_CONNACK", "CONNECTED"} => net \in {"CONNECTED", "CLOSING", "ERROR"}

\* Packets follow one another whole on the wire: a packet is continued by its
\* next part and by nothing else, across partial acceptance, deferral and
\* teardown (mqtt_client.c:83-97, 679-691, 700-715).
Follows(a, b) == IF a.rest = 0 THEN b.rest = Size[b.kind] - 1
                 ELSE b.kind = a.kind /\ b.rest = a.rest - 1
Framed(parts) == \A i \in 1 .. Len(parts) - 1 : Follows(parts[i], parts[i + 1])
Queued == <<wire>> \o ring
Remaining == IF Pending(tx) THEN PartsOf(tx, Size[tx.kind] - tx.off) ELSE <<>>
WireFramed ==
  /\ Framed(Queued)
  /\ state # "DISCONNECTING" /\ net # "ERROR" => Framed(Queued \o Remaining)

\* A ping is given up in time, and a connection with a free transmit buffer is
\* never silent for longer than the keepalive period (mqtt_client.c:489-516).
KeepaliveKept ==
  state = "CONNECTED" /\ at = "caller" =>
    /\ ping => pingAge < PingTimeout + MaxLag
    /\ ~ping /\ ~Pending(tx) => idle < Keepalive + MaxLag

\* docs/mqtt_client.md:111-112: "If no outbound MQTT packet is accepted within
\* the keepalive interval, a PINGREQ is issued", also while the peer takes no
\* bytes: the ping is queued by the first Run after the interval and accepted by
\* the second (mqtt_client.c:502-513).
PingInTime ==
  state = "CONNECTED" /\ at = "caller" /\ ~ping => idle < Keepalive + 2 * MaxLag

\* The handshake always ends, with a session or without (mqtt_client.c:593-650).
HandshakeEnds ==
  state \in {"CONNECTING", "WAIT_CONNACK"} ~> state \notin {"CONNECTING", "WAIT_CONNACK"}

\* What the client promises its user: MqttSession, with the parts, identifiers,
\* ages and the transport hidden.
Session == INSTANCE MqttSession WITH
  sending <- tx.kind, inflight <- inflight # 0, sub <- sub # 0, ack <- ack # 0
ImplementsSession == Session!Spec
=============================================================================
