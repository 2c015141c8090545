------------------------------- MODULE MqttCodec -------------------------------
(***************************************************************************)
(* The MQTT 3.1.1 codec (mqtt_codec.c): pure functions between messages    *)
(* and byte strings.  An encoder takes the capacity of the caller's buffer *)
(* and answers the packet, or <<>> (the code's 0) when it encodes nothing; *)
(* a decoder answers a record whose "status" is the code's MqttCodecStatus *)
(* and whose other fields mean something only when the status is "OK".     *)
(***************************************************************************)
EXTENDS MqttUtf8

CONSTANTS MaxPacketSize,        \* MQTT_MAX_PACKET_SIZE
          MaxPayloadSize,       \* MQTT_MAX_PAYLOAD_SIZE
          MaxClientIdLength     \* MQTT_MAX_CLIENT_ID_LENGTH

RlMaxBytes == 4                 \* MQTT_RL_MAX_BYTES

\* The packet types the encoders write, as MQTT_PKT_x << 4.
CONNECT    == 16
PUBLISH    == 48
PUBACK     == 64
SUBSCRIBE  == 128
PINGREQ    == 192
DISCONNECT == 224

Fails(status) == [status |-> status]

-----------------------------------------------------------------------------
(* Remaining length *)

\* The value held in at most RlMaxBytes bytes, seven bits a byte, lowest first.
VarIntValue(bytes) ==
    LET Digit(i) == IF i <= Len(bytes) THEN bytes[i] % 128 ELSE 0
    IN  Digit(1) + 128 * (Digit(2) + 128 * (Digit(3) + 128 * Digit(4)))

ReadVarInt(buf) ==
    LET ends == {i \in DOMAIN buf : i <= RlMaxBytes /\ buf[i] < 128}
    IN  IF ends # {}
        THEN LET n == CHOOSE i \in ends : \A j \in ends : i <= j
             IN  [status |-> "OK", consumed |-> n,
                  value |-> VarIntValue(SubSeq(buf, 1, n))]
        ELSE Fails(IF Len(buf) < RlMaxBytes THEN "WOULD_BLOCK" ELSE "MALFORMED")

WriteVarInt(value) ==
    LET digits[v \in 0..value] ==
            IF v < 128 THEN <<v>> ELSE <<128 + (v % 128)>> \o digits[v \div 128]
    IN  digits[value]

DecodeFixedHeader(buf) ==
    IF buf = <<>> THEN Fails("WOULD_BLOCK")
    ELSE IF buf[1] \div 16 \notin 1..14 THEN Fails("MALFORMED")
    ELSE LET rl == ReadVarInt(Tail(buf))
         IN  IF rl.status # "OK" THEN rl
             ELSE IF rl.value > MaxPacketSize THEN Fails("PACKET_TOO_LARGE")
             ELSE [status |-> "OK", packetType |-> buf[1] \div 16,
                   flags |-> buf[1] % 16, remaining |-> rl.value,
                   headerLen |-> 1 + rl.consumed]

-----------------------------------------------------------------------------
(* Encoders *)

Be16(v) == <<v \div 256, v % 256>>
Be16Read(s, i) == s[i] * 256 + s[i + 1]

\* write_fixed() with the caller's own test of the room: the head announces
\* "rl" bytes; nothing is written when the head and those bytes do not fit.
Framed(cap, typeFlags, rl, body) ==
    LET head == <<typeFlags>> \o WriteVarInt(rl)
    IN  IF Len(head) + rl > cap THEN <<>> ELSE head \o body

EncodeConnect(cap, clientId, keepalive) ==
    IF Len(clientId) \notin 1..MaxClientIdLength \/ ~Valid(clientId) THEN <<>>
    ELSE Framed(cap, CONNECT, 10 + 2 + Len(clientId),
                <<0, 4, 77, 81, 84, 84, 4, 2>>
                   \o Be16(keepalive) \o Be16(Len(clientId)) \o clientId)

EncodePublish(cap, topic, payload, qos, retain, packetId) ==
    IF qos > 1 \/ Len(payload) > MaxPayloadSize \/ ~IsValidTopicName(topic)
    THEN <<>>
    ELSE LET id == IF qos > 0 THEN Be16(packetId) ELSE <<>>
         IN  Framed(cap, PUBLISH + 2 * qos + (IF retain THEN 1 ELSE 0),
                    2 + Len(topic) + Len(id) + Len(payload),
                    Be16(Len(topic)) \o topic \o id \o payload)

\* The length announced counts the packet id, the filter and the QoS byte, but
\* not the two bytes of the filter's own length, which are written.
EncodeSubscribe(cap, topic, qos, packetId) ==
    IF qos > 1 \/ packetId = 0 \/ ~IsValidTopicFilter(topic) THEN <<>>
    ELSE Framed(cap, SUBSCRIBE + 2, 2 + Len(topic) + 1,
                Be16(packetId) \o Be16(Len(topic)) \o topic \o <<qos>>)

EncodePingreq(cap) == IF cap < 2 THEN <<>> ELSE <<PINGREQ, 0>>
EncodeDisconnect(cap) == IF cap < 2 THEN <<>> ELSE <<DISCONNECT, 0>>
EncodePuback(cap, packetId) ==
    IF cap < 4 \/ packetId = 0 THEN <<>> ELSE <<PUBACK, 2>> \o Be16(packetId)

-----------------------------------------------------------------------------
(* Decoders, given the body: the bytes after the fixed header *)

DecodeConnack(body) ==
    IF Len(body) # 2 \/ body[1] > 1 THEN Fails("MALFORMED")
    ELSE [status |-> "OK", sessionPresent |-> body[1] = 1, returnCode |-> body[2]]

\* mutant: the packet id of a QoS 1 message is taken for payload
DecodePublishNoId(qos, body) ==
    IF Len(body) < 2 \/ Len(body) < 2 + Be16Read(body, 1) THEN Fails("MALFORMED")
    ELSE LET len == Be16Read(body, 1)
             topic == SubSeq(body, 3, 2 + len)
         IN  IF ~IsValidTopicName(topic) THEN Fails("MALFORMED")
             ELSE [status |-> "OK", topic |-> topic, qos |-> qos, packetId |-> 1,
                   payload |-> SubSeq(body, 3 + len, Len(body))]

DecodePublish(qos, body) ==
    IF Len(body) < 2 \/ Len(body) < 2 + Be16Read(body, 1) THEN Fails("MALFORMED")
    ELSE LET len      == Be16Read(body, 1)
             topic    == SubSeq(body, 3, 2 + len)
             idBytes  == IF qos > 0 THEN 2 ELSE 0
             payload  == SubSeq(body, 3 + len + idBytes, Len(body))
             hasId    == Len(body) >= 2 + len + idBytes
             packetId == IF qos > 0 THEN Be16Read(body, 3 + len) ELSE 0
         IN  IF /\ IsValidTopicName(topic)
                /\ hasId /\ (qos > 0 => packetId # 0)
                /\ Len(payload) <= MaxPayloadSize
             THEN [status |-> "OK", topic |-> topic, qos |-> qos,
                   packetId |-> packetId, payload |-> payload]
             ELSE Fails("MALFORMED")

DecodePuback(body) ==
    IF Len(body) # 2 \/ Be16Read(body, 1) = 0 THEN Fails("MALFORMED")
    ELSE [status |-> "OK", packetId |-> Be16Read(body, 1)]

DecodeSuback(body) ==
    IF Len(body) < 3 \/ Be16Read(body, 1) = 0 THEN Fails("MALFORMED")
    ELSE [status |-> "OK", packetId |-> Be16Read(body, 1),
          returnCode |-> body[3], granted |-> body[3] \in {0, 1}]

=============================================================================
