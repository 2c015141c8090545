------------------------------ MODULE WireFormats ------------------------------
(***************************************************************************)
(* The codec, the topic checks and the command parser, fed with input.     *)
(*                                                                         *)
(* Each of them is a pure function that the firmware calls on a buffer     *)
(* others fill: a byte at a time, a packet at a time, a whole message.     *)
(* Here the buffer, "text", is filled in every way the bounds allow, and   *)
(* each function is compared, on every buffer, with a definition of the    *)
(* same language written the other way round: by what a writer may write   *)
(* instead of by what a scan accepts.                                      *)
(***************************************************************************)
EXTENDS MqttCodec, CommandParser, FiniteSets, SequencesExt

CONSTANTS Alphabet,     \* [kind of text -> the characters it is written with]
          MaxLength,    \* [kind of text -> how long it gets]
          Messages,     \* the messages put on the wire
          Contracts,    \* command messages with every set of arguments, as tokens
          Seeds,        \* command messages that get edited
          EditTokens,   \* the tokens an edit of a seed may bring in
          MaxEdits

VARIABLES kind,         \* what the buffer is read as
          text,         \* the buffer
          sent,         \* the message being put on the wire
          edits         \* how often the seed has been edited

wireVars == <<kind, text, sent, edits>>

NoMessage == [type |-> "none"]

\* A number two bytes hold.
Is16Bit(n) == n \in Nat /\ n \div 256 < 256

\* A message with the fields its encoder takes; what the client sends has a
\* buffer of "cap" bytes.
IsMessage(m) ==
    /\ m.cap \in Nat
    /\ m.type \in {"CONNECT", "CONNACK", "PUBLISH", "PUBACK", "SUBSCRIBE", "SUBACK",
                   "PINGREQ", "DISCONNECT"}
    /\ m.type = "CONNECT" => m.clientId \in Seq(Byte) /\ Is16Bit(m.keepalive)
    /\ m.type = "PUBLISH" =>
          /\ m.topic \in Seq(Byte) /\ m.payload \in Seq(Byte)
          /\ m.qos \in {0, 1} /\ m.retain \in BOOLEAN
          /\ Is16Bit(m.packetId) /\ (m.qos = 1 => m.packetId # 0)
    /\ m.type = "PUBACK" => Is16Bit(m.packetId)
    /\ m.type = "SUBSCRIBE" =>
          m.topic \in Seq(Byte) /\ m.qos \in {0, 1} /\ Is16Bit(m.packetId)
    /\ m.type = "CONNACK" =>
          m.sessionPresent \in BOOLEAN /\ m.returnCode \in Byte /\ m.cap >= 5
    /\ m.type = "SUBACK" =>
          /\ Is16Bit(m.packetId) /\ m.packetId # 0
          /\ m.returnCode \in {0, 1, 128} /\ m.cap >= 5

\* The alphabets of the byte strings hold bytes, and the packets the client is
\* configured to send are within the size it accepts, a length of two bytes.
\* Command messages are tokens, and a string's buffer has room for a terminator.
ASSUME WireAssumption ==
    /\ DOMAIN Alphabet = {"utf8", "filter", "header", "body", "number", "string"}
    /\ \A k \in {"utf8", "filter", "header", "body"} : Alphabet[k] \subseteq Byte
    /\ {MaxTopicLength, MaxPayloadSize, MaxClientIdLength} \subseteq Nat
    /\ MaxPacketSize \in 4..16383
    /\ MaxTopicLength + MaxPayloadSize + 4 <= MaxPacketSize
    /\ MaxClientIdLength + 12 <= MaxPacketSize
    /\ \A m \in Messages : IsMessage(m)
    /\ MaxUint \in Nat /\ MaxString \in Nat \ {0}
    /\ \A s \in Contracts \cup Seeds : s \in Seq(Tokens)
    /\ EditTokens \subseteq Tokens

-----------------------------------------------------------------------------
(* Messages and their packets *)

\* What the broker sends and the client only decodes.
BrokerConnack(m) == <<32, 2, IF m.sessionPresent THEN 1 ELSE 0, m.returnCode>>
BrokerSuback(m) == <<144, 3>> \o Be16(m.packetId) \o <<m.returnCode>>

\* The packet written to a buffer of "cap" bytes; every packet fits "Unbounded".
Encode(m, cap) ==
    CASE m.type = "CONNECT"    -> EncodeConnect(cap, m.clientId, m.keepalive)
      [] m.type = "PUBLISH"    -> EncodePublish(cap, m.topic, m.payload, m.qos,
                                                m.retain, m.packetId)
      [] m.type = "SUBSCRIBE"  -> EncodeSubscribe(cap, m.topic, m.qos, m.packetId)
      [] m.type = "PUBACK"     -> EncodePuback(cap, m.packetId)
      [] m.type = "PINGREQ"    -> EncodePingreq(cap)
      [] m.type = "DISCONNECT" -> EncodeDisconnect(cap)
      [] m.type = "CONNACK"    -> BrokerConnack(m)
      [] m.type = "SUBACK"     -> BrokerSuback(m)

Unbounded == MaxPacketSize + RlMaxBytes + 1

-----------------------------------------------------------------------------
(* The buffer fills *)

WireInit ==
    /\ \/ kind \in DOMAIN Alphabet \cup {"packet"} /\ text = <<>>
       \/ kind = "contract" /\ text \in Contracts
       \/ kind = "command" /\ text \in Seeds
    /\ sent = NoMessage
    /\ edits = 0

\* One more byte or character of a text comes in.
Receive ==
    /\ kind \in DOMAIN Alphabet
    /\ Len(text) < MaxLength[kind]
    /\ \E c \in Alphabet[kind] : text' = Append(text, c)
    /\ UNCHANGED <<kind, sent, edits>>

\* A message is encoded, and its packet is on the way.
Send ==
    /\ kind = "packet" /\ sent = NoMessage
    /\ sent' \in Messages
    /\ UNCHANGED <<kind, text, edits>>

\* The head of the packet arrives byte by byte, the rest at once.
Arrive ==
    /\ kind = "packet" /\ sent # NoMessage
    /\ LET wire == Encode(sent, sent.cap)
       IN  /\ Len(text) < Len(wire)
           /\ text' = SubSeq(wire, 1, IF Len(text) < 4 THEN Len(text) + 1
                                                       ELSE Len(wire))
    /\ UNCHANGED <<kind, sent, edits>>

\* A client gets a token of a command message wrong.
Edit ==
    /\ kind = "command" /\ edits < MaxEdits
    /\ \/ \E i \in DOMAIN text : text' = RemoveAt(text, i)
       \/ \E i \in DOMAIN text, t \in EditTokens : text' = ReplaceAt(text, i, t)
       \/ \E i \in 1..(Len(text) + 1), t \in EditTokens : text' = InsertAt(text, i, t)
    /\ edits' = edits + 1
    /\ UNCHANGED <<kind, sent>>

WireNext == Receive \/ Send \/ Arrive \/ Edit

WireSpec == WireInit /\ [][WireNext]_wireVars

-----------------------------------------------------------------------------
(* Packets *)

\* A packet of n bytes in all has a head of two bytes as long as one byte of
\* length is enough for the others.
HeadOf(n) == IF n < 130 THEN 2 ELSE 3

\* What the receiver finds in the body is what the sender put there.
ReadBack(m, flags, body) ==
    /\ m.type = "PUBLISH" =>
          /\ flags = 2 * m.qos + (IF m.retain THEN 1 ELSE 0)
          /\ DecodePublish(m.qos, body) =
               [status |-> "OK", topic |-> m.topic, qos |-> m.qos,
                packetId |-> IF m.qos = 0 THEN 0 ELSE m.packetId,
                payload |-> m.payload]
    /\ m.type = "PUBACK" =>
          DecodePuback(body) = [status |-> "OK", packetId |-> m.packetId]
    /\ m.type = "CONNACK" =>
          DecodeConnack(body) = [status |-> "OK", returnCode |-> m.returnCode,
                                 sessionPresent |-> m.sessionPresent]
    /\ m.type = "SUBACK" =>
          LET d == DecodeSuback(body)
          IN  /\ d.status = "OK" /\ d.packetId = m.packetId
              /\ d.granted <=> m.returnCode < 128
    /\ m.type = "CONNECT" => Len(body) = 12 + Be16Read(body, 11)
    /\ m.type \in {"PINGREQ", "DISCONNECT"} => body = <<>>

\* A packet is written whole or not at all, never past the buffer; the receiver
\* waits until its head is complete and not longer, finds its end where it ends
\* and reads back the message.
FramedAndReadBack(m) ==
    LET whole == Encode(m, Unbounded)
        wire  == Encode(m, m.cap)
        head  == HeadOf(Len(whole))
        h     == DecodeFixedHeader(text)
    IN  /\ wire = IF Len(whole) <= m.cap THEN whole ELSE <<>>
        /\ h.status = IF Len(text) < head THEN "WOULD_BLOCK" ELSE "OK"
        /\ h.status = "OK" => h.headerLen = head /\ head + h.remaining = Len(wire)
        /\ (text = wire /\ wire # <<>>) =>
              ReadBack(m, h.flags, SubSeq(text, head + 1, Len(text)))

\* The verdict on a head is final: bytes that follow do not change it, and while
\* the decoder waits there is a byte that ends the wait.
HeadIsSettled ==
    LET verdict == DecodeFixedHeader(text)
    IN  /\ \A n \in 1..Len(text) :
             LET earlier == DecodeFixedHeader(SubSeq(text, 1, n))
             IN  earlier.status # "WOULD_BLOCK" => verdict = earlier
        /\ (verdict.status = "WOULD_BLOCK" /\ text # <<>>) =>
              DecodeFixedHeader(Append(text, 0)).status \in {"OK", "PACKET_TOO_LARGE"}

\* The body of a PUBLISH is accepted exactly when the encoder could have written
\* it, and means what the encoder was given.
BodyWasWritten(qos) ==
    LET decoded == DecodePublish(qos, text)
        Written(n) ==       \* by the encoder, with a topic of n bytes
            LET topic   == SubSeq(text, 3, 2 + n)
                after   == 2 + n + 2 * qos
                id      == IF qos = 0 THEN 0 ELSE Be16Read(text, 3 + n)
                payload == SubSeq(text, after + 1, Len(text))
            IN  /\ after <= Len(text) /\ (qos = 1 => id # 0)
                /\ LET packet == EncodePublish(Unbounded, topic, payload, qos, FALSE, id)
                   IN  /\ packet # <<>>
                       /\ SubSeq(packet, HeadOf(Len(packet)) + 1, Len(packet)) = text
                /\ decoded = [status |-> "OK", topic |-> topic, qos |-> qos,
                              packetId |-> id, payload |-> payload]
    IN  decoded.status = "OK" <=> \E n \in 1..Len(text) : Written(n)

-----------------------------------------------------------------------------
(* Texts *)

\* A continuation byte holds the six lowest bits.
Low(c)       == 128 + (c % 64)
High(c)      == c \div 64
Joined(h, b) == 64 * h + (b % 64)

\* The UTF-8 encoding of a code point, and the code point of its bytes.
Utf8Of(c) ==
    IF c < 128 THEN <<c>>
    ELSE IF c < 2048 THEN <<192 + High(c), Low(c)>>
    ELSE IF c < 65536 THEN <<224 + High(High(c)), Low(High(c)), Low(c)>>
    ELSE <<240 + High(High(High(c))), Low(High(High(c))), Low(High(c)), Low(c)>>

CodePoint(b) ==
    IF Len(b) = 1 THEN b[1]
    ELSE IF Len(b) = 2 THEN Joined(b[1] % 32, b[2])
    ELSE IF Len(b) = 3 THEN Joined(Joined(b[1] % 16, b[2]), b[3])
    ELSE Joined(Joined(Joined(b[1] % 8, b[2]), b[3]), b[4])

\* The code points MQTT allows in its strings.
Permitted(c) ==
    /\ 0 < c /\ c <= 1114111
    /\ c < 55296 \/ 57343 < c        \* surrogates
    /\ c \notin {65534, 65535}      \* non-characters the code refuses

\* The n bytes from the i-th on encode a permitted code point.
IsCharacter(s, i, n) ==
    /\ i + n - 1 <= Len(s)
    /\ LET b == SubSeq(s, i, i + n - 1)
       IN  Permitted(CodePoint(b)) /\ Utf8Of(CodePoint(b)) = b

\* A text: the encodings of permitted code points, one after the other.
IsText(s) ==
    LET reads[i \in 1..(Len(s) + 1)] ==
            \/ i = Len(s) + 1
            \/ \E n \in 1..4 : IsCharacter(s, i, n) /\ reads[i + n]
    IN  s # <<>> /\ reads[1]

\* i..j is a level of a topic filter when it lies between slashes.
IsLevel(s, i, j) ==
    /\ j >= i - 1
    /\ i = 1 \/ s[i - 1] = Slash
    /\ j = Len(s) \/ s[j + 1] = Slash
    /\ \A k \in i..j : s[k] # Slash

WellFormed(s, i, j) ==
    LET level == SubSeq(s, i, j)
    IN  \/ \A k \in DOMAIN level : level[k] \notin {Plus, Hash}
        \/ level = <<Plus>>
        \/ level = <<Hash>> /\ j = Len(s)

IsFilter(s) ==
    /\ s # <<>>
    /\ \A i \in 1..(Len(s) + 1), j \in 0..Len(s) :
         IsLevel(s, i, j) => WellFormed(s, i, j)

-----------------------------------------------------------------------------
(* Command messages *)

IsDigits(s) == s # <<>> /\ \A i \in DOMAIN s : s[i] \in Digits
IsInt(s)    == IsDigits(s) /\ (s[1] = "0" => Len(s) = 1)
IsFrac(s)   == s = <<>> \/ (s[1] = "." /\ IsDigits(Tail(s)))
IsExp(s) ==
    \/ s = <<>>
    \/ s[1] = "e" /\ IsDigits(Tail(s))
    \/ s[1] = "e" /\ Len(s) > 1 /\ s[2] \in {"+", "-"} /\ IsDigits(SubSeq(s, 3, Len(s)))

\* [ minus ] int [ frac ] [ exp ]
IsNumber(s) ==
    \E i \in 0..1, j, k \in 1..Len(s) :
       /\ SubSeq(s, 1, i) \in {<<>>, <<"-">>}
       /\ IsInt(SubSeq(s, i + 1, j))
       /\ IsFrac(SubSeq(s, j + 1, k))
       /\ IsExp(SubSeq(s, k + 1, Len(s)))

\* The number some digits write, however large.
IntValue(s) ==
    LET value[n \in 0..Len(s)] ==
            IF n = 0 THEN 0 ELSE 10 * value[n - 1] + DigitValue(s[n])
    IN  value[Len(s)]

\* The position i is escaped when an odd number of backslashes ends before it.
Escaped(s, i) ==
    Cardinality({j \in 1..(i - 1) : \A k \in j..(i - 1) : s[k] = "\\"}) % 2 = 1

\* A quoted string whose escapes are among the three the parser knows and whose
\* characters, an escape counting for one, fit the buffer with a terminator.
IsString(s) ==
    /\ Len(s) >= 2 /\ s[1] = "\"" /\ s[Len(s)] = "\"" /\ ~Escaped(s, Len(s))
    /\ \A i \in 2..(Len(s) - 1) :
         /\ s[i] # "ctl"
         /\ IF Escaped(s, i) THEN s[i] \in {"\"", "\\", "t"} ELSE s[i] # "\""
    /\ Cardinality({i \in 2..(Len(s) - 1) : s[i] # "\\" \/ Escaped(s, i)}) < MaxString

\* The arguments the handler of a command reads, and those it may find.
Needs(type) == CASE type = "REGISTER_DEVICE" -> {"installation_id"}
                 [] type = "ASSIGN_LOCATION" -> Entities
                 [] OTHER                    -> {}
MayFind(type) == CASE type = "SET_CONFIG" -> Settings
                   [] type = "UNKNOWN"    -> Settings \cup Entities
                   [] OTHER               -> Needs(type)

\* A command message: { name : value , ... , name : value }, no name twice.
IsCommand(s) ==
    LET n        == Len(s) \div 4
        Name(i)  == s[4 * i - 2]
        Value(i) == s[4 * i]
        names    == {Name(i) : i \in 1..n}
        args     == names \ {"id", "command"}
    IN  /\ Len(s) = 4 * n + 1 /\ s[1] = "{" /\ s[Len(s)] = "}"
        /\ \A i \in 1..n : s[4 * i - 1] = ":" /\ (i < n => s[4 * i + 1] = ",")
        /\ names \subseteq Fields /\ Cardinality(names) = n
        /\ {"id", "command"} \subseteq names
        /\ \A i \in 1..n : Value(i) \in Accepted(Name(i))
        /\ \E i \in 1..n :
             /\ Name(i) = "command"
             /\ LET type == StrToType(Value(i))
                IN  /\ Needs(type) \subseteq args /\ args \subseteq MayFind(type)
                    /\ type = "SET_CONFIG" => args # {}

\* The request says what the message says, argument by argument.
SaysSo(request, s) ==
    \A i \in DOMAIN s : s[i] = ":" =>
       CASE s[i - 1] = "id"      -> request.requestId = s[i + 1]
         [] s[i - 1] = "command" -> request.type = StrToType(s[i + 1])
         [] OTHER                -> request.given[s[i - 1]] = s[i + 1]

-----------------------------------------------------------------------------
(* Properties *)

\* Whatever the client encodes and the decoders read (SUBSCRIBE has a property
\* of its own): a packet is within the buffer, its head is recognised as soon as
\* it is complete and never differently later, its length is the announced one,
\* and decoding undoes encoding, in both directions for PUBLISH (mqtt_codec.c).
PacketsReadBack ==
    /\ kind = "packet" /\ sent.type \notin {"none", "SUBSCRIBE"} => FramedAndReadBack(sent)
    /\ kind = "header" => HeadIsSettled
    /\ kind = "body" => \A qos \in {0, 1} : BodyWasWritten(qos)

\* The byte scans of mqtt_utf8.c accept exactly the texts made of code points
\* MQTT permits and, of those short enough, exactly the filters whose levels are
\* well formed.
TextsAgree ==
    /\ kind = "utf8" => (Valid(text) <=> IsText(text))
    /\ kind = "filter" =>
         (IsValidTopicFilter(text) <=>
             Len(text) <= MaxTopicLength /\ IsText(text) /\ IsFilter(text))

\* The scanners and the object loop of command_parser.c accept exactly the
\* numbers, strings and messages of the grammar, with the values written there:
\* no wrap-around, no early end, no field twice, no argument a handler needs
\* missing or one it ignores present.
CommandsAgree ==
    /\ kind = "number" =>
         LET u == ParseUint(text, 1)
         IN  /\ ScanNumberRegion(text, 1) = Len(text) + 1 <=> IsNumber(text)
             /\ (u.ok /\ u.next = Len(text) + 1) <=>
                   (IsInt(text) /\ IntValue(text) <= MaxUint)
             /\ (u.ok /\ u.next = Len(text) + 1) => u.value = IntValue(text)
    /\ kind = "string" =>
         LET string == ParseString(text, 1)
         IN  (string.ok /\ string.next = Len(text) + 1) <=> IsString(text)
    /\ kind \in {"contract", "command"} =>
         LET request == Parse(text)
         IN  /\ request.ok <=> IsCommand(text)
             /\ request.ok => SaysSo(request, text)

\* docs/mqtt_client.md lists SUBSCRIBE among the MQTT 3.1.1 packets supported:
\* the packet EncodeSubscribe writes is as long as its head announces.
SubscribeReadsBack ==
    kind = "packet" /\ sent.type = "SUBSCRIBE" /\ text = Encode(sent, sent.cap) /\ text # <<>> =>
       LET h == DecodeFixedHeader(text)
       IN  h.status = "OK" /\ h.headerLen + h.remaining = Len(text)

=============================================================================
