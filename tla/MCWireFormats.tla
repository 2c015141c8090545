----------------------------- MODULE MCWireFormats -----------------------------
(***************************************************************************)
(* Inputs for TLC.  The alphabets hold the bytes and characters at which   *)
(* the scans branch, on both sides of every boundary; the messages have    *)
(* bodies of 127 and 128 bytes, topics and payloads of the greatest length *)
(* and one more, and buffers that are just large enough and just too small.*)
(***************************************************************************)
EXTENDS WireFormats

MCAlphabet ==
    [utf8   |-> {0, 65, 127, 128, 143, 144, 159, 160, 190, 191, 193, 194, 224, 237,
                 239, 240, 244, 245},
     filter |-> {97, Slash, Plus, Hash},
     header |-> {0, 1, 48, 127, 128, 129, 255},
     body   |-> {0, 1, 2, 97, Hash, 195},
     number |-> {"-", "+", ".", "e", "0", "2", "5", "6"},
     string |-> {"\"", "\\", "t", "n", "ctl", "x"}]

MCMaxLength == [utf8 |-> 4, filter |-> 7, header |-> 5, body |-> 6, number |-> 5,
                string |-> 6]

Fill(n, b) == [i \in 1..n |-> b]

MCMessages ==
    LET Publish(topic, payload, qos, cap) ==
            [type |-> "PUBLISH", topic |-> Fill(topic, 97), payload |-> Fill(payload, 0),
             qos |-> qos, retain |-> FALSE, packetId |-> 258, cap |-> cap]
    IN  {Publish(t, p, q, 2304) : t \in {1, 64}, p \in {0, 1, 2048}, q \in {0, 1}}
          \cup {Publish(5, p, q, c) : p \in {118, 119, 120, 121}, q \in {0, 1},
                                      c \in {128, 129, 130, 131, 132}}
          \cup {[Publish(5, 3, 1, 64) EXCEPT !.retain = TRUE],
                Publish(65, 3, 1, 2304), Publish(5, 2049, 0, 2304),
                [Publish(5, 3, 1, 64) EXCEPT !.topic = <<97, Hash>>]}
          \cup {[type |-> "CONNECT", clientId |-> Fill(n, 97), keepalive |-> 60, cap |-> c] :
                  n \in {1, 23, 64, 65}, c \in {14, 15, 2304}}
          \cup {[type |-> "SUBSCRIBE", topic |-> <<97, Slash, Plus>>, qos |-> 1,
                 packetId |-> i, cap |-> c] : i \in {0, 1}, c \in {8, 9, 10, 2304}}
          \cup {[type |-> "PUBACK", packetId |-> i, cap |-> c] :
                  i \in {1, 255, 256, 65535}, c \in {3, 4}}
          \cup {[type |-> t, cap |-> c] : t \in {"PINGREQ", "DISCONNECT"}, c \in {1, 2}}
          \cup {[type |-> "CONNACK", sessionPresent |-> s, returnCode |-> r, cap |-> 2304] :
                  s \in BOOLEAN, r \in {0, 5}}
          \cup {[type |-> "SUBACK", packetId |-> i, returnCode |-> r, cap |-> 2304] :
                  i \in {1, 256}, r \in {0, 1, 128}}

\* A message of the given command with the given arguments.
Message(type, args) ==
    LET Argument(f) == <<",", f, ":", CHOOSE v \in Accepted(f) : TRUE>>
    IN  <<"{", "id", ":", "7", ",", "command", ":", type>>
          \o FoldSet(LAMBDA f, acc : Argument(f) \o acc, <<>>, args) \o <<"}">>

MCContracts == {Message(t, a) : t \in CommandTypes \cup {"other", "entity"},
                                a \in SUBSET (Settings \cup Entities)}

MCSeeds ==
    {<<"{", "id", ":", "7", ",", "command", ":", "GET_STATUS", "}">>,
     <<"{", "command", ":", "REGISTER_DEVICE", ",", "id", ":", "7", ",",
       "installation_id", ":", "entity", "}">>,
     <<"{", "id", ":", "7", ",", "command", ":", "SET_CONFIG", ",",
       "light_calibration", ":", "1.5", "}">>,
     <<"{", "id", ":", "7", ",", "command", ":", "ASSIGN_LOCATION", ",",
       "room_id", ":", "entity", ",", "building_id", ":", "entity", ",",
       "installation_id", ":", "entity", "}">>}

MCEditTokens == {"{", "}", ",", ":", "id", "command", "light_period_ms", "room_id",
                 "7", "1.5", "1e99", "other", "entity", "endless", "SET_CONFIG"}

=============================================================================
