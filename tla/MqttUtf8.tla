------------------------------- MODULE MqttUtf8 -------------------------------
(***************************************************************************)
(* The text checks of the MQTT client: which byte strings it takes for     *)
(* UTF-8 text, for a topic name and for a topic filter (mqtt_utf8.c).  A   *)
(* byte string is a sequence of numbers 0..255; positions count from 1.    *)
(***************************************************************************)
EXTENDS Integers, Sequences

CONSTANT MaxTopicLength         \* MQTT_MAX_TOPIC_LENGTH

Byte == 0..255

Slash == 47
Plus  == 43
Hash  == 35

-----------------------------------------------------------------------------
(* Sequences of UTF-8 *)

Continuation == 128..191

\* The second bytes a lead byte allows: E0 and F0 exclude the overlong forms,
\* ED the surrogates, F4 what lies above U+10FFFF.
SecondBytesPlain(b0) == Continuation        \* mutant: every lead byte alike
SecondBytes(b0) ==
    (IF b0 = 224 THEN 160 ELSE IF b0 = 240 THEN 144 ELSE 128) ..
    (IF b0 = 237 THEN 159 ELSE IF b0 = 244 THEN 143 ELSE 191)

\* How many bytes the character starting at s[i] takes; 0 when it is malformed.
Utf8Seq(s, i) ==
    LET b0 == s[i]
        Byte2 == s[i + 1] \in SecondBytes(b0)
        Left(n) == i + n - 1 <= Len(s)
    IN  IF b0 \in 1..127 THEN 1
        ELSE IF b0 \in 194..223 /\ Left(2) /\ Byte2 THEN 2
        ELSE IF /\ b0 \in 224..239 /\ Left(3) /\ Byte2 /\ s[i + 2] \in Continuation
                /\ ~(b0 = 239 /\ s[i + 1] = 191 /\ s[i + 2] \in {190, 191})
        THEN 3
        ELSE IF b0 \in 240..244 /\ Left(4) /\ Byte2
                /\ {s[i + 2], s[i + 3]} \subseteq Continuation
        THEN 4 ELSE 0

Valid(s) ==
    LET from[i \in 1..(Len(s) + 1)] ==
            \/ i = Len(s) + 1
            \/ LET n == Utf8Seq(s, i) IN n # 0 /\ from[i + n]
    IN  s # <<>> /\ from[1]

-----------------------------------------------------------------------------
(* Topics *)

IsValidTopicName(s) ==
    /\ Len(s) \in 1..MaxTopicLength
    /\ Valid(s)
    /\ \A i \in DOMAIN s : s[i] \notin {Hash, Plus}

IsValidTopicFilter(s) ==
    /\ Len(s) \in 1..MaxTopicLength
    /\ Valid(s)
    /\ \A i \in DOMAIN s :
         LET left  == i = 1 \/ s[i - 1] = Slash
             right == i = Len(s) \/ s[i + 1] = Slash
         IN  /\ s[i] = Hash => i = Len(s) /\ left
             /\ s[i] = Plus => left /\ right

=============================================================================
