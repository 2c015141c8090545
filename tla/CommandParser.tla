----------------------------- MODULE CommandParser -----------------------------
(***************************************************************************)
(* The command parser (command_parser.c), in two layers.                   *)
(*                                                                         *)
(* Scanners: how one JSON string, one unsigned integer and one number are  *)
(* recognised, character by character.  A character is a string of length  *)
(* one, "ctl" standing for every control character and "x" for every       *)
(* other character without a meaning of its own.                           *)
(*                                                                         *)
(* Objects: how a message is recognised, token by token.  White space,     *)
(* which the parser skips between tokens, is left out.                     *)
(***************************************************************************)
EXTENDS Integers, Sequences

CONSTANTS MaxUint,      \* UINT32_MAX
          MaxString     \* the size of the caller's buffer, terminator included

-----------------------------------------------------------------------------
(* Scanners *)

Digits == {"0", "1", "2", "3", "4", "5", "6", "7", "8", "9"}
DigitValue(c) ==
    CASE c = "0" -> 0 [] c = "1" -> 1 [] c = "2" -> 2 [] c = "3" -> 3
      [] c = "4" -> 4 [] c = "5" -> 5 [] c = "6" -> 6 [] c = "7" -> 7
      [] c = "8" -> 8 [] c = "9" -> 9

At(text, p, set) == p <= Len(text) /\ text[p] \in set

\* Where a scan that takes characters of "set" from position p on stops.
Skip(text, p, set) ==
    CHOOSE q \in p..(Len(text) + 1) :
       ~At(text, q, set) /\ \A k \in p..(q - 1) : At(text, k, set)

\* A scan answers [ok, value, next]; "next" is the position after what it took.
Refused == [ok |-> FALSE]
Taken(value, next) == [ok |-> TRUE, value |-> value, next |-> next]

\* The string whose first quote is at p.  from[q] is what the scan answers that
\* has reached q; a string with more characters than fit the buffer is refused.
ParseString(text, p) ==
    LET from[q \in (p + 1)..(Len(text) + 1)] ==
            LET escaped == At(text, q, {"\\"})
                c       == IF escaped THEN q + 1 ELSE q     \* the character itself
                legal   == /\ c <= Len(text)
                           /\ escaped => text[c] \in {"\"", "\\", "t"}
                           /\ ~escaped => text[c] # "ctl"
                rest    == from[c + 1]
                char    == IF escaped /\ text[c] = "t" THEN "ctl" ELSE text[c]
            IN  IF At(text, q, {"\""}) THEN Taken(<<>>, q + 1)
                ELSE IF legal /\ rest.ok /\ Len(rest.value) < MaxString - 1
                THEN Taken(<<char>> \o rest.value, rest.next)
                ELSE Refused
    IN  IF At(text, p, {"\""}) THEN from[p + 1] ELSE Refused

\* The test the code makes before v * 10 + digit, which would wrap.
OverflowsLate(v, digit) == v > MaxUint \div 10      \* mutant: forgets the digit
Overflows(v, digit) == v > (MaxUint - digit) \div 10

\* The digits from p on; read[q] is the value of those before q.
UintDigits(text, p) ==
    LET end == Skip(text, p, Digits)
        read[q \in p..end] ==
            IF q = p THEN 0
            ELSE (read[q - 1] * 10 + DigitValue(text[q - 1])) % (MaxUint + 1)
    IN  IF \E q \in p..(end - 1) : Overflows(read[q], DigitValue(text[q]))
        THEN Refused ELSE Taken(read[end], end)

ParseUint(text, p) ==
    LET scanned == IF ~At(text, p, Digits) THEN Refused
                   ELSE IF text[p] = "0"
                        THEN IF At(text, p + 1, Digits) THEN Refused ELSE Taken(0, p + 1)
                   ELSE UintDigits(text, p)
    IN  IF scanned.ok /\ At(text, scanned.next, {".", "e"}) THEN Refused ELSE scanned

\* number = [ minus ] int [ frac ] [ exp ]; "next" is 0 when there is none at p.
ScanNumberRegion(text, p) ==
    LET sign == IF At(text, p, {"-"}) THEN p + 1 ELSE p
        int  == IF At(text, sign, Digits \ {"0"}) THEN Skip(text, sign, Digits)
                ELSE IF At(text, sign, {"0"}) THEN sign + 1 ELSE 0
        frac == IF int = 0 THEN 0
                ELSE IF ~At(text, int, {"."}) THEN int
                ELSE IF At(text, int + 1, Digits) THEN Skip(text, int + 1, Digits)
                ELSE 0
        exp  == IF At(text, frac + 1, {"+", "-"}) THEN frac + 2 ELSE frac + 1
    IN  IF frac = 0 \/ ~At(text, frac, {"e"}) THEN frac
        ELSE IF At(text, exp, Digits) THEN Skip(text, exp, Digits) ELSE 0

-----------------------------------------------------------------------------
(* Objects *)

CommandTypes ==
    {"GET_STATUS", "GET_CONFIG", "SET_CONFIG", "RESET_CONFIG", "GET_IDENTITY",
     "SELF_TEST", "REBOOT", "GET_CAPABILITIES", "GET_MANIFEST", "REGISTER_DEVICE",
     "UNREGISTER_DEVICE", "FACTORY_RESET", "GET_PROVISIONING_STATUS",
     "ASSIGN_LOCATION"}

Periods  == {"light_period_ms", "display_period_ms", "telemetry_period_ms"}
Settings == Periods \cup {"light_calibration"}
Entities == {"installation_id", "building_id", "room_id"}
Fields   == {"id", "command"} \cup Settings \cup Entities

\* The tokens that are no name of a field or of a command: "7", a number every
\* numeric field takes, "1.5", which only a float is, and "1e99", which is too
\* large for both; the strings "entity", 32 hexadecimal digits, "other", and
\* "endless", which overruns every buffer.
Numerals     == {"7", "1.5", "1e99"}
ShortStrings == Fields \cup CommandTypes \cup {"other"}   \* fit char cmd[32]
NameStrings  == ShortStrings \cup {"entity"}              \* fit char field[64]
Strings      == NameStrings \cup {"endless"}
Tokens       == {"{", "}", ",", ":"} \cup Numerals \cup Strings

\* The values each field's own parser takes.
Accepted(field) ==
    CASE field \in {"id"} \cup Periods   -> {"7"}
      [] field = "light_calibration"     -> {"7", "1.5"}
      [] field \in Entities              -> {"entity"}
      [] field = "command"               -> ShortStrings

StrToType(string) == IF string \in CommandTypes THEN string ELSE "UNKNOWN"

\* The argument contract of each command; "given" are the arguments present.
ValidateArgs(type, given) ==
    CASE type = "SET_CONFIG"      -> given # {} /\ given \cap Entities = {}
      [] type = "REGISTER_DEVICE" -> given = {"installation_id"}
      [] type = "ASSIGN_LOCATION" -> given = Entities
      [] type = "UNKNOWN"         -> TRUE
      [] OTHER                    -> given = {}

\* The object's loop.  from[p] is what it answers that has reached p; after a
\* comma a field must follow.  The value of an object is the function from its
\* fields to their values.
Object(text) ==
    LET from[p \in 2..(Len(text) + 1)] ==
            LET field  == text[p]
                expect == text[p - 1] = ","     \* the last token read
                well   == /\ At(text, p, NameStrings) /\ At(text, p + 1, {":"})
                          /\ field \in Fields /\ At(text, p + 2, Accepted(field))
                          /\ At(text, p + 3, {",", "}"})
                rest   == from[IF text[p + 3] = "," THEN p + 4 ELSE p + 3]
                given  == [f \in DOMAIN rest.value \cup {field} |->
                             IF f = field THEN text[p + 2] ELSE rest.value[f]]
            IN  IF At(text, p, {"}"})
                THEN IF expect THEN Refused ELSE Taken(<<>>, p + 1)
                ELSE IF well /\ rest.ok /\ field \notin DOMAIN rest.value
                THEN Taken(given, rest.next)
                ELSE Refused
    IN  from[2]

\* CommandParser_Parse: [ok, type, given], "given" with the arguments' values.
Parse(text) ==
    LET object == IF At(text, 1, {"{"}) THEN Object(text) ELSE Refused
    IN  IF ~object.ok \/ object.next # Len(text) + 1 THEN Refused
        ELSE LET taken == object.value
                 args  == DOMAIN taken \ {"id", "command"}
             IN  IF {"id", "command"} \subseteq DOMAIN taken
                    /\ ValidateArgs(StrToType(taken["command"]), args)
                 THEN [ok |-> TRUE, type |-> StrToType(taken["command"]),
                       requestId |-> taken["id"],
                       given |-> [a \in args |-> taken[a]]]
                 ELSE Refused

=============================================================================
