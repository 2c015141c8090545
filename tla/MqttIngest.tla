----------------------------- MODULE MqttIngest -----------------------------
(***************************************************************************)
(* How Mqtt/Src/mqtt_client.c cuts the byte stream of a connection into    *)
(* packets: Ingest collects the bytes of one packet in a buffer, over as   *)
(* many calls as it takes, hands the packet over and starts the next one.  *)
(*                                                                         *)
(* Bytes are counted, not stored: a packet is the interval of the stream   *)
(* it occupies and the length of its fixed header, and what Ingest reads   *)
(* depends on where it stands.  Where it does not stand at the start of a  *)
(* packet, the bytes it takes for a header may say anything.               *)
(***************************************************************************)
EXTENDS Integers, Sequences

CONSTANTS
  Streams,        \* what a broker may send: sequences of packets
  HeaderMax,      \* MQTT_FIXED_HEADER_MAX, 5 in the firmware
  MaxRemaining,   \* the largest remaining length accepted, 2304 in the firmware
  BufferSize,     \* the size of rx_buf, 2304 too, although the header is kept there as well
  PacketsPerRun,  \* MAX_PACKETS_PER_RUN, 4 in the firmware
  Garbled         \* the headers a misplaced reader may believe it reads

\* A packet's bytes are from + 1 .. to of the stream; valid says that its first
\* byte names a packet type.
Total(p) == p.to - p.from
End(s, n) == IF n = 0 THEN 0 ELSE s[n].to
Packets == [from : Nat, to : Nat, header : 2 .. HeaderMax, valid : BOOLEAN]
IsStream(s) ==
  /\ s \in Seq(Packets)
  /\ \A i \in 1 .. Len(s) : s[i].from = End(s, i - 1) /\ s[i].to >= s[i].from + s[i].header
  /\ \A i, j \in 1 .. Len(s) : i < j => s[i].to <= s[j].from

ASSUME IngestAssumption ==
  /\ HeaderMax \in Nat \ {0, 1}
  /\ MaxRemaining \in Nat
  /\ BufferSize \in Nat /\ BufferSize >= HeaderMax
  /\ PacketsPerRun \in Nat \ {0}
  /\ \A s \in Streams : IsStream(s)
  /\ Garbled \subseteq [total : Nat \ {0}, header : 2 .. HeaderMax]

\* Every packet that is accepted fits the buffer with its header.
PacketsFit ==
  \A s \in Streams : \A i \in 1 .. Len(s) :
    Total(s[i]) - s[i].header <= MaxRemaining => Total(s[i]) <= BufferSize

VARIABLES
  stream,    \* what the broker sends on this connection
  arrived,   \* how many of its bytes the transport has received
  closed,    \* the transport has seen the end of the stream
  start,     \* where in the stream the bytes in rx_buf begin, if rx_len is right
  pos,       \* how many bytes were taken from the transport: rx_len is pos - start
  total,     \* rx_total, 0 until the header is parsed
  left,      \* iterations left in this call of Ingest
  failed,    \* why the connection was given up, or "no"
  seen       \* the packets handed over: the number of the packet, 0 for one never sent

vars == <<stream, arrived, closed, start, pos, total, left, failed, seen>>

\* The packets handed over are the packets sent, from the first on.
InOrder == /\ Len(seen) <= Len(stream)
           /\ \A i \in 1 .. Len(seen) : seen[i] = i

Failures == {"no", "CLOSED", "TOO_LARGE", "MALFORMED", "REFUSED"}
TypeOK ==
  /\ stream \in Streams
  /\ closed \in BOOLEAN
  /\ arrived \in Nat /\ start \in Nat /\ pos \in Nat /\ total \in Nat
  /\ left \in 0 .. PacketsPerRun
  /\ failed \in Failures
  /\ seen \in Seq(0 .. Len(stream))

-----------------------------------------------------------------------------
Least(a, b) == IF a <= b THEN a ELSE b

Held == pos - start          \* rx_len
\* Mutant: the end of the stream hides the bytes received before it.
WaitingWhileOpen == IF closed THEN 0 ELSE arrived - pos
Waiting == arrived - pos     \* what the transport can hand out

\* The number of the packet that begins where the buffer begins, 0 if none does.
Here == IF \E i \in 1 .. Len(stream) : stream[i].from = start
        THEN CHOOSE i \in 1 .. Len(stream) : stream[i].from = start ELSE 0

\* What the bytes at the start of the buffer say of the packet's size.
HeaderHere ==
  IF Here = 0 THEN Garbled
  ELSE IF stream[Here].valid THEN {[total |-> Total(stream[Here]), header |-> stream[Here].header]}
  ELSE {}

\* There is no parsed header of the packet whose bytes are held.
HeaderNeeded == Held = 0 \/ total = 0

\* Mutant: the second fetch is missing.
OneHeaderFetch(h) ==
  IF ~HeaderNeeded THEN Held ELSE IF Held = 0 THEN Least(HeaderMax, Waiting) ELSE Held
\* Bytes held once this iteration has fetched for the header h: up to HeaderMax
\* into an empty buffer, then once more, still up to HeaderMax, if the header is
\* not complete.
AfterHeader(h) ==
  LET first == IF Held = 0 THEN Least(HeaderMax, Waiting) ELSE Held IN
  IF ~HeaderNeeded THEN Held
  ELSE IF first = 0 \/ first >= h.header THEN first
  ELSE first + Least(HeaderMax - first, Waiting - (first - Held))

\* A fetch that found nothing ends the call; at the end of the stream it ends
\* the connection.
Blocked ==
  /\ left' = 0
  /\ failed' = IF closed THEN "CLOSED" ELSE "no"

\* The header is not complete: the call ends if the transport had nothing left,
\* else the loop goes on.
HeaderIncomplete(h) ==
  LET held == AfterHeader(h)
      nothing == held = Held \/ (Held = 0 /\ held = Least(HeaderMax, Waiting))
  IN /\ HeaderNeeded
     /\ held < h.header
     /\ pos' = start + held
     /\ IF nothing THEN Blocked ELSE left' = left - 1 /\ UNCHANGED failed
     /\ UNCHANGED <<start, total, seen>>

\* The header tells of a packet that is too large.
TooLarge(h) ==
  /\ HeaderNeeded
  /\ AfterHeader(h) >= h.header
  /\ h.total - h.header > MaxRemaining
  /\ pos' = start + AfterHeader(h)
  /\ failed' = "TOO_LARGE"
  /\ left' = 0
  /\ UNCHANGED <<start, total, seen>>

\* rx_len after got bytes were appended to held.  rx_len lies behind rx_buf
\* (mqtt_client.h:109-110), so that bytes written past the end of the buffer
\* fall on it: it may then be anything.
RxLenAfter(held, got) ==
  IF got = 0 \/ held + got <= BufferSize THEN {held + got} ELSE 0 .. MaxRemaining + HeaderMax

\* Mutant: the length of the header is left out of the packet's.
RemainingWanted(h) == IF HeaderNeeded THEN h.total - h.header ELSE total
\* rx_total, once the header is known.
Wanted(h) == IF HeaderNeeded THEN h.total ELSE total

\* The header is there and acceptable.
Acceptable(h) ==
  HeaderNeeded => AfterHeader(h) >= h.header /\ h.total - h.header <= MaxRemaining
\* What the fetch of the body adds.
Got(h) ==
  LET held == AfterHeader(h) IN
  IF held < Wanted(h) THEN Least(Wanted(h) - held, arrived - (start + held)) ELSE 0
\* rx_len after that fetch.
Lengths(h) == RxLenAfter(AfterHeader(h), Got(h))

\* The packet is not complete yet.
BodyIncomplete(h) ==
  /\ Acceptable(h)
  /\ pos' = start + AfterHeader(h) + Got(h)
  /\ \E len \in Lengths(h) : len < Wanted(h) /\ start' = pos' - len
  /\ total' = Wanted(h)
  /\ IF Got(h) = 0 THEN Blocked ELSE left' = 0 /\ UNCHANGED failed
  /\ UNCHANGED seen

\* What is handed over as a packet of this size: the packet that begins here, if
\* it is as long; one that did not fit may have been damaged.
Handed(size) ==
  IF Here = 0 THEN {0}
  ELSE IF size # Total(stream[Here]) THEN {0}
  ELSE IF size <= BufferSize THEN {Here} ELSE {Here, 0}

\* The packet is complete: it is handed over and the buffer is emptied,
\* whatever it held beyond the packet.  The connection ends if the packet is
\* not acceptable (DispatchPacket).
Dispatch(h) ==
  /\ Acceptable(h)
  /\ \E len \in Lengths(h) : len >= Wanted(h)
  /\ pos' = start + AfterHeader(h) + Got(h)
  /\ start' = pos'
  /\ total' = 0
  /\ \E n \in Handed(Wanted(h)) : seen' = Append(seen, n)
  /\ \/ left' = left - 1 /\ UNCHANGED failed
     \/ left' = 0 /\ failed' = "REFUSED"

\* The first byte names no packet type.
Malformed ==
  /\ HeaderNeeded /\ (Here # 0 => ~stream[Here].valid)
  /\ Held + Waiting > 0
  /\ pos' = start + (IF Held = 0 THEN Least(HeaderMax, Waiting) ELSE Held)
  /\ failed' = "MALFORMED"
  /\ left' = 0
  /\ UNCHANGED <<start, total, seen>>

\* The buffer and the transport are empty.
NothingToRead ==
  /\ Held = 0 /\ Waiting = 0
  /\ Blocked
  /\ UNCHANGED <<start, pos, total, seen>>

\* One turn of the loop of Ingest.
Iterate ==
  /\ left > 0
  /\ \/ NothingToRead
     \/ /\ Held + Waiting > 0
        /\ \E h \in HeaderHere :
             HeaderIncomplete(h) \/ TooLarge(h) \/ BodyIncomplete(h) \/ Dispatch(h)
     \/ Malformed
  /\ UNCHANGED <<stream, arrived, closed>>

\* MqttClient_Run: the transport first receives what it can, or the end of the
\* stream, which may come anywhere; then Ingest is called.
Run ==
  /\ left = 0 /\ failed = "no"
  /\ left' = PacketsPerRun
  /\ \/ \E n \in 0 .. End(stream, Len(stream)) - arrived :
          ~closed /\ arrived' = arrived + n /\ UNCHANGED closed
     \/ closed' = TRUE /\ UNCHANGED arrived
  /\ UNCHANGED <<stream, start, pos, total, failed, seen>>

Init ==
  /\ stream \in Streams
  /\ arrived = 0 /\ closed = FALSE
  /\ start = 0 /\ pos = 0 /\ total = 0
  /\ left = 0
  /\ failed = "no"
  /\ seen = <<>>

\* A connection that was given up is closed and its parser state cleared
\* (ResetConnectionEpoch); the next one is another stream.
Reconnect ==
  /\ failed # "no"
  /\ stream' \in Streams
  /\ arrived' = 0 /\ closed' = FALSE
  /\ start' = 0 /\ pos' = 0 /\ total' = 0
  /\ left' = 0
  /\ failed' = "no"
  /\ seen' = <<>>

Next == Run \/ Iterate \/ Reconnect

\* The super-loop calls MqttClient_Run again and again, and a call always ends.
Spec == Init /\ [][Next]_vars /\ WF_vars(Next)

\* What follows a packet shorter than the first fetch (CONNACK, PUBACK, PINGRESP)
\* comes only after that packet was handed over.
Paced ==
  \A i \in 1 .. Len(stream) :
    i > Len(seen) /\ Total(stream[i]) < HeaderMax => arrived <= stream[i].to
PacedNext == Next /\ Paced'
PacedSpec == Init /\ [][PacedNext]_vars /\ WF_vars(PacedNext)

-----------------------------------------------------------------------------
(* Properties.                                                             *)

\* The reader never loses its place: what it holds is the beginning of the next
\* packet, and a parsed length is that packet's length.
Placed ==
  LET n == Len(seen) IN
  /\ start = End(stream, n)
  /\ start <= pos /\ pos <= arrived /\ arrived <= End(stream, Len(stream))
  /\ total = 0 => Held <= HeaderMax
  /\ total <= BufferSize
  /\ total # 0 =>
       n < Len(stream) /\ total = Total(stream[n + 1]) /\ 0 < Held /\ Held < total

\* The end of the stream is reported with the transport drained and the next
\* packet incomplete.
Drained ==
  LET n == Len(seen) IN
  failed = "CLOSED" =>
    /\ pos = arrived
    /\ total = 0 /\ n < Len(stream) => Held < Total(stream[n + 1])

\* Together inductive, where packets fit the buffer and short ones are paced.
IInv == TypeOK /\ InOrder /\ Placed /\ Drained

\* When the end of the stream is reported, every packet that had arrived whole
\* was handed over first (mqtt_client.c:397-402, 452-457).
ClosedAfterTheLast ==
  failed = "CLOSED" => \A i \in 1 .. Len(stream) : stream[i].to <= arrived => i <= Len(seen)

\* A packet that has arrived is handed over, however it was fragmented, unless
\* the connection is given up.
Longest == CHOOSE n \in {Len(s) : s \in Streams} : \A s \in Streams : Len(s) <= n
EveryPacketIsDispatched ==
  \A k \in 1 .. Longest :
    (k <= Len(stream) /\ arrived >= End(stream, Least(k, Len(stream))))
      ~> (Len(seen) >= k \/ failed # "no")

=============================================================================
