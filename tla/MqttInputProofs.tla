--------------------------- MODULE MqttInputProofs ---------------------------
(***************************************************************************)
(* What comes in over MQTT, for inputs of any size.                        *)
(*                                                                         *)
(* Streams: where packets fit the buffer and nothing comes close behind a  *)
(* packet shorter than the first fetch, Ingest hands over the packets of a *)
(* connection whole and in order, for streams, buffers and fragmentations  *)
(* of any size.                                                            *)
(*                                                                         *)
(* Texts and packets: on byte strings of any length, the topic checks of   *)
(* mqtt_utf8.c and the codec of mqtt_codec.c agree with the languages of   *)
(* WireFormats.                                                            *)
(*                                                                         *)
(* Commands: so do, on texts and messages of any length, the scanners of   *)
(* numbers, unsigned integers and strings and the object's loop of         *)
(* command_parser.c.                                                       *)
(*                                                                         *)
(* The definitions on either side are recursive functions.  Such a         *)
(* function exists, and two of them agree, because a set of numbers that   *)
(* is not empty has a least member, and so has the set of positions where  *)
(* one is missing or they differ.                                          *)
(***************************************************************************)
EXTENDS MqttIngest, WireFormats, SequenceTheorems, FiniteSetTheorems,
        WellFoundedInduction, TLAPS

-----------------------------------------------------------------------------
(* Streams *)

\* The fields of a packet of a stream.
LEMMA PacketOf ==
  ASSUME NEW s, IsStream(s), NEW i \in 1 .. Len(s)
  PROVE  /\ s[i].from \in Nat /\ s[i].to \in Nat /\ s[i].header \in 2 .. HeaderMax
         /\ s[i].header \in Nat /\ s[i].header >= 2
         /\ s[i].to >= s[i].from + s[i].header
         /\ s[i].from = End(s, i - 1)
         /\ \A j \in 1 .. Len(s) : i < j => s[i].to <= s[j].from
<1>1. s \in Seq(Packets)
  BY DEF IsStream
<1>2. s[i] \in Packets
  BY <1>1, ElementOfSeq
<1>3. /\ s[i].from \in Nat /\ s[i].to \in Nat /\ s[i].header \in 2 .. HeaderMax
  BY <1>2 DEF Packets
<1> QED
  BY <1>3, IngestAssumption DEF IsStream

\* Where a stream ends is a number.
LEMMA EndOf ==
  ASSUME NEW s, IsStream(s)
  PROVE  End(s, 0) = 0 /\ Len(s) \in Nat /\ End(s, Len(s)) \in Nat
<1>1. Len(s) \in Nat
  BY DEF IsStream
<1>2. CASE Len(s) = 0
  BY <1>2 DEF End
<1>3. CASE Len(s) > 0
  BY <1>1, <1>3, PacketOf DEF End
<1> QED
  BY <1>1, <1>2, <1>3 DEF End

\* The next packet of the stream: there is one unless all were handed over, and
\* it is the only one that begins where the buffer begins.
LEMMA NextPacket ==
  ASSUME TypeOK, InOrder, Placed, Len(seen) < Len(stream)
  PROVE  Here = Len(seen) + 1
<1> DEFINE n == Len(seen)
<1>1. IsStream(stream) /\ n \in Nat /\ Len(stream) \in Nat /\ n + 1 \in 1 .. Len(stream)
  BY IngestAssumption DEF TypeOK
<1>2. stream[n + 1].from = start
  BY <1>1 DEF IsStream, Placed, End
<1>3. \A i, j \in 1 .. Len(stream) : i < j => stream[i].from < stream[j].from
  <2> SUFFICES ASSUME NEW i \in 1 .. Len(stream), NEW j \in 1 .. Len(stream), i < j
               PROVE  stream[i].from < stream[j].from
    OBVIOUS
  <2> QED
    BY SMTT(40), <1>1, PacketOf
<1>4. \A i \in 1 .. Len(stream) : stream[i].from = start => i = n + 1
  <2> SUFFICES ASSUME NEW i \in 1 .. Len(stream), stream[i].from = start, i # n + 1
               PROVE  FALSE
    OBVIOUS
  <2>1. i < n + 1 \/ n + 1 < i
    BY <1>1
  <2>2. stream[i].from \in Nat /\ stream[n + 1].from \in Nat
    BY <1>1, PacketOf
  <2> QED
    BY <1>1, <1>2, <1>3, <2>1, <2>2
<1> QED
  BY <1>1, <1>2, <1>4 DEF Here

\* What is known of the next packet and of the header read from it.
LEMMA NextSize ==
  ASSUME TypeOK, InOrder, Placed, Len(seen) < Len(stream), NEW h \in HeaderHere
  PROVE  LET p == stream[Len(seen) + 1] IN
         /\ h.total = Total(p) /\ h.total \in Nat /\ h.total >= h.header
         /\ h.header = p.header /\ h.header \in 2 .. HeaderMax
         /\ start = p.from /\ p.to = start + h.total /\ p.to = End(stream, Len(seen) + 1)
         /\ p.to <= End(stream, Len(stream))
<1> DEFINE n == Len(seen) p == stream[n + 1]
<1>1. IsStream(stream) /\ n \in Nat /\ Len(stream) \in Nat /\ n + 1 \in 1 .. Len(stream)
  BY IngestAssumption DEF TypeOK
<1>2. Here = n + 1 /\ Here # 0
  BY <1>1, NextPacket
<1>3. h = [total |-> Total(p), header |-> p.header]
  BY <1>2 DEF HeaderHere
<1>4. p.from \in Nat /\ p.to \in Nat /\ p.header \in 2 .. HeaderMax
  BY <1>1, PacketOf
<1>5. p.from = End(stream, n) /\ p.to >= p.from + p.header
  BY <1>1, PacketOf
<1>6. Total(p) \in Nat /\ Total(p) >= p.header
  BY <1>4, <1>5, IngestAssumption DEF Total
<1>7. p.to <= End(stream, Len(stream))
  <2>1. CASE n + 1 = Len(stream)
    BY <1>1, <1>4, <2>1 DEF End
  <2>2. CASE n + 1 < Len(stream)
    <3>1. /\ p.to <= stream[Len(stream)].from
          /\ stream[Len(stream)].to >= stream[Len(stream)].from + stream[Len(stream)].header
          /\ stream[Len(stream)].from \in Nat /\ stream[Len(stream)].to \in Nat
          /\ stream[Len(stream)].header \in Nat
      BY <1>1, <2>2, PacketOf
    <3> QED
      BY <1>1, <1>4, <3>1, IngestAssumption DEF End
  <2> QED
    BY <1>1, <2>1, <2>2
<1>8. start = p.from /\ p.to = End(stream, n + 1)
  BY <1>1, <1>5 DEF Placed, End
<1> QED
  BY <1>3, <1>4, <1>5, <1>6, <1>7, <1>8, IngestAssumption DEF Total

\* Once every packet was handed over there is nothing to read.
LEMMA NoMorePackets ==
  ASSUME TypeOK, InOrder, Placed, Len(seen) >= Len(stream)
  PROVE  Held = 0 /\ Waiting = 0
<1>1. Len(seen) = Len(stream) /\ Len(stream) \in Nat
  BY DEF InOrder, TypeOK
<1>2. start \in Nat /\ pos \in Nat /\ arrived \in Nat
  BY DEF TypeOK
<1> QED
  BY <1>1, <1>2 DEF Placed, Held, Waiting

\* A header is needed unless a length was parsed.
LEMMA NeededWithoutTotal == ASSUME TypeOK, Placed PROVE HeaderNeeded <=> total = 0
<1>1. start \in Nat /\ pos \in Nat /\ total \in Nat
  BY DEF TypeOK
<1>2. total # 0 => 0 < Held
  BY DEF Placed
<1> QED
  BY <1>1, <1>2 DEF HeaderNeeded, Held

\* The fetches for a header take no more than waits and stop at HeaderMax, and
\* at the end of the packet if it is shorter: there is nothing behind it.
LEMMA HeaderFetch ==
  ASSUME TypeOK, InOrder, Placed, Paced, Len(seen) < Len(stream), NEW h \in HeaderHere
  PROVE  /\ AfterHeader(h) \in Nat
         /\ Held <= AfterHeader(h) /\ start + AfterHeader(h) <= arrived
         /\ total = 0 => AfterHeader(h) <= HeaderMax
         /\ total # 0 => AfterHeader(h) = Held
         /\ AfterHeader(h) < h.header /\ total = 0 => Held < h.header
         /\ AfterHeader(h) < h.header /\ total = 0 => start + AfterHeader(h) = arrived
         /\ AfterHeader(h) <= h.total
<1>1. h.header \in 2 .. HeaderMax
  BY NextSize
<1>2. /\ start \in Nat /\ pos \in Nat /\ arrived \in Nat /\ total \in Nat
      /\ HeaderMax \in Nat /\ HeaderMax > 1
  BY IngestAssumption DEF TypeOK
<1>3. start <= pos /\ pos <= arrived /\ (total = 0 => pos - start <= HeaderMax)
  BY DEF Placed, Held
<1>4. /\ AfterHeader(h) \in Nat
      /\ Held <= AfterHeader(h) /\ start + AfterHeader(h) <= arrived
      /\ total = 0 => AfterHeader(h) <= HeaderMax
      /\ total # 0 => AfterHeader(h) = Held
      /\ AfterHeader(h) < h.header /\ total = 0 => Held < h.header
      /\ AfterHeader(h) < h.header /\ total = 0 => start + AfterHeader(h) = arrived
  BY <1>1, <1>2, <1>3, NeededWithoutTotal DEF AfterHeader, Held, Waiting, Least
<1>5. AfterHeader(h) <= h.total
  <2> DEFINE n == Len(seen)  held == AfterHeader(h)
  <2>1. n \in Nat /\ Len(stream) \in Nat /\ n + 1 \in 1 .. Len(stream)
    BY IngestAssumption DEF TypeOK
  <2>2. h.total = Total(stream[n + 1]) /\ h.total \in Nat /\ stream[n + 1].to = start + h.total
    BY NextSize
  <2>3. CASE total # 0
    <3>1. total = Total(stream[n + 1]) /\ Held < total
      BY <2>3 DEF Placed
    <3> QED
      BY <1>2, <1>4, <2>2, <2>3, <3>1 DEF Held
  <2>4. CASE total = 0 /\ h.total >= HeaderMax
    BY <1>2, <1>4, <2>2, <2>4
  <2>5. CASE total = 0 /\ h.total < HeaderMax
    <3>1. arrived <= stream[n + 1].to
      BY <2>1, <2>2, <2>5 DEF Paced
    <3> HIDE DEF held, n
    <3>2. start + held <= start + h.total
      BY <1>2, <1>4, <2>2, <3>1 DEF held, n
    <3> QED
      BY <1>2, <1>4, <2>2, <3>2 DEF held
  <2> QED
    BY <1>2, <2>2, <2>3, <2>4, <2>5
<1> QED
  BY <1>4, <1>5

\* Neither does the fetch of the body, and it does not overrun the buffer.
LEMMA BodyFetch ==
  ASSUME TypeOK, InOrder, Placed, Paced, PacketsFit, Len(seen) < Len(stream), NEW h \in HeaderHere,
         Acceptable(h)
  PROVE  /\ Wanted(h) = h.total /\ h.total <= BufferSize
         /\ AfterHeader(h) > 0
         /\ Got(h) \in Nat
         /\ AfterHeader(h) + Got(h) <= h.total
         /\ start + AfterHeader(h) + Got(h) <= arrived
         /\ AfterHeader(h) + Got(h) < h.total => start + AfterHeader(h) + Got(h) = arrived
         /\ Lengths(h) = {AfterHeader(h) + Got(h)}
<1> DEFINE n == Len(seen)  held == AfterHeader(h)  got == Got(h)
<1>1. n \in Nat /\ Len(stream) \in Nat /\ n + 1 \in 1 .. Len(stream) /\ stream \in Streams
  BY IngestAssumption DEF TypeOK
<1>2. /\ h.total = Total(stream[n + 1]) /\ h.total \in Nat
      /\ h.header = stream[n + 1].header /\ h.header \in 2 .. HeaderMax
  BY NextSize
<1>3. /\ start \in Nat /\ arrived \in Nat /\ total \in Nat /\ BufferSize \in Nat /\ HeaderMax \in Nat
      /\ pos \in Nat
  BY IngestAssumption DEF TypeOK
<1>4. held \in Nat /\ start + held <= arrived /\ held <= h.total /\ (total # 0 => held = Held)
  BY HeaderFetch
<1>5. Wanted(h) = h.total
  BY <1>2, NeededWithoutTotal DEF Wanted, Placed
<1>6. h.total <= BufferSize
  <2>1. CASE total = 0
    <3>1. HeaderNeeded
      BY <2>1, NeededWithoutTotal
    <3>2. h.total - h.header <= MaxRemaining
      BY <3>1, Zenon DEF Acceptable
    <3>3. Total(stream[n + 1]) - stream[n + 1].header <= MaxRemaining
      BY <1>2, <3>2
    <3> QED
      BY <1>1, <1>2, <3>3 DEF PacketsFit
  <2>2. CASE total # 0
    BY <1>2, <2>2 DEF Placed
  <2> QED
    BY <2>1, <2>2
<1>7. held > 0
  <2>1. CASE total = 0
    <3>1. HeaderNeeded
      BY <2>1, NeededWithoutTotal
    <3>2. held >= h.header
      BY <3>1, Zenon DEF Acceptable
    <3> QED
      BY <1>2, <1>3, <1>4, <3>2
  <2>2. CASE total # 0
    BY <1>3, <1>4, <2>2 DEF Placed, Held
  <2> QED
    BY <2>1, <2>2
<1>8. /\ got \in Nat /\ held + got <= h.total /\ start + held + got <= arrived
      /\ held + got < h.total => start + held + got = arrived
  <2>1. got = IF held < h.total THEN Least(h.total - held, arrived - (start + held)) ELSE 0
    BY <1>5 DEF Got
  <2> HIDE DEF got, held
  <2> QED
    BY <1>2, <1>3, <1>4, <2>1 DEF Least
<1>9. Lengths(h) = {held + got}
  <2>1. held + got <= BufferSize
    <3> HIDE DEF got, held
    <3> QED
      BY <1>2, <1>3, <1>4, <1>6, <1>8
  <2> QED
    BY <2>1 DEF Lengths, RxLenAfter
<1> QED
  BY <1>5, <1>6, <1>7, <1>8, <1>9

-----------------------------------------------------------------------------
(* Each step keeps the invariant.                                          *)

\* A fetch that leaves the header incomplete has taken all there was.
LEMMA HeaderIncompleteIInv ==
  ASSUME IInv, Paced, left > 0, NEW h \in HeaderHere, Held + Waiting > 0,
         HeaderIncomplete(h), UNCHANGED <<stream, arrived, closed>>
  PROVE  IInv'
<1> DEFINE held == AfterHeader(h)
<1>0. HeaderNeeded => total = 0
  BY NeededWithoutTotal DEF IInv
<1>1. Len(seen) < Len(stream)
  BY NoMorePackets, IngestAssumption DEF IInv, TypeOK, InOrder
<1>2. /\ start \in Nat /\ pos \in Nat /\ arrived \in Nat /\ total \in Nat /\ left \in Nat
      /\ HeaderMax \in Nat /\ Len(seen) \in Nat /\ Len(stream) \in Nat /\ PacketsPerRun \in Nat
  BY IngestAssumption DEF IInv, TypeOK
<1>3. /\ h.total = Total(stream[Len(seen) + 1]) /\ h.total \in Nat /\ h.total >= h.header
      /\ h.header \in 2 .. HeaderMax
  BY <1>1, NextSize DEF IInv
<1>4. held \in Nat /\ held <= HeaderMax /\ start + held <= arrived /\ start + held = arrived
      /\ held < h.header
  BY <1>0, <1>1, HeaderFetch DEF IInv, HeaderIncomplete
<1>5. pos' = start + held /\ UNCHANGED <<start, total, seen, stream, arrived>> /\ total = 0
  BY <1>0 DEF HeaderIncomplete
<1>6. left' \in 0 .. PacketsPerRun /\ failed' \in Failures
  BY <1>2 DEF HeaderIncomplete, Blocked, IInv, TypeOK, Failures
<1>7. TypeOK'
  BY <1>2, <1>4, <1>5, <1>6 DEF IInv, TypeOK
<1>8. InOrder'
  BY <1>5 DEF IInv, InOrder
<1>9. Placed'
  BY <1>2, <1>4, <1>5 DEF IInv, Placed, Held
<1>10. Drained'
  BY <1>2, <1>3, <1>4, <1>5 DEF Drained, Held
<1> QED
  BY <1>7, <1>8, <1>9, <1>10 DEF IInv

\* Refusing a packet that is too large leaves the reader where it is.
LEMMA TooLargeIInv ==
  ASSUME IInv, Paced, NEW h \in HeaderHere, Held + Waiting > 0,
         TooLarge(h), UNCHANGED <<stream, arrived, closed>>
  PROVE  IInv'
<1> DEFINE held == AfterHeader(h)
<1>0. HeaderNeeded => total = 0
  BY NeededWithoutTotal DEF IInv
<1>1. Len(seen) < Len(stream)
  BY NoMorePackets, IngestAssumption DEF IInv, TypeOK, InOrder
<1>2. /\ start \in Nat /\ pos \in Nat /\ arrived \in Nat /\ total \in Nat
      /\ HeaderMax \in Nat /\ PacketsPerRun \in Nat
  BY IngestAssumption DEF IInv, TypeOK
<1>3. held \in Nat /\ held <= HeaderMax /\ start + held <= arrived
  BY <1>0, <1>1, HeaderFetch DEF IInv, TooLarge
<1>4. /\ pos' = start + held /\ UNCHANGED <<start, total, seen, stream, arrived>> /\ total = 0
      /\ left' = 0 /\ failed' = "TOO_LARGE"
  BY <1>0 DEF TooLarge
<1>5. TypeOK'
  BY <1>2, <1>3, <1>4 DEF IInv, TypeOK, Failures
<1>6. InOrder'
  BY <1>4 DEF IInv, InOrder
<1>7. Placed'
  BY <1>2, <1>3, <1>4 DEF IInv, Placed, Held
<1>8. Drained'
  BY <1>4 DEF Drained
<1> QED
  BY <1>5, <1>6, <1>7, <1>8 DEF IInv

\* A fetch for the body stays within the packet.
LEMMA BodyIncompleteIInv ==
  ASSUME IInv, Paced, PacketsFit, NEW h \in HeaderHere, Held + Waiting > 0,
         BodyIncomplete(h), UNCHANGED <<stream, arrived, closed>>
  PROVE  IInv'
<1> DEFINE n == Len(seen)
           now == AfterHeader(h) + Got(h)
<1>1. n < Len(stream)
  BY NoMorePackets, IngestAssumption DEF IInv, TypeOK, InOrder
<1>2. /\ start \in Nat /\ arrived \in Nat /\ PacketsPerRun \in Nat
      /\ n \in Nat /\ Len(stream) \in Nat
  BY IngestAssumption DEF IInv, TypeOK
<1>3. h.total = Total(stream[n + 1]) /\ h.total \in Nat
  BY <1>1, NextSize DEF IInv
<1>4. /\ Wanted(h) = h.total /\ h.total <= BufferSize
      /\ AfterHeader(h) > 0 /\ Got(h) \in Nat
      /\ start + AfterHeader(h) + Got(h) <= arrived
      /\ now < h.total => start + AfterHeader(h) + Got(h) = arrived
      /\ Lengths(h) = {now}
  <2>1. TypeOK /\ InOrder /\ Placed
    BY DEF IInv
  <2>2. Acceptable(h)
    BY DEF BodyIncomplete
  <2> QED
    BY <1>1, <2>1, <2>2, BodyFetch
<1>5. AfterHeader(h) \in Nat
  BY <1>1, HeaderFetch DEF IInv
<1>6. /\ now < h.total /\ pos' = start + AfterHeader(h) + Got(h) /\ start' = pos' - now /\ total' = h.total
      /\ UNCHANGED <<seen, stream, arrived>>
  BY <1>4 DEF BodyIncomplete
<1>7. now \in Nat /\ now > 0 /\ pos' = start + now /\ start + now = arrived /\ start' = start
  BY <1>2, <1>4, <1>5, <1>6
<1>8. left' \in 0 .. PacketsPerRun /\ failed' \in Failures
  BY <1>2 DEF BodyIncomplete, Blocked, IInv, TypeOK, Failures
<1> HIDE DEF now
<1>9. TypeOK'
  BY <1>2, <1>3, <1>6, <1>7, <1>8 DEF IInv, TypeOK
<1>10. InOrder'
  BY <1>6 DEF IInv, InOrder
<1>11. Placed'
  <2>1. start' = End(stream', Len(seen')) /\ arrived' <= End(stream', Len(stream'))
    BY <1>6, <1>7 DEF IInv, Placed
  <2>2. start' <= pos' /\ pos' <= arrived'
    BY <1>2, <1>6, <1>7
  <2>3. total' # 0 /\ total' = Total(stream'[Len(seen') + 1]) /\ Len(seen') < Len(stream')
    BY <1>1, <1>2, <1>3, <1>6, <1>7
  <2>4. 0 < pos' - start' /\ pos' - start' < total' /\ total' <= BufferSize
    BY <1>2, <1>4, <1>6, <1>7
  <2> QED
    BY <2>1, <2>2, <2>3, <2>4 DEF Placed, Held
<1>12. Drained'
  BY <1>2, <1>3, <1>6, <1>7 DEF Drained, Held
<1> QED
  BY <1>9, <1>10, <1>11, <1>12 DEF IInv

\* A packet handed over is the next one, and the reader then stands at its end.
LEMMA DispatchIInv ==
  ASSUME IInv, Paced, PacketsFit, left > 0, failed = "no", NEW h \in HeaderHere, Held + Waiting > 0,
         Dispatch(h), UNCHANGED <<stream, arrived, closed>>
  PROVE  IInv'
<1> DEFINE n == Len(seen)
           now == AfterHeader(h) + Got(h)
<1>1. n < Len(stream)
  BY NoMorePackets, IngestAssumption DEF IInv, TypeOK, InOrder
<1>2. /\ start \in Nat /\ arrived \in Nat /\ left \in 0 .. PacketsPerRun
      /\ HeaderMax \in Nat /\ BufferSize \in Nat /\ PacketsPerRun \in Nat
      /\ n \in Nat /\ Len(stream) \in Nat
  BY IngestAssumption DEF IInv, TypeOK
<1>3. /\ h.total = Total(stream[n + 1]) /\ h.total \in Nat
      /\ start + h.total = End(stream, n + 1)
      /\ start + h.total <= End(stream, Len(stream))
  BY <1>1, NextSize DEF IInv
<1>4. /\ Wanted(h) = h.total /\ h.total <= BufferSize
      /\ Got(h) \in Nat /\ now <= h.total
      /\ start + AfterHeader(h) + Got(h) <= arrived
      /\ Lengths(h) = {now}
  <2>1. TypeOK /\ InOrder /\ Placed
    BY DEF IInv
  <2>2. Acceptable(h)
    BY DEF Dispatch
  <2> QED
    BY <1>1, <2>1, <2>2, BodyFetch
<1>5. AfterHeader(h) \in Nat
  BY <1>1, HeaderFetch DEF IInv
<1>6. /\ now >= h.total /\ pos' = start + AfterHeader(h) + Got(h) /\ start' = pos' /\ total' = 0
      /\ UNCHANGED <<stream, arrived>>
      /\ \E k \in Handed(h.total) : seen' = Append(seen, k)
      /\ \/ left' = left - 1 /\ failed' = failed
         \/ left' = 0 /\ failed' = "REFUSED"
  BY <1>4 DEF Dispatch
<1>7. pos' = start + h.total /\ start + h.total <= arrived
  <2>1. now = h.total /\ start + AfterHeader(h) + Got(h) = start + now
    BY <1>2, <1>3, <1>4, <1>5, <1>6
  <2> HIDE DEF now
  <2> QED
    BY <1>4, <1>6, <2>1
<1>8. Here = n + 1
  BY <1>1, NextPacket DEF IInv
<1>9. seen' = Append(seen, n + 1)
  BY <1>2, <1>3, <1>4, <1>6, <1>8 DEF Handed
<1> HIDE DEF now
<1>10. /\ Len(seen') = n + 1
       /\ \A i \in 1 .. n : seen'[i] = seen[i]
       /\ seen'[n + 1] = n + 1
       /\ seen' \in Seq(0 .. Len(stream))
  BY <1>1, <1>2, <1>9 DEF IInv, TypeOK
<1>11. TypeOK'
  <2>1. pos' \in Nat /\ start' \in Nat /\ total' \in Nat /\ arrived' \in Nat
    BY <1>2, <1>3, <1>6, <1>7
  <2>2. left' \in 0 .. PacketsPerRun /\ failed' \in Failures
    BY <1>2, <1>6 DEF Failures
  <2>3. stream' \in Streams /\ closed' \in BOOLEAN /\ seen' \in Seq(0 .. Len(stream'))
    BY <1>6, <1>10 DEF IInv, TypeOK
  <2> QED
    BY <2>1, <2>2, <2>3 DEF TypeOK
<1>12. InOrder'
  BY <1>1, <1>2, <1>6, <1>10 DEF IInv, InOrder
<1>13. Placed'
  <2>1. start' = End(stream', Len(seen'))
    BY <1>3, <1>6, <1>7, <1>10
  <2>2. /\ pos' = start' /\ pos' \in Nat /\ pos' <= arrived' /\ arrived' <= End(stream', Len(stream'))
        /\ total' = 0 /\ total' <= BufferSize
    BY <1>2, <1>3, <1>6, <1>7 DEF IInv, Placed
  <2> QED
    BY <1>2, <2>1, <2>2 DEF Placed, Held
<1>14. Drained'
  BY <1>6, <1>10 DEF Drained
<1> QED
  BY <1>11, <1>12, <1>13, <1>14 DEF IInv

\* Giving up on a malformed header leaves the reader where it is.
LEMMA MalformedIInv ==
  ASSUME IInv, Malformed, UNCHANGED <<stream, arrived, closed>>
  PROVE  IInv'
<1>1. /\ start \in Nat /\ pos \in Nat /\ arrived \in Nat /\ HeaderMax \in Nat /\ PacketsPerRun \in Nat
  BY IngestAssumption DEF IInv, TypeOK
<1>2. start <= pos /\ pos <= arrived /\ pos - start <= HeaderMax /\ total = 0
  BY NeededWithoutTotal DEF IInv, Placed, Held, Malformed
<1>3. /\ pos' = start + (IF Held = 0 THEN Least(HeaderMax, Waiting) ELSE Held)
      /\ left' = 0 /\ failed' = "MALFORMED" /\ UNCHANGED <<start, total, seen, stream, arrived>>
  BY DEF Malformed
<1>4. pos' \in Nat /\ start <= pos' /\ pos' <= arrived /\ pos' - start <= HeaderMax
  BY <1>1, <1>2, <1>3 DEF Held, Waiting, Least
<1>5. TypeOK'
  BY <1>1, <1>3, <1>4 DEF IInv, TypeOK, Failures
<1>6. InOrder' /\ Drained'
  BY <1>3 DEF IInv, InOrder, Drained
<1>7. Placed'
  BY <1>2, <1>3, <1>4 DEF IInv, Placed, Held
<1> QED
  BY <1>5, <1>6, <1>7 DEF IInv

\* With nothing to read there is nothing to lose.
LEMMA NothingToReadIInv ==
  ASSUME IInv, NothingToRead, UNCHANGED <<stream, arrived, closed>>
  PROVE  IInv'
<1>1. /\ start \in Nat /\ pos \in Nat /\ arrived \in Nat /\ PacketsPerRun \in Nat
      /\ Len(seen) \in Nat /\ Len(stream) \in Nat
  BY IngestAssumption DEF IInv, TypeOK
<1>2. Held = 0 /\ pos = arrived /\ pos = start
  BY <1>1 DEF NothingToRead, Held, Waiting
<1>3. /\ left' = 0 /\ failed' \in Failures
      /\ UNCHANGED <<start, pos, total, seen, stream, arrived, closed>>
  BY DEF NothingToRead, Blocked, Failures
<1>4. TypeOK'
  BY <1>1, <1>3 DEF IInv, TypeOK
<1>5. InOrder' /\ Placed'
  BY <1>3 DEF IInv, InOrder, Placed, Held
<1>6. Len(seen) < Len(stream) => Total(stream[Len(seen) + 1]) > 0
  <2> SUFFICES ASSUME Len(seen) < Len(stream) PROVE Total(stream[Len(seen) + 1]) > 0
    OBVIOUS
  <2>1. Len(seen) + 1 \in 1 .. Len(stream) /\ stream \in Streams
    BY <1>1 DEF IInv, TypeOK
  <2> DEFINE p == stream[Len(seen) + 1]
  <2>2. p.from \in Nat /\ p.to \in Nat /\ p.header \in Nat /\ p.header >= 2 /\ p.to >= p.from + p.header
    BY <2>1, PacketOf, IngestAssumption
  <2> HIDE DEF p
  <2>3. p.to - p.from > 0
    BY <2>2
  <2> QED
    BY <2>3 DEF Total, p
<1>7. Drained'
  BY <1>1, <1>2, <1>3, <1>6 DEF Drained, Held
<1> QED
  BY <1>4, <1>5, <1>7 DEF IInv

\* A turn of the loop keeps the reader's place.
LEMMA IterateIInv ==
  ASSUME IInv, Paced, PacketsFit, failed = "no", Iterate PROVE IInv'
<1> USE DEF Iterate
<1>1. CASE NothingToRead
  BY <1>1, NothingToReadIInv
<1>2. CASE Malformed
  BY <1>2, MalformedIInv
<1>3. ASSUME NEW h \in HeaderHere, Held + Waiting > 0,
             HeaderIncomplete(h) \/ TooLarge(h) \/ BodyIncomplete(h) \/ Dispatch(h)
      PROVE  IInv'
  BY <1>3, HeaderIncompleteIInv, TooLargeIInv, BodyIncompleteIInv, DispatchIInv
<1> QED
  BY <1>1, <1>2, <1>3

\* Bytes that arrive do not move the reader.
LEMMA RunIInv == ASSUME IInv, Run PROVE IInv'
<1>1. /\ arrived \in Nat /\ PacketsPerRun \in Nat /\ End(stream, Len(stream)) \in Nat
      /\ arrived <= End(stream, Len(stream)) /\ pos \in Nat /\ pos <= arrived
  <2>1. stream \in Streams /\ IsStream(stream) /\ Len(stream) \in Nat
    BY IngestAssumption DEF IInv, TypeOK
  <2>2. End(stream, Len(stream)) \in Nat
    BY <2>1, EndOf
  <2> QED
    BY <2>2, IngestAssumption DEF IInv, TypeOK, Placed
<1>2. /\ arrived' \in Nat /\ arrived <= arrived' /\ arrived' <= End(stream, Len(stream))
      /\ left' = PacketsPerRun
      /\ failed = "no" /\ UNCHANGED <<stream, start, pos, total, failed, seen>>
  BY <1>1 DEF Run
<1> closed' \in BOOLEAN
  BY DEF Run, IInv, TypeOK
<1>3. TypeOK'
  BY <1>1, <1>2 DEF IInv, TypeOK
<1>4. InOrder' /\ Drained'
  BY <1>2 DEF IInv, InOrder, Drained
<1>5. Placed'
  BY <1>1, <1>2 DEF IInv, Placed, Held
<1> QED
  BY <1>3, <1>4, <1>5 DEF IInv

\* A connection begins with an empty buffer at the start of its stream.
LEMMA FreshIInv ==
  ASSUME NEW s \in Streams, stream' = s, arrived' = 0, closed' = FALSE, start' = 0, pos' = 0, total' = 0,
         left' = 0, failed' = "no", seen' = <<>>
  PROVE  IInv'
<1>1. IsStream(s) /\ PacketsPerRun \in Nat /\ HeaderMax \in Nat
  BY IngestAssumption
<1>2. End(s, 0) = 0 /\ Len(s) \in Nat /\ End(s, Len(s)) \in Nat
  BY <1>1, EndOf
<1>3. TypeOK'
  <2>1. seen' \in Seq(0 .. Len(stream')) /\ closed' \in BOOLEAN
    BY EmptySeq
  <2> QED
    BY <1>1, <2>1 DEF TypeOK, Failures
<1>4. InOrder' /\ Drained'
  BY <1>2 DEF InOrder, Drained
<1>5. Placed'
  BY <1>1, <1>2, IngestAssumption DEF Placed, Held
<1> QED
  BY <1>3, <1>4, <1>5 DEF IInv

\* So does the first one.
LEMMA InitIInv == Init => IInv
<1> SUFFICES ASSUME Init PROVE IInv
  OBVIOUS
<1>1. stream \in Streams /\ IsStream(stream) /\ PacketsPerRun \in Nat /\ HeaderMax \in Nat
  BY IngestAssumption DEF Init
<1>2. End(stream, 0) = 0 /\ Len(stream) \in Nat /\ End(stream, Len(stream)) \in Nat
  BY <1>1, EndOf
<1>3. TypeOK
  <2>1. seen \in Seq(0 .. Len(stream)) /\ closed \in BOOLEAN
    BY EmptySeq DEF Init
  <2> QED
    BY <1>1, <2>1 DEF Init, TypeOK, Failures
<1>4. InOrder /\ Drained
  BY <1>2 DEF Init, InOrder, Drained
<1>5. Placed
  BY <1>1, <1>2, IngestAssumption DEF Init, Placed, Held
<1> QED
  BY <1>3, <1>4, <1>5 DEF IInv

-----------------------------------------------------------------------------
\* The packets handed over are the packets sent, from the first on, however they
\* are fragmented, of every length, on two conditions: an accepted packet fits
\* the buffer, and nothing comes behind a packet shorter than the first fetch
\* before it is handed over (mqtt_client.c:383-484).
THEOREM WholeAndInOrder == ASSUME PacketsFit PROVE PacedSpec => []IInv
<1> DEFINE Idle == failed # "no" => left = 0
           All == IInv /\ Idle /\ Paced
<1>1. Init => All
  <2> SUFFICES ASSUME Init PROVE All
    OBVIOUS
  <2>1. IInv /\ Idle
    BY InitIInv DEF Init
  <2>2. Paced
    <3>1. stream \in Streams /\ IsStream(stream) /\ arrived = 0
      BY IngestAssumption DEF Init
    <3>2. \A i \in 1 .. Len(stream) : stream[i].to \in Nat
      BY <3>1, PacketOf
    <3> QED
      BY <3>1, <3>2 DEF Paced
  <2> QED
    BY <2>1, <2>2
<1>2. All /\ [PacedNext]_vars => All'
  <2> SUFFICES ASSUME IInv, Idle, Paced, [PacedNext]_vars PROVE IInv' /\ Idle' /\ Paced'
    OBVIOUS
  <2>1. Paced'
    <3>1. CASE PacedNext
      BY <3>1 DEF PacedNext
    <3>2. CASE UNCHANGED vars
      BY <3>2 DEF vars, Paced
    <3> QED
      BY <3>1, <3>2
  <2>2. CASE Run
    BY <2>1, <2>2, RunIInv DEF Run
  <2>3. CASE Iterate
    <3>1. failed = "no" /\ left \in Nat
      BY <2>3, IngestAssumption DEF Iterate, IInv, TypeOK
    <3>2. IInv'
      BY <2>3, <3>1, IterateIInv
    <3>3. Idle'
      BY <2>3, <3>1 DEF Iterate, NothingToRead, Malformed, HeaderIncomplete, TooLarge, BodyIncomplete,
                       Dispatch, Blocked
    <3> QED
      BY <2>1, <3>2, <3>3
  <2>4. CASE Reconnect
    BY <2>1, <2>4, FreshIInv DEF Reconnect
  <2>5. CASE UNCHANGED vars
    BY <2>1, <2>5 DEF vars, IInv, TypeOK, InOrder, Placed, Drained, Held
  <2> QED
    BY <2>2, <2>3, <2>4, <2>5 DEF PacedNext, Next
<1>3. All => IInv
  OBVIOUS
<1> QED
  BY <1>1, <1>2, <1>3, PTL DEF PacedSpec

\* On the same conditions, the end of the stream is reported only when every
\* packet that arrived whole was handed over (mqtt_client.c:397-402, 452-457).
THEOREM NoPacketIsCutOff == ASSUME PacketsFit PROVE PacedSpec => []ClosedAfterTheLast
<1>1. IInv => ClosedAfterTheLast
  <2> SUFFICES ASSUME IInv, failed = "CLOSED", NEW i \in 1 .. Len(stream),
                      stream[i].to <= arrived, i > Len(seen)
               PROVE  FALSE
    BY DEF ClosedAfterTheLast, IInv, TypeOK
  <2> DEFINE n == Len(seen)
  <2>1. IsStream(stream) /\ n \in Nat /\ Len(stream) \in Nat /\ n + 1 \in 1 .. Len(stream) /\ n < Len(stream)
    BY IngestAssumption DEF IInv, TypeOK
  <2>2. /\ stream[n + 1].from \in Nat /\ stream[n + 1].to \in Nat /\ stream[n + 1].from = End(stream, n)
        /\ stream[i].from \in Nat /\ stream[i].to \in Nat /\ stream[i].header \in Nat
        /\ stream[i].to >= stream[i].from + stream[i].header
    BY <2>1, PacketOf
  <2>3. stream[n + 1].to <= stream[i].to
    <3>1. CASE i = n + 1
      BY <2>2, <3>1
    <3>2. CASE n + 1 < i
      <4>1. stream[n + 1].to <= stream[i].from
        BY <2>1, <3>2, PacketOf
      <4> QED
        BY <2>2, <4>1, IngestAssumption
    <3> QED
      BY <2>1, <3>1, <3>2
  <2>4. start = stream[n + 1].from /\ pos = arrived /\ pos - start < Total(stream[n + 1])
    BY <2>1, <2>2 DEF IInv, Placed, Drained, Held
  <2>5. start \in Nat /\ pos \in Nat /\ arrived \in Nat
    BY DEF IInv, TypeOK
  <2> QED
    BY <2>2, <2>3, <2>4, <2>5 DEF Total
<1> QED
  BY <1>1, WholeAndInOrder, PTL

-----------------------------------------------------------------------------
(* Texts *)

\* Taking a code point apart by six bits and putting it together are inverse.
LEMMA SixBits ==
  ASSUME NEW h \in Nat, NEW b \in Nat
  PROVE  /\ Joined(h, b) \in Nat /\ High(Joined(h, b)) = h
         /\ Low(Joined(h, b)) = 128 + (b % 64)
         /\ Low(Joined(h, b)) = b <=> b \in Continuation
<1>1. b % 64 \in 0 .. 63 /\ ((b % 64) + 128 = b <=> b \in 128 .. 191)
  BY SMT
<1>2. \A y \in 0 .. 63 : (64 * h + y) \div 64 = h /\ (64 * h + y) % 64 = y
  BY SMT
<1> QED
  BY SMT, <1>1, <1>2 DEF Joined, High, Low, Continuation

\* The encoding of a code point, case by case.
LEMMA Utf8Cases ==
  ASSUME NEW c \in Nat
  PROVE  /\ c < 128 => Utf8Of(c) = <<c>>
         /\ 128 <= c /\ c < 2048 => Utf8Of(c) = <<192 + High(c), Low(c)>>
         /\ 2048 <= c /\ c < 65536 => Utf8Of(c) = <<224 + High(High(c)), Low(High(c)), Low(c)>>
         /\ 65536 <= c => Utf8Of(c) = <<240 + High(High(High(c))), Low(High(High(c))),
                                       Low(High(c)), Low(c)>>
  BY SMT DEF Utf8Of

\* A character of one, two, three and four bytes.
LEMMA OneByte ==
  ASSUME NEW b1 \in Byte
  PROVE  b1 \in 1 .. 127 <=>
         LET b == <<b1>> IN Permitted(CodePoint(b)) /\ Utf8Of(CodePoint(b)) = b
<1>1. CodePoint(<<b1>>) = b1 /\ b1 \in Nat
  BY SMT DEF CodePoint, Byte
<1>2. Permitted(b1) <=> b1 # 0
  BY SMT DEF Permitted, Byte
<1>3. CASE b1 < 128
  <2>1. b1 \in 1 .. 127 <=> b1 # 0
    BY SMT, <1>3 DEF Byte
  <2> QED
    BY <1>1, <1>2, <1>3, <2>1, Utf8Cases
<1>4. CASE ~(b1 < 128)
  <2>1. 128 <= b1 /\ b1 < 2048 /\ b1 \notin 1 .. 127
    BY SMT, <1>4 DEF Byte
  <2>2. Utf8Of(b1) = <<192 + High(b1), Low(b1)>>
    BY <2>1, <1>1, Utf8Cases
  <2>3. Utf8Of(b1) # <<b1>>
    BY SMT, <2>2
  <2> QED
    BY <1>1, <2>1, <2>3
<1> QED
  BY <1>3, <1>4

\* Two bytes pass the checks of utf8_seq exactly when they encode a permitted code
\* point.
LEMMA TwoBytes ==
  ASSUME NEW b1 \in Byte, NEW b2 \in Byte
  PROVE  b1 \in 194 .. 223 /\ b2 \in SecondBytes(b1) <=>
         LET b == <<b1, b2>> IN Permitted(CodePoint(b)) /\ Utf8Of(CodePoint(b)) = b
<1> DEFINE h == b1 % 32
           c == Joined(h, b2)
<1>1. CodePoint(<<b1, b2>>) = c
  BY SMT DEF CodePoint
<1>2. h \in 0 .. 31 /\ b2 \in Nat /\ h \in Nat /\ (192 + h = b1 <=> b1 \in 192 .. 223)
  BY SMT DEF Byte
<1>3. c \in Nat /\ High(c) = h /\ (Low(c) = b2 <=> b2 \in Continuation)
  BY <1>2, SixBits
<1>4. c \in 64 * h .. 64 * h + 63
  BY SMT, <1>2 DEF Joined
<1>5. c < 128 <=> h < 2
  BY SMT, <1>2, <1>4
<1>6. c < 2048
  BY SMT, <1>2, <1>4
<1> HIDE DEF h, c
<1>7. CASE c < 128
  <2>1. Utf8Of(c) = <<c>>
    BY <1>3, <1>7, Utf8Cases
  <2>2. Utf8Of(c) # <<b1, b2>>
    BY SMT, <2>1
  <2>3. ~(b1 \in 194 .. 223)
    BY SMT, <1>2, <1>5, <1>7 DEF Byte
  <2> QED
    BY <1>1, <2>2, <2>3
<1>8. CASE ~(c < 128)
  <2>1. Utf8Of(c) = <<192 + h, Low(c)>>
    BY SMT, <1>3, <1>6, <1>8, Utf8Cases
  <2>2. Permitted(c)
    BY SMT, <1>3, <1>6, <1>8 DEF Permitted
  <2>3. Utf8Of(c) = <<b1, b2>> <=> (192 + h = b1 /\ Low(c) = b2)
    BY SMT, <2>1
  <2>4. b1 \in 194 .. 223 <=> 192 + h = b1
    BY SMT, <1>2, <1>5, <1>8 DEF Byte
  <2>5. b1 \in 194 .. 223 => SecondBytes(b1) = Continuation
    BY SMT DEF SecondBytes, Continuation
  <2> QED
    BY <1>1, <1>3, <2>2, <2>3, <2>4, <2>5
<1> QED
  BY <1>7, <1>8

\* The same for three bytes, surrogates and non-characters left out.
LEMMA ThreeBytes ==
  ASSUME NEW b1 \in Byte, NEW b2 \in Byte, NEW b3 \in Byte
  PROVE  (/\ b1 \in 224 .. 239 /\ b2 \in SecondBytes(b1) /\ b3 \in Continuation
          /\ ~(b1 = 239 /\ b2 = 191 /\ b3 \in {190, 191})) <=>
         LET b == <<b1, b2, b3>> IN Permitted(CodePoint(b)) /\ Utf8Of(CodePoint(b)) = b
<1> DEFINE h == b1 % 16
           d == Joined(h, b2)
           c == Joined(d, b3)
           Plain == b1 \in 224 .. 239 /\ b2 \in Continuation /\ b3 \in Continuation
<1>1. CodePoint(<<b1, b2, b3>>) = c
  BY SMT DEF CodePoint
<1>2. h \in 0 .. 15 /\ b2 \in Nat /\ b3 \in Nat /\ h \in Nat
      /\ (224 + h = b1 <=> b1 \in 224 .. 239)
  BY SMT DEF Byte
<1>3. d \in Nat /\ High(d) = h /\ (Low(d) = b2 <=> b2 \in Continuation)
  BY <1>2, SixBits
<1>4. c \in Nat /\ High(c) = d /\ (Low(c) = b3 <=> b3 \in Continuation)
  BY <1>2, <1>3, SixBits
<1>5. c < 65536 /\ d = 64 * h + (b2 % 64) /\ c = 64 * d + (b3 % 64)
  BY SMT, <1>2 DEF Joined
<1>6. b1 \in 224 .. 239 => SecondBytes(b1) \subseteq Continuation
  BY SMT DEF SecondBytes, Continuation
<1>7. ASSUME Plain
      PROVE  (b2 \in SecondBytes(b1) /\ ~(b1 = 239 /\ b2 = 191 /\ b3 \in {190, 191}))
             <=> (2048 <= c /\ Permitted(c))
  <2>1. b2 % 64 = b2 - 128 /\ b3 % 64 = b3 - 128 /\ b1 = 224 + h
    BY SMT, <1>2, <1>7 DEF Continuation
  <2>2. c = 4096 * h + 64 * (b2 - 128) + (b3 - 128)
    BY SMT, <1>2, <1>5, <2>1
  <2>3. b2 \in 128 .. 191 /\ b3 \in 128 .. 191 /\ b1 = 224 + h /\ h \in 0 .. 15
    BY SMT, <1>2, <1>7, <2>1 DEF Continuation
  <2> HIDE DEF c, h, Plain
  <2>4. b2 \in SecondBytes(b1) <=> (2048 <= c /\ (c < 55296 \/ 57343 < c))
    <3>1. CASE h = 0
      BY SMT, <2>2, <2>3, <3>1 DEF SecondBytes
    <3>2. CASE h = 13
      BY SMT, <2>2, <2>3, <3>2 DEF SecondBytes
    <3>3. CASE h \notin {0, 13}
      BY SMT, <2>2, <2>3, <3>3 DEF SecondBytes
    <3> QED
      BY <3>1, <3>2, <3>3
  <2>5. (b1 = 239 /\ b2 = 191 /\ b3 \in {190, 191}) <=> c \in {65534, 65535}
    BY SMT, <2>2, <2>3
  <2>6. 0 < c /\ c <= 1114111 <=> 0 < c
    BY SMT, <1>5, <1>4
  <2> QED
    BY SMT, <2>4, <2>5, <1>5, <1>4 DEF Permitted
<1> HIDE DEF h, d, c, Plain
<1>8. CASE c < 2048
  <2>1. Len(Utf8Of(c)) \in {1, 2}
    BY SMT, <1>4, <1>8, Utf8Cases
  <2>2. Utf8Of(c) # <<b1, b2, b3>>
    BY SMT, <2>1
  <2>3. ~(2048 <= c)
    BY SMT, <1>4, <1>8
  <2> QED
    BY <1>1, <1>6, <1>7, <2>2, <2>3 DEF Plain
<1>9. CASE ~(c < 2048)
  <2>1. Utf8Of(c) = <<224 + h, Low(d), Low(c)>>
    BY SMT, <1>3, <1>4, <1>5, <1>9, Utf8Cases
  <2>2. Utf8Of(c) = <<b1, b2, b3>> <=> (224 + h = b1 /\ Low(d) = b2 /\ Low(c) = b3)
    BY SMT, <2>1
  <2>3. Utf8Of(c) = <<b1, b2, b3>> <=> Plain
    BY <2>2, <1>2, <1>3, <1>4 DEF Plain
  <2>4. 2048 <= c
    BY SMT, <1>4, <1>9
  <2> QED
    BY <1>1, <1>6, <1>7, <2>3, <2>4 DEF Plain
<1> QED
  BY <1>8, <1>9

\* The same for four bytes, up to the last code point.
LEMMA FourBytes ==
  ASSUME NEW b1 \in Byte, NEW b2 \in Byte, NEW b3 \in Byte, NEW b4 \in Byte
  PROVE  (/\ b1 \in 240 .. 244 /\ b2 \in SecondBytes(b1) /\ {b3, b4} \subseteq Continuation) <=>
         LET b == <<b1, b2, b3, b4>> IN Permitted(CodePoint(b)) /\ Utf8Of(CodePoint(b)) = b
<1> DEFINE h == b1 % 8
           e == Joined(h, b2)
           d == Joined(e, b3)
           c == Joined(d, b4)
           Plain == /\ b1 \in 240 .. 247 /\ b2 \in Continuation
                    /\ b3 \in Continuation /\ b4 \in Continuation
<1>1. CodePoint(<<b1, b2, b3, b4>>) = c
  BY SMT DEF CodePoint
<1>2. h \in 0 .. 7 /\ b2 \in Nat /\ b3 \in Nat /\ b4 \in Nat /\ h \in Nat
      /\ (240 + h = b1 <=> b1 \in 240 .. 247)
  BY SMT DEF Byte
<1>3. e \in Nat /\ High(e) = h /\ (Low(e) = b2 <=> b2 \in Continuation)
  BY <1>2, SixBits
<1>4. d \in Nat /\ High(d) = e /\ (Low(d) = b3 <=> b3 \in Continuation)
  BY <1>2, <1>3, SixBits
<1>5. c \in Nat /\ High(c) = d /\ (Low(c) = b4 <=> b4 \in Continuation)
  BY <1>2, <1>4, SixBits
<1>6. e = 64 * h + (b2 % 64) /\ d = 64 * e + (b3 % 64) /\ c = 64 * d + (b4 % 64)
  BY DEF Joined
<1>7. b1 \in 240 .. 244 => SecondBytes(b1) \subseteq Continuation
  BY SMT DEF SecondBytes, Continuation
<1>8. ASSUME Plain
      PROVE  (b1 \in 240 .. 244 /\ b2 \in SecondBytes(b1)) <=> (65536 <= c /\ Permitted(c))
  <2>1. b2 % 64 = b2 - 128 /\ b3 % 64 = b3 - 128 /\ b4 % 64 = b4 - 128 /\ b1 = 240 + h
    BY SMT, <1>2, <1>8 DEF Continuation
  <2> HIDE DEF c, d, e, h
  <2>5. e = 64 * h + (b2 - 128) /\ d = 64 * e + (b3 - 128) /\ c = 64 * d + (b4 - 128)
    BY <1>6, <2>1
  <2>2. c = 262144 * h + 4096 * (b2 - 128) + 64 * (b3 - 128) + (b4 - 128)
    BY SMT, <1>2, <1>3, <1>4, <2>5
  <2> USE DEF c, d, e, h
  <2>3. /\ b2 \in 128 .. 191 /\ b3 \in 128 .. 191 /\ b4 \in 128 .. 191
        /\ b1 = 240 + h /\ h \in 0 .. 7
    BY SMT, <1>2, <1>8, <2>1 DEF Continuation
  <2> HIDE DEF c, h, Plain
  <2>4. (b1 \in 240 .. 244 /\ b2 \in SecondBytes(b1)) <=> (65536 <= c /\ c <= 1114111)
    <3>1. CASE h = 0
      BY SMT, <2>2, <2>3, <3>1 DEF SecondBytes
    <3>2. CASE h = 4
      BY SMT, <2>2, <2>3, <3>2 DEF SecondBytes
    <3>3. CASE h \notin {0, 4}
      BY SMT, <2>2, <2>3, <3>3 DEF SecondBytes
    <3> QED
      BY <3>1, <3>2, <3>3
  <2> QED
    BY SMT, <2>4, <1>5 DEF Permitted
<1> HIDE DEF h, e, d, c, Plain
<1>9. CASE c < 65536
  <2>1. Len(Utf8Of(c)) # 4
    <3>1. CASE c < 128
      BY SMT, <1>5, <3>1, Utf8Cases
    <3>2. CASE 128 <= c /\ c < 2048
      BY SMT, <1>5, <3>2, Utf8Cases
    <3>3. CASE 2048 <= c
      BY SMT, <1>5, <1>9, <3>3, Utf8Cases
    <3> QED
      BY SMT, <1>5, <3>1, <3>2, <3>3
  <2>2. Utf8Of(c) # <<b1, b2, b3, b4>>
    BY SMT, <2>1
  <2>3. ~(65536 <= c)
    BY SMT, <1>5, <1>9
  <2>4. ~(b1 \in 240 .. 244 /\ b2 \in SecondBytes(b1) /\ Plain)
    BY SMT, <1>8, <2>3
  <2>5. b1 \in 240 .. 244 => b1 \in 240 .. 247
    BY SMT
  <2> QED
    BY <1>1, <1>7, <2>2, <2>4, <2>5 DEF Plain
<1>10. CASE ~(c < 65536)
  <2>1. Utf8Of(c) = <<240 + h, Low(e), Low(d), Low(c)>>
    BY SMT, <1>3, <1>4, <1>5, <1>10, Utf8Cases
  <2>2. Utf8Of(c) = <<b1, b2, b3, b4>>
          <=> (240 + h = b1 /\ Low(e) = b2 /\ Low(d) = b3 /\ Low(c) = b4)
    BY SMT, <2>1
  <2>3. Utf8Of(c) = <<b1, b2, b3, b4>> <=> Plain
    BY <2>2, <1>2, <1>3, <1>4, <1>5 DEF Plain
  <2>4. Plain => ((b1 \in 240 .. 244 /\ b2 \in SecondBytes(b1)) <=> Permitted(c))
    BY SMT, <1>5, <1>8, <1>10
  <2>5. b1 \in 240 .. 244 => b1 \in 240 .. 247
    BY SMT
  <2> QED
    BY <1>1, <1>7, <2>3, <2>4, <2>5 DEF Plain
<1> QED
  BY <1>9, <1>10

\* What utf8_seq answers at a position, by the bytes found there.
LEMMA Utf8Lengths ==
  ASSUME NEW s \in Seq(Byte), NEW i \in 1 .. Len(s)
  PROVE  LET n == Utf8Seq(s, i)
         IN  /\ n \in 0 .. 4
             /\ n = 1 <=> s[i] \in 1 .. 127
             /\ n = 2 <=> /\ i + 1 <= Len(s)
                          /\ s[i] \in 194 .. 223 /\ s[i + 1] \in SecondBytes(s[i])
             /\ n = 3 <=> /\ i + 2 <= Len(s)
                          /\ s[i] \in 224 .. 239 /\ s[i + 1] \in SecondBytes(s[i])
                          /\ s[i + 2] \in Continuation
                          /\ ~(s[i] = 239 /\ s[i + 1] = 191 /\ s[i + 2] \in {190, 191})
             /\ n = 4 <=> /\ i + 3 <= Len(s)
                          /\ s[i] \in 240 .. 244 /\ s[i + 1] \in SecondBytes(s[i])
                          /\ {s[i + 2], s[i + 3]} \subseteq Continuation
<1> DEFINE b == s[i]
<1>1. b \in Byte
  OBVIOUS
<1>2. /\ i + 2 - 1 <= Len(s) <=> i + 1 <= Len(s)
      /\ i + 3 - 1 <= Len(s) <=> i + 2 <= Len(s)
      /\ i + 4 - 1 <= Len(s) <=> i + 3 <= Len(s)
  BY SMT
<1>3. \A x \in Byte :
         /\ ~(x \in 1 .. 127 /\ (x \in 194 .. 223 \/ x \in 224 .. 239 \/ x \in 240 .. 244))
         /\ ~(x \in 194 .. 223 /\ (x \in 224 .. 239 \/ x \in 240 .. 244))
         /\ ~(x \in 224 .. 239 /\ x \in 240 .. 244)
  BY SMT DEF Byte
<1> DEFINE B1 == b \in 1 .. 127
           B2 == b \in 194 .. 223
           B3 == b \in 224 .. 239
           B4 == b \in 240 .. 244
           L2 == i + 1 <= Len(s)
           L3 == i + 2 <= Len(s)
           L4 == i + 3 <= Len(s)
           S2 == s[i + 1] \in SecondBytes(b)
           S3 == s[i + 2] \in Continuation
           X3 == b = 239 /\ s[i + 1] = 191 /\ s[i + 2] \in {190, 191}
           S4 == {s[i + 2], s[i + 3]} \subseteq Continuation
<1>4. Utf8Seq(s, i) = IF B1 THEN 1 ELSE IF B2 /\ L2 /\ S2 THEN 2
                      ELSE IF B3 /\ L3 /\ S2 /\ S3 /\ ~X3 THEN 3
                      ELSE IF B4 /\ L4 /\ S2 /\ S4 THEN 4 ELSE 0
  BY SMT, <1>2 DEF Utf8Seq
<1>5. ~(B1 /\ (B2 \/ B3 \/ B4)) /\ ~(B2 /\ (B3 \/ B4)) /\ ~(B3 /\ B4)
  BY <1>1, <1>3
<1> HIDE DEF B1, B2, B3, B4, L2, L3, L4, S2, S3, X3, S4
<1>6. LET n == Utf8Seq(s, i)
      IN  /\ n \in 0 .. 4
          /\ n = 1 <=> B1
          /\ n = 2 <=> L2 /\ B2 /\ S2
          /\ n = 3 <=> L3 /\ B3 /\ S2 /\ S3 /\ ~X3
          /\ n = 4 <=> L4 /\ B4 /\ S2 /\ S4
  BY SMT, <1>4, <1>5
<1> QED
  BY <1>6 DEF B1, B2, B3, B4, L2, L3, L4, S2, S3, X3, S4

\* A slice of one to four bytes, byte by byte.
LEMMA Slices ==
  ASSUME NEW s \in Seq(Byte), NEW i \in 1 .. Len(s)
  PROVE  /\ SubSeq(s, i, i + 1 - 1) = <<s[i]>>
         /\ i + 2 - 1 <= Len(s) => SubSeq(s, i, i + 2 - 1) = <<s[i], s[i + 1]>>
         /\ i + 3 - 1 <= Len(s) => SubSeq(s, i, i + 3 - 1) = <<s[i], s[i + 1], s[i + 2]>>
         /\ i + 4 - 1 <= Len(s) => SubSeq(s, i, i + 4 - 1) = <<s[i], s[i + 1], s[i + 2], s[i + 3]>>
<1>1. ASSUME i + 1 - 1 <= Len(s)
      PROVE  SubSeq(s, i, i + 1 - 1) = <<s[i]>>
  <2> DEFINE u == SubSeq(s, i, i + 1 - 1)
             t == <<s[i]>>
  <2>1. \A j \in i .. i + 1 - 1 : s[j] \in Byte
    BY <1>1
  <2>2. u \in Seq(Byte) /\ Len(u) = 1 /\ \A j \in 1 .. 1 : u[j] = s[i + j - 1]
    BY <2>1, SubSeqProperties
  <2>3. t \in Seq(Byte) /\ Len(t) = 1
    BY <1>1
  <2>4. \A j \in 1 .. 1 : t[j] = s[i + j - 1]
    BY <1>1
  <2> QED
    BY <2>2, <2>3, <2>4, SeqEqual
<1>2. ASSUME i + 2 - 1 <= Len(s)
      PROVE  SubSeq(s, i, i + 2 - 1) = <<s[i], s[i + 1]>>
  <2> DEFINE u == SubSeq(s, i, i + 2 - 1)
             t == <<s[i], s[i + 1]>>
  <2>1. \A j \in i .. i + 2 - 1 : s[j] \in Byte
    BY <1>2
  <2>2. u \in Seq(Byte) /\ Len(u) = 2 /\ \A j \in 1 .. 2 : u[j] = s[i + j - 1]
    BY <2>1, SubSeqProperties
  <2>3. t \in Seq(Byte) /\ Len(t) = 2
    BY <1>2
  <2>4. \A j \in 1 .. 2 : t[j] = s[i + j - 1]
    BY <1>2
  <2> QED
    BY <2>2, <2>3, <2>4, SeqEqual
<1>3. ASSUME i + 3 - 1 <= Len(s)
      PROVE  SubSeq(s, i, i + 3 - 1) = <<s[i], s[i + 1], s[i + 2]>>
  <2> DEFINE u == SubSeq(s, i, i + 3 - 1)
             t == <<s[i], s[i + 1], s[i + 2]>>
  <2>1. \A j \in i .. i + 3 - 1 : s[j] \in Byte
    BY <1>3
  <2>2. u \in Seq(Byte) /\ Len(u) = 3 /\ \A j \in 1 .. 3 : u[j] = s[i + j - 1]
    BY <2>1, SubSeqProperties
  <2>3. t \in Seq(Byte) /\ Len(t) = 3
    BY <1>3
  <2>4. \A j \in 1 .. 3 : t[j] = s[i + j - 1]
    BY <1>3
  <2> QED
    BY <2>2, <2>3, <2>4, SeqEqual
<1>4. ASSUME i + 4 - 1 <= Len(s)
      PROVE  SubSeq(s, i, i + 4 - 1) = <<s[i], s[i + 1], s[i + 2], s[i + 3]>>
  <2> DEFINE u == SubSeq(s, i, i + 4 - 1)
             t == <<s[i], s[i + 1], s[i + 2], s[i + 3]>>
  <2>1. \A j \in i .. i + 4 - 1 : s[j] \in Byte
    BY <1>4
  <2>2. u \in Seq(Byte) /\ Len(u) = 4 /\ \A j \in 1 .. 4 : u[j] = s[i + j - 1]
    BY <2>1, SubSeqProperties
  <2>3. t \in Seq(Byte) /\ Len(t) = 4
    BY <1>4
  <2>4. \A j \in 1 .. 4 : t[j] = s[i + j - 1]
    BY <1>4
  <2> QED
    BY <2>2, <2>3, <2>4, SeqEqual
<1> QED
  BY <1>1, <1>2, <1>3, <1>4

\* utf8_seq answers n exactly where n bytes encode a permitted code point.
LEMMA CharactersAgree ==
  ASSUME NEW s \in Seq(Byte), NEW i \in 1 .. Len(s), NEW n \in 1 .. 4
  PROVE  Utf8Seq(s, i) = n <=> IsCharacter(s, i, n)
<1>1. CASE n = 1
  <2>1. s[i] \in Byte /\ i + 1 - 1 <= Len(s)
    OBVIOUS
  <2>2. Utf8Seq(s, i) = 1 <=> s[i] \in 1 .. 127
    BY Utf8Lengths
  <2>3. Utf8Seq(s, i) = 1 <=> LET b == <<s[i]>> IN Permitted(CodePoint(b)) /\ Utf8Of(CodePoint(b)) = b
    BY <2>1, <2>2, OneByte
  <2>4. SubSeq(s, i, i + 1 - 1) = <<s[i]>>
    BY Slices
  <2> QED
    BY <1>1, <2>1, <2>3, <2>4 DEF IsCharacter
<1>2. CASE n = 2
  <2>1. CASE ~(i + 2 - 1 <= Len(s))
    <3>1. ~(i + 1 <= Len(s))
      BY <2>1
    <3> QED
      BY <1>2, <2>1, <3>1, Utf8Lengths DEF IsCharacter
  <2>2. CASE i + 2 - 1 <= Len(s)
    <3>1. s[i] \in Byte /\ s[i + 1] \in Byte /\ i + 1 <= Len(s)
      BY <2>2
    <3>2. SubSeq(s, i, i + 2 - 1) = <<s[i], s[i + 1]>>
      BY <2>2, Slices
    <3>3. Utf8Seq(s, i) = 2 <=> s[i] \in 194 .. 223 /\ s[i + 1] \in SecondBytes(s[i])
      BY <3>1, Utf8Lengths
    <3> QED
      BY <1>2, <2>2, <3>1, <3>2, <3>3, TwoBytes DEF IsCharacter
  <2> QED
    BY <2>1, <2>2
<1>3. CASE n = 3
  <2>1. CASE ~(i + 3 - 1 <= Len(s))
    <3>1. ~(i + 2 <= Len(s))
      BY <2>1
    <3> QED
      BY <1>3, <2>1, <3>1, Utf8Lengths DEF IsCharacter
  <2>2. CASE i + 3 - 1 <= Len(s)
    <3>1. s[i] \in Byte /\ s[i + 1] \in Byte /\ s[i + 2] \in Byte /\ i + 2 <= Len(s)
      BY <2>2
    <3>2. SubSeq(s, i, i + 3 - 1) = <<s[i], s[i + 1], s[i + 2]>>
      BY <2>2, Slices
    <3>3. Utf8Seq(s, i) = 3 <=>
             /\ s[i] \in 224 .. 239 /\ s[i + 1] \in SecondBytes(s[i])
             /\ s[i + 2] \in Continuation
             /\ ~(s[i] = 239 /\ s[i + 1] = 191 /\ s[i + 2] \in {190, 191})
      BY <3>1, Utf8Lengths
    <3>4. Utf8Seq(s, i) = 3 <=>
             LET b == <<s[i], s[i + 1], s[i + 2]>>
             IN  Permitted(CodePoint(b)) /\ Utf8Of(CodePoint(b)) = b
      BY <3>1, <3>3, ThreeBytes
    <3> QED
      BY <1>3, <2>2, <3>2, <3>4 DEF IsCharacter
  <2> QED
    BY <2>1, <2>2
<1>4. CASE n = 4
  <2>1. CASE ~(i + 4 - 1 <= Len(s))
    <3>1. ~(i + 3 <= Len(s))
      BY <2>1
    <3> QED
      BY <1>4, <2>1, <3>1, Utf8Lengths DEF IsCharacter
  <2>2. CASE i + 4 - 1 <= Len(s)
    <3>1. /\ s[i] \in Byte /\ s[i + 1] \in Byte /\ s[i + 2] \in Byte /\ s[i + 3] \in Byte
          /\ i + 3 <= Len(s)
      BY <2>2
    <3>2. SubSeq(s, i, i + 4 - 1) = <<s[i], s[i + 1], s[i + 2], s[i + 3]>>
      BY <2>2, Slices
    <3>3. Utf8Seq(s, i) = 4 <=>
             /\ s[i] \in 240 .. 244 /\ s[i + 1] \in SecondBytes(s[i])
             /\ {s[i + 2], s[i + 3]} \subseteq Continuation
      BY <3>1, Utf8Lengths
    <3>4. Utf8Seq(s, i) = 4 <=>
             LET b == <<s[i], s[i + 1], s[i + 2], s[i + 3]>>
             IN  Permitted(CodePoint(b)) /\ Utf8Of(CodePoint(b)) = b
      BY <3>1, <3>3, FourBytes
    <3> QED
      BY <1>4, <2>2, <3>2, <3>4 DEF IsCharacter
  <2> QED
    BY <2>1, <2>2
<1> QED
  BY <1>1, <1>2, <1>3, <1>4

\* A set of numbers that is not empty has a least member: every induction below
\* takes one.
LEMMA LeastElement ==
  ASSUME NEW T \in SUBSET Nat, T # {}
  PROVE  \E n \in T : \A m \in T : n <= m
<1>1. \E x \in T : \A y \in T : ~ (<<y, x>> \in OpToRel(<, Nat))
  BY NatLessThanWellFounded, WFMin
<1>2. \A x, y \in T : y < x => <<y, x>> \in OpToRel(<, Nat)
  BY DEF OpToRel
<1>3. \A x, y \in T : ~(y < x) => x <= y
  OBVIOUS
<1> QED
  BY <1>1, <1>2, <1>3

\* And, when it is bounded, a greatest.
LEMMA GreatestElement ==
  ASSUME NEW n \in Nat, NEW D \in SUBSET (1 .. n), D # {}
  PROVE  \E i \in D : \A j \in D : j <= i
<1> DEFINE T == {m \in Nat : \E i \in D : m = n - i}
<1>1. \A i \in D : n - i \in T
  OBVIOUS
<1>2. T # {} /\ T \in SUBSET Nat
  BY <1>1
<1>3. PICK t \in T : \A m \in T : t <= m
  BY <1>2, LeastElement
<1>4. PICK i \in D : t = n - i
  BY <1>3
<1>5. \A j \in D : n - i <= n - j
  BY <1>1, <1>3, <1>4
<1>6. \A j \in D : j <= i
  BY <1>5
<1> QED
  BY <1>6

\* f says of every position whether the end n is reached from it by steps of R.
IsScan(f, n, R) ==
  f = [i \in 1 .. n |-> i = n \/ \E j \in (i + 1) .. n : <<i, j>> \in R /\ f[j]]

\* There is a function that says so, and, below, only one: a scan over a text is
\* what its recursion says, however long the text.
LEMMA ScanExists ==
  ASSUME NEW n \in Nat, NEW R
  PROVE  \E f : IsScan(f, n, R)
<1> DEFINE Closed(S) == \A i \in 1 .. n :
              (i = n \/ \E j \in (i + 1) .. n : <<i, j>> \in R /\ j \in S) => i \in S
           G == {i \in 1 .. n : \A S \in SUBSET (1 .. n) : Closed(S) => i \in S}
           f == [i \in 1 .. n |-> i \in G]
<1>1. \A i, j \in 1 .. n : j > i => j \in (i + 1) .. n
  OBVIOUS
<1>2. Closed(G)
  <2> SUFFICES ASSUME NEW i \in 1 .. n,
                      i = n \/ \E j \in (i + 1) .. n : <<i, j>> \in R /\ j \in G,
                      NEW S \in SUBSET (1 .. n), Closed(S)
               PROVE  i \in S
    OBVIOUS
  <2>1. \A j \in G : j \in S
    OBVIOUS
  <2> QED
    BY <2>1
<1>3. ASSUME NEW i \in G
      PROVE  i = n \/ \E j \in (i + 1) .. n : <<i, j>> \in R /\ j \in G
  <2> SUFFICES ASSUME i # n, ~ \E j \in (i + 1) .. n : <<i, j>> \in R /\ j \in G
               PROVE  FALSE
    OBVIOUS
  <2> DEFINE H == G \ {i}
  <2>1. Closed(H)
    <3> SUFFICES ASSUME NEW k \in 1 .. n,
                        k = n \/ \E j \in (k + 1) .. n : <<k, j>> \in R /\ j \in H
                 PROVE  k \in H
      OBVIOUS
    <3>1. k \in G
      BY <1>2
    <3>2. k # i
      OBVIOUS
    <3> QED
      BY <3>1, <3>2
  <2>2. H \in SUBSET (1 .. n)
    OBVIOUS
  <2>3. i \in H
    BY <2>1, <2>2
  <2> QED
    BY <2>3
<1>4. \A i \in 1 .. n : i \in G <=> (i = n \/ \E j \in (i + 1) .. n : <<i, j>> \in R /\ j \in G)
  BY <1>2, <1>3
<1>5. \A i \in 1 .. n : \A j \in (i + 1) .. n : j \in 1 .. n
  OBVIOUS
<1> HIDE DEF G
<1>6. DOMAIN f = 1 .. n /\ \A i \in 1 .. n : f[i] = (i \in G)
  OBVIOUS
<1> HIDE DEF f
<1>7. ASSUME NEW i \in 1 .. n
      PROVE  f[i] = (i = n \/ \E j \in (i + 1) .. n : <<i, j>> \in R /\ f[j])
  <2>1. \A j \in (i + 1) .. n : f[j] = (j \in G)
    BY <1>5, <1>6
  <2>2. (\E j \in (i + 1) .. n : <<i, j>> \in R /\ f[j])
        <=> (\E j \in (i + 1) .. n : <<i, j>> \in R /\ j \in G)
    BY Zenon, <2>1
  <2>3. f[i] = (i \in G)
    BY <1>6
  <2>4. i \in G <=> (i = n \/ \E j \in (i + 1) .. n : <<i, j>> \in R /\ f[j])
    BY Zenon, <1>4, <2>2
  <2>5. (i \in G) = (i = n \/ \E j \in (i + 1) .. n : <<i, j>> \in R /\ f[j])
    BY <2>4
  <2> QED
    BY <2>3, <2>5
<1>8. IsScan(f, n, R)
  <2>1. f = [i \in 1 .. n |-> f[i]]
    BY DEF f
  <2> QED
    BY Zenon, <1>7, <2>1 DEF IsScan
<1> QED
  BY <1>8

\* Two scans by the same steps agree at every position.
LEMMA ScanUnique ==
  ASSUME NEW n \in Nat, NEW R, NEW f, NEW g, IsScan(f, n, R), IsScan(g, n, R)
  PROVE  \A i \in 1 .. n : f[i] = g[i]
<1> DEFINE D == {i \in 1 .. n : f[i] # g[i]}
<1> SUFFICES ASSUME D # {} PROVE FALSE
  OBVIOUS
<1>1. PICK i \in D : \A j \in D : j <= i
  BY GreatestElement
<1>2. \A j \in (i + 1) .. n : f[j] = g[j]
  BY <1>1
<1>a. i \in 1 .. n
  OBVIOUS
<1> HIDE DEF D
<1>3. /\ f[i] = (i = n \/ \E j \in (i + 1) .. n : <<i, j>> \in R /\ f[j])
      /\ g[i] = (i = n \/ \E j \in (i + 1) .. n : <<i, j>> \in R /\ g[j])
  BY Zenon, <1>a DEF IsScan
<1>4. (\E j \in (i + 1) .. n : <<i, j>> \in R /\ f[j])
      <=> (\E j \in (i + 1) .. n : <<i, j>> \in R /\ g[j])
  BY Zenon, <1>2
<1>5. f[i] = g[i]
  BY <1>3, <1>4
<1> QED
  BY <1>5 DEF D

\* The steps of a text: from the start of a character to the start of the next.
Steps(s) == {<<i, i + Utf8Seq(s, i)>> : i \in {k \in 1 .. Len(s) : Utf8Seq(s, k) # 0}}

\* A step leads forward, at most to the end.
LEMMA StepsProperty ==
  ASSUME NEW s \in Seq(Byte), NEW i \in 1 .. Len(s)
  PROVE  /\ \A j \in (i + 1) .. (Len(s) + 1) :
               <<i, j>> \in Steps(s) <=> Utf8Seq(s, i) # 0 /\ j = i + Utf8Seq(s, i)
         /\ Utf8Seq(s, i) # 0 => i + Utf8Seq(s, i) \in (i + 1) .. (Len(s) + 1)
<1>1. Utf8Seq(s, i) \in 0 .. 4
  BY Utf8Lengths
<1>2. ASSUME Utf8Seq(s, i) # 0
      PROVE  i + Utf8Seq(s, i) - 1 <= Len(s)
  <2>1. Utf8Seq(s, i) \in 1 .. 4
    BY <1>1, <1>2
  <2> QED
    BY <2>1, CharactersAgree DEF IsCharacter
<1>3. ASSUME Utf8Seq(s, i) # 0
      PROVE  i + Utf8Seq(s, i) \in (i + 1) .. (Len(s) + 1)
  BY <1>1, <1>2, <1>3
<1>4. ASSUME NEW j
      PROVE  <<i, j>> \in Steps(s) <=> Utf8Seq(s, i) # 0 /\ j = i + Utf8Seq(s, i)
  BY Zenon DEF Steps
<1> QED
  BY <1>3, <1>4

\* The loop of MqttUtf8_Valid is the scan by the steps of utf8_seq.
LEMMA ValidIsScan ==
  ASSUME NEW s \in Seq(Byte)
  PROVE  \E f : /\ IsScan(f, Len(s) + 1, Steps(s))
                /\ Valid(s) <=> s # <<>> /\ f[1]
<1> DEFINE n == Len(s) + 1
           Rule(g) == [i \in 1 .. n |-> i = n \/ (Utf8Seq(s, i) # 0 /\ g[i + Utf8Seq(s, i)])]
           Scan(g) == [i \in 1 .. n |-> i = n \/ \E j \in (i + 1) .. n : <<i, j>> \in Steps(s) /\ g[j]]
           from == CHOOSE g : g = Rule(g)
<1>1. n \in Nat /\ n - 1 = Len(s)
  OBVIOUS
<1>2. PICK f : f = Scan(f)
  BY <1>1, ScanExists DEF IsScan
<1>3. ASSUME NEW g, NEW i \in 1 .. Len(s)
      PROVE  (\E j \in (i + 1) .. n : <<i, j>> \in Steps(s) /\ g[j])
             <=> (Utf8Seq(s, i) # 0 /\ g[i + Utf8Seq(s, i)])
  BY StepsProperty
<1>4. \A i \in 1 .. n : i = n \/ i \in 1 .. Len(s)
  OBVIOUS
<1>5. ASSUME NEW g
      PROVE  Rule(g) = Scan(g)
  <2>1. ASSUME NEW i \in 1 .. n
        PROVE  (i = n \/ (Utf8Seq(s, i) # 0 /\ g[i + Utf8Seq(s, i)]))
               = (i = n \/ \E j \in (i + 1) .. n : <<i, j>> \in Steps(s) /\ g[j])
    <3>1. CASE i = n
      BY <3>1
    <3>2. CASE i \in 1 .. Len(s)
      BY Zenon, <1>3, <3>2
    <3> QED
      BY <1>4, <3>1, <3>2
  <2> QED
    BY Zenon, <2>1
<1>6. f = Rule(f)
  BY <1>2, <1>5
<1>7. from = Rule(from)
  BY Zenon, <1>6
<1>8. IsScan(from, n, Steps(s))
  BY <1>5, <1>7 DEF IsScan
<1>9. Valid(s) = (s # <<>> /\ from[1])
  BY Zenon DEF Valid
<1> QED
  BY Zenon, <1>8, <1>9

\* So is the definition of a text by permitted code points.
LEMMA IsTextIsScan ==
  ASSUME NEW s \in Seq(Byte)
  PROVE  \E f : /\ IsScan(f, Len(s) + 1, Steps(s))
                /\ IsText(s) <=> s # <<>> /\ f[1]
<1> DEFINE n == Len(s) + 1
           Rule(g) == [i \in 1 .. n |-> i = n \/ \E m \in 1 .. 4 : IsCharacter(s, i, m) /\ g[i + m]]
           Scan(g) == [i \in 1 .. n |-> i = n \/ \E j \in (i + 1) .. n : <<i, j>> \in Steps(s) /\ g[j]]
           reads == CHOOSE g : g = Rule(g)
<1>1. n \in Nat /\ n - 1 = Len(s)
  OBVIOUS
<1>2. PICK f : f = Scan(f)
  BY <1>1, ScanExists DEF IsScan
<1>3. ASSUME NEW g, NEW i \in 1 .. Len(s)
      PROVE  (\E j \in (i + 1) .. n : <<i, j>> \in Steps(s) /\ g[j])
             <=> (\E m \in 1 .. 4 : IsCharacter(s, i, m) /\ g[i + m])
  <2>1. (\E j \in (i + 1) .. n : <<i, j>> \in Steps(s) /\ g[j])
        <=> (Utf8Seq(s, i) # 0 /\ g[i + Utf8Seq(s, i)])
    BY StepsProperty
  <2>2. Utf8Seq(s, i) \in 0 .. 4
    BY Utf8Lengths
  <2>3. Utf8Seq(s, i) # 0 => Utf8Seq(s, i) \in 1 .. 4
    BY <2>2
  <2>4. \A m \in 1 .. 4 : IsCharacter(s, i, m) <=> Utf8Seq(s, i) = m
    BY CharactersAgree
  <2>5. \A m \in 1 .. 4 : m # 0
    OBVIOUS
  <2> QED
    BY Zenon, <2>1, <2>3, <2>4, <2>5
<1>4. \A i \in 1 .. n : i = n \/ i \in 1 .. Len(s)
  OBVIOUS
<1>5. ASSUME NEW g
      PROVE  Rule(g) = Scan(g)
  <2>1. ASSUME NEW i \in 1 .. n
        PROVE  (i = n \/ \E m \in 1 .. 4 : IsCharacter(s, i, m) /\ g[i + m])
               = (i = n \/ \E j \in (i + 1) .. n : <<i, j>> \in Steps(s) /\ g[j])
    <3>1. CASE i = n
      BY <3>1
    <3>2. CASE i \in 1 .. Len(s)
      BY Zenon, <1>3, <3>2
    <3> QED
      BY <1>4, <3>1, <3>2
  <2> QED
    BY Zenon, <2>1
<1>6. f = Rule(f)
  BY <1>2, <1>5
<1>7. reads = Rule(reads)
  BY Zenon, <1>6
<1>8. IsScan(reads, n, Steps(s))
  BY <1>5, <1>7 DEF IsScan
<1>9. IsText(s) = (s # <<>> /\ reads[1])
  BY Zenon DEF IsText
<1> QED
  BY Zenon, <1>8, <1>9

\* mqtt_utf8.c accepts a byte string of any length exactly when it is a sequence
\* of encodings of permitted code points (MqttUtf8_Valid).
THEOREM ValidIsText ==
  ASSUME NEW s \in Seq(Byte)
  PROVE  Valid(s) <=> IsText(s)
<1>1. PICK f : IsScan(f, Len(s) + 1, Steps(s)) /\ (Valid(s) <=> s # <<>> /\ f[1])
  BY ValidIsScan
<1>2. PICK g : IsScan(g, Len(s) + 1, Steps(s)) /\ (IsText(s) <=> s # <<>> /\ g[1])
  BY IsTextIsScan
<1>3. f[1] = g[1]
  <2>1. Len(s) + 1 \in Nat /\ 1 \in 1 .. Len(s) + 1
    OBVIOUS
  <2> QED
    BY <1>1, <1>2, <2>1, ScanUnique
<1> QED
  BY Zenon, <1>1, <1>2, <1>3

\* The level a position lies in.
LEMMA LevelStart ==
  ASSUME NEW s \in Seq(Byte), NEW p \in 1 .. Len(s), s[p] # Slash
  PROVE  \E a \in 1 .. p : (a = 1 \/ s[a - 1] = Slash) /\ \A k \in a .. p : s[k] # Slash
<1> DEFINE D == {k \in 1 .. p : s[k] = Slash}
<1>1. CASE D = {}
  <2>1. \A k \in 1 .. p : s[k] # Slash
    BY <1>1
  <2> QED
    BY <2>1
<1>2. CASE D # {}
  <2>1. PICK d \in D : \A k \in D : k <= d
    <3>1. D \in SUBSET (1 .. p) /\ p \in Nat
      OBVIOUS
    <3> QED
      BY <1>2, <3>1, GreatestElement
  <2> DEFINE a == d + 1
  <2>2. a \in 1 .. p /\ s[a - 1] = Slash
    BY <2>1
  <2>3. \A k \in a .. p : s[k] # Slash
    BY <2>1
  <2> HIDE DEF a
  <2> QED
    BY <2>2, <2>3
<1> QED
  BY <1>1, <1>2

\* The end of the level a position lies in.
LEMMA LevelEnd ==
  ASSUME NEW s \in Seq(Byte), NEW p \in 1 .. Len(s), s[p] # Slash
  PROVE  \E b \in p .. Len(s) : (b = Len(s) \/ s[b + 1] = Slash) /\ \A k \in p .. b : s[k] # Slash
<1> DEFINE D == {k \in p .. Len(s) : s[k] = Slash}
<1>1. CASE D = {}
  <2>1. \A k \in p .. Len(s) : s[k] # Slash
    BY <1>1
  <2>2. Len(s) \in p .. Len(s)
    OBVIOUS
  <2> QED
    BY <2>1, <2>2
<1>2. CASE D # {}
  <2>1. PICK d \in D : \A k \in D : d <= k
    <3>1. D \in SUBSET Nat
      OBVIOUS
    <3> QED
      BY <1>2, <3>1, LeastElement
  <2>2. d - 1 \in p .. Len(s) /\ s[d - 1 + 1] = Slash
    BY <2>1
  <2>3. \A k \in p .. d - 1 : s[k] # Slash
    BY <2>1
  <2> QED
    BY <2>2, <2>3
<1> QED
  BY <1>1, <1>2

\* The places the code's loop allows the wildcards of a filter.
WildcardsPlaced(s) ==
  \A i \in DOMAIN s :
     LET opens  == i = 1 \/ s[i - 1] = Slash
         closes == i = Len(s) \/ s[i + 1] = Slash
     IN  /\ s[i] = Hash => i = Len(s) /\ opens
         /\ s[i] = Plus => opens /\ closes

\* When the wildcards are where the loop allows them, every level is well formed.
LEMMA PlacedWellFormed ==
  ASSUME NEW s \in Seq(Byte), WildcardsPlaced(s),
         NEW a \in 1 .. (Len(s) + 1), NEW b \in 0 .. Len(s), IsLevel(s, a, b)
  PROVE  WellFormed(s, a, b)
<1> DEFINE level == SubSeq(s, a, b)
<1>1. \A k \in a .. b : s[k] \in Byte
  OBVIOUS
<1>2. /\ level \in Seq(Byte) /\ Len(level) = IF a <= b THEN b - a + 1 ELSE 0
      /\ \A k \in 1 .. b - a + 1 : level[k] = s[a + k - 1]
  BY <1>1, SubSeqProperties
<1>3. DOMAIN level = 1 .. Len(level)
  BY <1>2
<1> HIDE DEF level
<1> SUFFICES ASSUME NEW k \in DOMAIN level, level[k] \in {Plus, Hash}
             PROVE  b = a /\ s[a] = level[k] /\ (level[k] = Hash => b = Len(s))
  <2>1. CASE \A k \in DOMAIN level : level[k] \notin {Plus, Hash}
    BY <2>1 DEF WellFormed, level
  <2>2. CASE \E k \in DOMAIN level : level[k] \in {Plus, Hash}
    <3>1. PICK k \in DOMAIN level : level[k] \in {Plus, Hash}
      BY <2>2
    <3>2. b = a /\ s[a] = level[k] /\ (level[k] = Hash => b = Len(s))
      BY <3>1
    <3>3. level = <<level[k]>>
      <4>1. a \in 1 .. Len(s) /\ b = a + 1 - 1
        BY <3>2
      <4>2. level = <<s[a]>>
        BY <4>1, Slices DEF level
      <4> QED
        BY <3>2, <4>2
    <3> QED
      BY <3>1, <3>2, <3>3 DEF WellFormed, level
  <2> QED
    BY <2>1, <2>2
<1> DEFINE p == a + k - 1
<1>4. p \in a .. b /\ p \in 1 .. Len(s) /\ s[p] = level[k]
  BY <1>2, <1>3
<1>5. DOMAIN s = 1 .. Len(s)
  OBVIOUS
<1> HIDE DEF p
<1>6. \A q \in a .. b : s[q] # Slash
  BY DEF IsLevel
<1>7. p = a
  <2> SUFFICES ASSUME p # a PROVE FALSE
    OBVIOUS
  <2>1. p - 1 \in a .. b /\ p # 1
    BY <1>4
  <2>2. p = 1 \/ s[p - 1] = Slash
    BY <1>4, <1>5 DEF WildcardsPlaced
  <2> QED
    BY <1>6, <2>1, <2>2
<1>8. CASE s[p] = Hash
  <2>1. p = Len(s)
    BY <1>4, <1>5, <1>8 DEF WildcardsPlaced
  <2> QED
    BY <1>4, <1>7, <2>1
<1>9. CASE s[p] = Plus
  <2>1. p = Len(s) \/ s[p + 1] = Slash
    BY <1>4, <1>5, <1>9 DEF WildcardsPlaced
  <2>2. p + 1 \notin a .. b \/ p = Len(s)
    BY <1>6, <2>1
  <2>3. b = p
    BY <1>4, <2>2
  <2>4. Plus # Hash
    BY DEF Plus, Hash
  <2> QED
    BY <1>4, <1>7, <1>9, <2>3, <2>4
<1> QED
  BY <1>4, <1>8, <1>9

\* When every level is well formed, the wildcards are where the loop allows them.
LEMMA WellFormedPlaced ==
  ASSUME NEW s \in Seq(Byte),
         \A a \in 1 .. (Len(s) + 1), b \in 0 .. Len(s) : IsLevel(s, a, b) => WellFormed(s, a, b)
  PROVE  WildcardsPlaced(s)
<1>1. DOMAIN s = 1 .. Len(s)
  OBVIOUS
<1> SUFFICES ASSUME NEW p \in 1 .. Len(s), s[p] \in {Plus, Hash}
             PROVE  /\ p = 1 \/ s[p - 1] = Slash
                    /\ p = Len(s) \/ s[p + 1] = Slash
                    /\ s[p] = Hash => p = Len(s)
  BY <1>1 DEF WildcardsPlaced
<1>2. s[p] # Slash
  BY DEF Plus, Hash, Slash
<1>3. PICK a \in 1 .. p : (a = 1 \/ s[a - 1] = Slash) /\ \A k \in a .. p : s[k] # Slash
  BY <1>2, LevelStart
<1>4. PICK b \in p .. Len(s) : (b = Len(s) \/ s[b + 1] = Slash) /\ \A k \in p .. b : s[k] # Slash
  BY <1>2, LevelEnd
<1>5. \A k \in a .. b : k \in a .. p \/ k \in p .. b
  OBVIOUS
<1>6. IsLevel(s, a, b)
  BY <1>3, <1>4, <1>5 DEF IsLevel
<1> DEFINE level == SubSeq(s, a, b)
<1>7. WellFormed(s, a, b)
  BY <1>6
<1>8. \A k \in a .. b : s[k] \in Byte
  OBVIOUS
<1>9. /\ level \in Seq(Byte) /\ Len(level) = b - a + 1
      /\ \A k \in 1 .. b - a + 1 : level[k] = s[a + k - 1]
  BY <1>8, SubSeqProperties
<1>10. p - a + 1 \in DOMAIN level /\ level[p - a + 1] = s[p]
  BY <1>9
<1>11. (level = <<Plus>>) \/ (level = <<Hash>> /\ b = Len(s))
  BY <1>7, <1>10 DEF WellFormed
<1>12. Len(<<Plus>>) = 1 /\ Len(<<Hash>>) = 1
  OBVIOUS
<1>13. Len(level) = 1
  BY <1>11, <1>12
<1>14. a = p /\ b = p
  BY <1>9, <1>13
<1>15. s[p] = level[1]
  BY <1>9, <1>14
<1>16. s[p] = Hash => level # <<Plus>>
  <2>1. <<Plus>>[1] = Plus /\ Plus # Hash
    BY DEF Plus, Hash
  <2> QED
    BY <1>15, <2>1
<1> QED
  BY <1>3, <1>4, <1>11, <1>14, <1>16

\* A filter is accepted exactly when it is short enough, a text, and well formed
\* level by level (MqttUtf8_IsValidTopicFilter).
THEOREM FilterIsLevels ==
  ASSUME NEW s \in Seq(Byte)
  PROVE  IsValidTopicFilter(s)
         <=> Len(s) <= MaxTopicLength /\ IsText(s) /\ IsFilter(s)
<1>1. WildcardsPlaced(s) <=> \A a \in 1 .. (Len(s) + 1), b \in 0 .. Len(s) :
                       IsLevel(s, a, b) => WellFormed(s, a, b)
  BY PlacedWellFormed, WellFormedPlaced
<1>2. IsFilter(s) <=> s # <<>> /\ WildcardsPlaced(s)
  BY Zenon, <1>1 DEF IsFilter, IsLevel, WellFormed
<1>3. IsText(s) => s # <<>>
  BY DEF IsText
<1>4. IsValidTopicFilter(s) <=> Len(s) \in 1 .. MaxTopicLength /\ Valid(s) /\ WildcardsPlaced(s)
  BY Zenon DEF IsValidTopicFilter, WildcardsPlaced
<1> QED
  BY <1>2, <1>3, <1>4, ValidIsText

-----------------------------------------------------------------------------
(* Heads of packets *)

\* The bytes that may end a length: no continuation bit, among the first four.
Ends(buf) == {i \in DOMAIN buf : i <= RlMaxBytes /\ buf[i] < 128}

\* The value of the bytes of a length is a number.
LEMMA VarIntIsNat ==
  ASSUME NEW b \in Seq(Byte)
  PROVE  VarIntValue(b) \in Nat
<1>a. \A x \in Byte : x \in Nat /\ x % 128 \in Nat
  BY SMT DEF Byte
<1>1. \A i \in 1 .. Len(b) : b[i] \in Nat /\ b[i] % 128 \in Nat
  <2>1. \A i \in 1 .. Len(b) : b[i] \in Byte
    OBVIOUS
  <2> QED
    BY <1>a, <2>1
<1> DEFINE Digit(i) == IF i <= Len(b) THEN b[i] % 128 ELSE 0
<1>2. Digit(1) \in Nat /\ Digit(2) \in Nat /\ Digit(3) \in Nat /\ Digit(4) \in Nat
  BY <1>1
<1>3. VarIntValue(b) = Digit(1) + 128 * (Digit(2) + 128 * (Digit(3) + 128 * Digit(4)))
  BY DEF VarIntValue
<1> HIDE DEF Digit
<1> QED
  BY <1>2, <1>3

\* Reading a length: it ends at the first byte below 128 among the first four.
LEMMA ReadVarIntCases ==
  ASSUME NEW b \in Seq(Byte)
  PROVE  /\ Ends(b) # {} =>
              \E n \in Ends(b) :
                 /\ \A i \in Ends(b) : n <= i
                 /\ ReadVarInt(b) = [status |-> "OK", consumed |-> n,
                                     value |-> VarIntValue(SubSeq(b, 1, n))]
         /\ Ends(b) = {} /\ Len(b) < RlMaxBytes => ReadVarInt(b) = Fails("WOULD_BLOCK")
         /\ Ends(b) = {} /\ Len(b) >= RlMaxBytes => ReadVarInt(b) = Fails("MALFORMED")
<1> DEFINE n == CHOOSE i \in Ends(b) : \A j \in Ends(b) : i <= j
<1>1. ReadVarInt(b) = IF Ends(b) # {}
        THEN [status |-> "OK", consumed |-> n, value |-> VarIntValue(SubSeq(b, 1, n))]
        ELSE Fails(IF Len(b) < RlMaxBytes THEN "WOULD_BLOCK" ELSE "MALFORMED")
  BY Zenon DEF ReadVarInt, Ends
<1>2. Ends(b) \in SUBSET Nat
  BY DEF Ends
<1>3. Ends(b) # {} => n \in Ends(b) /\ \A j \in Ends(b) : n <= j
  BY <1>2, LeastElement
<1>4. Len(b) < RlMaxBytes <=> ~(Len(b) >= RlMaxBytes)
  BY DEF RlMaxBytes
<1> HIDE DEF n
<1> QED
  BY <1>1, <1>3, <1>4

\* What one byte string, a prefix of another, says of the length is said by both.
LEMMA PrefixReads ==
  ASSUME NEW b \in Seq(Byte), NEW n \in 0 .. Len(b),
         ReadVarInt(SubSeq(b, 1, n)).status # "WOULD_BLOCK"
  PROVE  ReadVarInt(b) = ReadVarInt(SubSeq(b, 1, n))
<1> DEFINE a == SubSeq(b, 1, n)
<1>1. a \in Seq(Byte) /\ Len(a) = n /\ \A i \in 1 .. n : a[i] = b[i]
  BY SubSeqProperties
<1>2. DOMAIN a = 1 .. n /\ DOMAIN b = 1 .. Len(b)
  BY <1>1
<1>3. Ends(a) = {i \in Ends(b) : i <= n}
  BY <1>1, <1>2 DEF Ends
<1>4. Ends(b) \in SUBSET Nat
  BY DEF Ends
<1>5. CASE Ends(a) # {}
  <2>1. PICK k \in Ends(a) :
           /\ \A i \in Ends(a) : k <= i
           /\ ReadVarInt(a) = [status |-> "OK", consumed |-> k, value |-> VarIntValue(SubSeq(a, 1, k))]
    BY <1>1, <1>5, ReadVarIntCases
  <2>2. Ends(b) # {}
    BY <1>3, <1>5
  <2>3. PICK m \in Ends(b) :
           /\ \A i \in Ends(b) : m <= i
           /\ ReadVarInt(b) = [status |-> "OK", consumed |-> m, value |-> VarIntValue(SubSeq(b, 1, m))]
    BY <2>2, ReadVarIntCases
  <2>4. m = k
    <3>1. k \in Ends(b) /\ m <= k /\ k <= n
      BY <1>3, <2>1, <2>3
    <3>2. m \in Ends(a)
      BY <1>3, <1>4, <3>1
    <3> QED
      BY <1>4, <2>1, <3>1, <3>2
  <2>5. SubSeq(a, 1, k) = SubSeq(b, 1, k)
    <3>1. k \in 1 .. n
      BY <1>2 DEF Ends
    <3> QED
      BY <1>1, <3>1
  <2> QED
    BY <2>1, <2>3, <2>4, <2>5
<1>6. CASE Ends(a) = {}
  <2>1. Len(a) >= RlMaxBytes /\ ReadVarInt(a) = Fails("MALFORMED")
    <3>1. Fails("WOULD_BLOCK").status = "WOULD_BLOCK"
      BY DEF Fails
    <3>2. Len(a) < RlMaxBytes \/ Len(a) >= RlMaxBytes
      BY <1>1 DEF RlMaxBytes
    <3> QED
      BY <1>1, <1>6, <3>1, <3>2, ReadVarIntCases
  <2>2. Ends(b) = {}
    <3>1. \A i \in Ends(b) : i <= n
      BY <1>1, <2>1 DEF Ends, RlMaxBytes
    <3> QED
      BY <1>3, <1>6, <3>1
  <2>3. Len(b) >= RlMaxBytes
    BY <1>1, <2>1 DEF RlMaxBytes
  <2> QED
    BY <2>1, <2>2, <2>3, ReadVarIntCases
<1> QED
  BY <1>5, <1>6

\* MqttCodec_DecodeFixedHeader past its first byte.
LEMMA HeadCases ==
  ASSUME NEW b \in Seq(Byte), b # <<>>, b[1] \div 16 \in 1..14
  PROVE  DecodeFixedHeader(b) =
           LET rl == ReadVarInt(Tail(b))
           IN  IF rl.status # "OK" THEN rl
               ELSE IF rl.value > MaxPacketSize THEN Fails("PACKET_TOO_LARGE")
               ELSE [status |-> "OK", packetType |-> b[1] \div 16,
                     flags |-> b[1] % 16, remaining |-> rl.value,
                     headerLen |-> 1 + rl.consumed]
  BY Zenon DEF DecodeFixedHeader

\* A prefix without its first byte is a prefix without its first byte.
LEMMA TailOfPrefix ==
  ASSUME NEW b \in Seq(Byte), NEW n \in 1 .. Len(b)
  PROVE  /\ SubSeq(b, 1, n) \in Seq(Byte) /\ SubSeq(b, 1, n) # <<>>
         /\ SubSeq(b, 1, n)[1] = b[1]
         /\ Tail(SubSeq(b, 1, n)) = SubSeq(Tail(b), 1, n - 1)
         /\ Tail(b) \in Seq(Byte) /\ Len(Tail(b)) = Len(b) - 1
<1> DEFINE a == SubSeq(b, 1, n)
<1>1. a \in Seq(Byte) /\ Len(a) = n /\ \A i \in 1 .. n : a[i] = b[i]
  BY SubSeqProperties
<1>2. a # <<>> /\ b # <<>>
  BY <1>1
<1>3. /\ Tail(b) \in Seq(Byte) /\ Len(Tail(b)) = Len(b) - 1
      /\ \A i \in 1 .. Len(Tail(b)) : Tail(b)[i] = b[i + 1]
  BY <1>2, HeadTailProperties
<1>4. /\ Tail(a) \in Seq(Byte) /\ Len(Tail(a)) = n - 1
      /\ \A i \in 1 .. Len(Tail(a)) : Tail(a)[i] = a[i + 1]
  BY <1>1, <1>2, HeadTailProperties
<1> DEFINE c == SubSeq(Tail(b), 1, n - 1)
<1>5. c \in Seq(Byte) /\ Len(c) = n - 1 /\ \A i \in 1 .. n - 1 : c[i] = Tail(b)[i]
  <2>1. 1 \in 1 .. Len(Tail(b)) + 1 /\ n - 1 \in 0 .. Len(Tail(b))
    BY <1>3
  <2> QED
    BY <1>3, <2>1, SubSeqProperties
<1>6. \A i \in 1 .. n - 1 : c[i] = Tail(a)[i]
  <2> SUFFICES ASSUME NEW i \in 1 .. n - 1 PROVE c[i] = Tail(a)[i]
    OBVIOUS
  <2>1. c[i] = Tail(b)[i] /\ Tail(b)[i] = b[i + 1]
    BY <1>3, <1>5
  <2>2. Tail(a)[i] = a[i + 1] /\ a[i + 1] = b[i + 1]
    BY <1>1, <1>4
  <2> QED
    BY <2>1, <2>2
<1> HIDE DEF c
<1>7. c = Tail(a)
  BY <1>4, <1>5, <1>6, SeqEqual
<1> QED
  BY <1>1, <1>2, <1>3, <1>7 DEF c

\* A verdict on a head stays.
LEMMA VerdictStays ==
  ASSUME NEW b \in Seq(Byte), NEW n \in 1 .. Len(b),
         DecodeFixedHeader(SubSeq(b, 1, n)).status # "WOULD_BLOCK"
  PROVE  DecodeFixedHeader(b) = DecodeFixedHeader(SubSeq(b, 1, n))
<1> DEFINE a == SubSeq(b, 1, n)
<1>1. a \in Seq(Byte) /\ a # <<>> /\ a[1] = b[1] /\ Tail(a) = SubSeq(Tail(b), 1, n - 1)
      /\ Tail(b) \in Seq(Byte) /\ Len(Tail(b)) = Len(b) - 1
  BY TailOfPrefix
<1>2. b # <<>> /\ n - 1 \in 0 .. Len(Tail(b))
  BY <1>1
<1> HIDE DEF a
<1>3. CASE b[1] \div 16 \notin 1..14
  BY <1>1, <1>2, <1>3, Zenon DEF DecodeFixedHeader, a
<1>4. CASE b[1] \div 16 \in 1..14
  <2>1. ReadVarInt(Tail(a)).status # "WOULD_BLOCK"
    <3>1. SUFFICES ASSUME ReadVarInt(Tail(a)).status = "WOULD_BLOCK" PROVE FALSE
      OBVIOUS
    <3>2. DecodeFixedHeader(a) = ReadVarInt(Tail(a))
      <4>1. ReadVarInt(Tail(a)).status # "OK"
        BY <3>1
      <4>2. a[1] \div 16 \in 1..14
        BY <1>1, <1>4, Zenon
      <4> QED
        BY <1>1, <4>1, <4>2, HeadCases, Zenon
    <3> QED
      BY <3>1, <3>2 DEF a
  <2>2. ReadVarInt(Tail(b)) = ReadVarInt(Tail(a))
    BY <1>1, <1>2, <2>1, PrefixReads, Zenon
  <2>3. a[1] \div 16 \in 1..14
    BY <1>1, <1>4, Zenon
  <2> QED
    BY <1>1, <1>2, <1>4, <2>2, <2>3, HeadCases, Zenon DEF a
<1> QED
  BY <1>3, <1>4

\* While the decoder waits, a zero byte ends the wait.
LEMMA WaitEnds ==
  ASSUME NEW b \in Seq(Byte), b # <<>>, MaxPacketSize \in Nat,
         DecodeFixedHeader(b).status = "WOULD_BLOCK"
  PROVE  DecodeFixedHeader(Append(b, 0)).status \in {"OK", "PACKET_TOO_LARGE"}
<1> DEFINE c == Append(b, 0)
<1>0. 0 \in Byte
  BY SMT DEF Byte
<1>1. c \in Seq(Byte) /\ Len(c) = Len(b) + 1 /\ c[Len(b) + 1] = 0
      /\ \A i \in 1 .. Len(b) : c[i] = b[i]
  BY <1>0, AppendProperties
<1>2. c # <<>> /\ c[1] = b[1]
  BY <1>1
<1>3. b[1] \div 16 \in 1..14
  <2>1. Fails("MALFORMED").status = "MALFORMED"
    BY DEF Fails
  <2>2. b[1] \div 16 \notin 1..14 => DecodeFixedHeader(b) = Fails("MALFORMED")
    BY Zenon DEF DecodeFixedHeader
  <2> QED
    BY <2>1, <2>2
<1>4. Tail(b) \in Seq(Byte) /\ Len(Tail(b)) = Len(b) - 1
      /\ \A i \in 1 .. Len(Tail(b)) : Tail(b)[i] = b[i + 1]
  BY HeadTailProperties
<1>5. Tail(c) \in Seq(Byte) /\ Len(Tail(c)) = Len(b)
      /\ \A i \in 1 .. Len(Tail(c)) : Tail(c)[i] = c[i + 1]
  BY <1>1, <1>2, HeadTailProperties
<1>6. Tail(c)[Len(b)] = 0
  <2>1. Len(b) \in 1 .. Len(Tail(c))
    BY <1>5
  <2> QED
    BY <1>1, <1>5, <2>1
<1>7. Ends(Tail(b)) = {} /\ Len(Tail(b)) < RlMaxBytes
  <2> DEFINE t == Tail(b)
  <2>1. Ends(t) = {} \/ ~(Ends(t) = {})
    OBVIOUS
  <2>2. ReadVarInt(t).status = "WOULD_BLOCK"
    <3> DEFINE rl == ReadVarInt(t)
    <3>1. DecodeFixedHeader(b) = IF rl.status # "OK" THEN rl
               ELSE IF rl.value > MaxPacketSize THEN Fails("PACKET_TOO_LARGE")
               ELSE [status |-> "OK", packetType |-> b[1] \div 16,
                     flags |-> b[1] % 16, remaining |-> rl.value,
                     headerLen |-> 1 + rl.consumed]
      BY <1>3, HeadCases, Zenon
    <3>2. Fails("PACKET_TOO_LARGE").status = "PACKET_TOO_LARGE"
      BY DEF Fails
    <3> HIDE DEF rl, t
    <3> QED
      BY <3>1, <3>2 DEF rl
  <2>3. Fails("MALFORMED").status = "MALFORMED"
    BY DEF Fails
  <2>4. Ends(t) = {}
    <3>1. SUFFICES ASSUME Ends(t) # {} PROVE FALSE
      OBVIOUS
    <3>2. PICK m \in Ends(t) :
             ReadVarInt(t) = [status |-> "OK", consumed |-> m, value |-> VarIntValue(SubSeq(t, 1, m))]
      BY <1>4, <3>1, ReadVarIntCases
    <3>3. ReadVarInt(t).status = "OK"
      BY <3>2
    <3> QED
      BY <2>2, <3>3
  <2>5. Len(t) < RlMaxBytes \/ Len(t) >= RlMaxBytes
    BY <1>4 DEF RlMaxBytes
  <2> HIDE DEF t
  <2> QED
    BY <1>4, <2>2, <2>3, <2>4, <2>5, ReadVarIntCases DEF t
<1>8. Len(b) \in Ends(Tail(c))
  BY <1>1, <1>5, <1>6, <1>7, <1>4 DEF Ends, RlMaxBytes
<1>9. PICK k \in Ends(Tail(c)) :
         ReadVarInt(Tail(c)) = [status |-> "OK", consumed |-> k, value |-> VarIntValue(SubSeq(Tail(c), 1, k))]
  BY <1>5, <1>8, ReadVarIntCases
<1> DEFINE rl == ReadVarInt(Tail(c))
<1>10. DecodeFixedHeader(c) = IF rl.status # "OK" THEN rl
               ELSE IF rl.value > MaxPacketSize THEN Fails("PACKET_TOO_LARGE")
               ELSE [status |-> "OK", packetType |-> c[1] \div 16,
                     flags |-> c[1] % 16, remaining |-> rl.value,
                     headerLen |-> 1 + rl.consumed]
  <2>1. c[1] \div 16 \in 1..14
    BY <1>2, <1>3, Zenon
  <2> QED
    BY <1>1, <1>2, <2>1, HeadCases, Zenon
<1>11. Fails("PACKET_TOO_LARGE").status = "PACKET_TOO_LARGE"
  BY DEF Fails
<1>12. rl.status = "OK"
  BY <1>9
<1> HIDE DEF rl, c
<1> QED
  BY <1>10, <1>11, <1>12 DEF c

\* The verdict of MqttCodec_DecodeFixedHeader on a head is final and, while the
\* decoder waits, a byte can end the wait, for buffers of any length.
THEOREM HeadSettles ==
  ASSUME text \in Seq(Byte), MaxPacketSize \in Nat
  PROVE  HeadIsSettled
<1>1. ASSUME NEW n \in 1 .. Len(text), DecodeFixedHeader(SubSeq(text, 1, n)).status # "WOULD_BLOCK"
      PROVE  DecodeFixedHeader(text) = DecodeFixedHeader(SubSeq(text, 1, n))
  BY <1>1, VerdictStays, Zenon
<1>2. ASSUME DecodeFixedHeader(text).status = "WOULD_BLOCK", text # <<>>
      PROVE  DecodeFixedHeader(Append(text, 0)).status \in {"OK", "PACKET_TOO_LARGE"}
  BY <1>2, WaitEnds, Zenon
<1> QED
  BY <1>1, <1>2, Zenon DEF HeadIsSettled

\* Two's worth of seven-bit digits.
LEMMA WriteVarIntShort ==
  ASSUME NEW value \in Nat, value \div 128 < 128
  PROVE  WriteVarInt(value) = IF value < 128 THEN <<value>>
                              ELSE <<128 + (value % 128)>> \o <<value \div 128>>
<1> DEFINE Rule(g) == [v \in 0 .. value |-> IF v < 128 THEN <<v>>
                         ELSE <<128 + (v % 128)>> \o g[v \div 128]]
           digits == CHOOSE g : g = Rule(g)
           known == [v \in 0 .. value |-> IF v < 128 THEN <<v>>
                         ELSE <<128 + (v % 128)>> \o <<v \div 128>>]
<1>1. WriteVarInt(value) = digits[value]
  BY Zenon DEF WriteVarInt
<1>2. \A v \in 0 .. value : ~(v < 128) => v \div 128 \in 0 .. value /\ v \div 128 < 128
  BY SMT
<1>3. known = Rule(known)
  <2>1. ASSUME NEW v \in 0 .. value
        PROVE  (IF v < 128 THEN <<v>> ELSE <<128 + (v % 128)>> \o <<v \div 128>>)
                 = (IF v < 128 THEN <<v>> ELSE <<128 + (v % 128)>> \o known[v \div 128])
    <3>1. CASE v < 128
      BY <3>1, Zenon
    <3>2. CASE ~(v < 128)
      <4>1. v \div 128 \in 0 .. value /\ v \div 128 < 128
        BY <1>2, <3>2, Zenon
      <4>2. known[v \div 128] = <<v \div 128>>
        BY <4>1, Zenon
      <4> QED
        BY <3>2, <4>2, Zenon
    <3> QED
      BY <3>1, <3>2
  <2> QED
    BY <2>1, Zenon
<1>4. digits = Rule(digits)
  BY <1>3, Zenon
<1> HIDE DEF digits, known
<1>5. \A v \in 0 .. value : digits[v] = IF v < 128 THEN <<v>>
                         ELSE <<128 + (v % 128)>> \o digits[v \div 128]
  BY <1>4, Zenon
<1>6. value \in 0 .. value
  OBVIOUS
<1>7. CASE value < 128
  BY <1>1, <1>5, <1>6, <1>7, Zenon
<1>8. CASE ~(value < 128)
  <2>1. value \div 128 \in 0 .. value /\ value \div 128 < 128
    BY <1>2, <1>6, <1>8, Zenon
  <2>2. digits[value \div 128] = <<value \div 128>>
    BY <1>5, <2>1, Zenon
  <2> QED
    BY <1>1, <1>5, <1>6, <1>8, <2>2, Zenon
<1> QED
  BY <1>7, <1>8

\* The length of the head before a body of rl bytes.
HeadLen(rl) == IF rl < 128 THEN 2 ELSE 3

\* The packet write_fixed frames.
Packet(tf, body) == <<tf>> \o WriteVarInt(Len(body)) \o body

\* The one or two bytes of a length, by the digits they hold.
LEMMA DigitsOfLength ==
  ASSUME NEW rl \in Nat, rl \div 128 < 128
  PROVE  /\ WriteVarInt(rl) \in Seq(Byte) /\ Len(WriteVarInt(rl)) = HeadLen(rl) - 1
         /\ rl < 128 => WriteVarInt(rl)[1] = rl
         /\ ~(rl < 128) => /\ WriteVarInt(rl)[1] = 128 + (rl % 128)
                           /\ WriteVarInt(rl)[2] = rl \div 128
<1>1. CASE rl < 128
  <2>1. WriteVarInt(rl) = <<rl>>
    BY <1>1, WriteVarIntShort, Zenon
  <2>2. rl \in Byte
    BY <1>1, SMT DEF Byte
  <2> QED
    BY <1>1, <2>1, <2>2 DEF HeadLen
<1>2. CASE ~(rl < 128)
  <2> DEFINE a == 128 + (rl % 128)
             b == rl \div 128
  <2>1. WriteVarInt(rl) = <<a>> \o <<b>>
    BY <1>2, WriteVarIntShort, Zenon
  <2>2. a \in Byte /\ b \in Byte
    BY <1>2, SMT DEF Byte
  <2> HIDE DEF a, b
  <2>3. <<a>> \in Seq(Byte) /\ <<b>> \in Seq(Byte)
    BY <2>2
  <2>4. <<a>> \o <<b>> \in Seq(Byte) /\ Len(<<a>> \o <<b>>) = 2
        /\ (<<a>> \o <<b>>)[1] = a /\ (<<a>> \o <<b>>)[2] = b
    BY <2>2, <2>3
  <2> QED
    BY <1>2, <2>1, <2>4 DEF HeadLen, a, b
<1> QED
  BY <1>1, <1>2

\* A framed packet: its first byte, its length, its body.
LEMMA PacketBytes ==
  ASSUME NEW tf \in Byte, NEW body \in Seq(Byte), Len(body) \div 128 < 128
  PROVE  LET p == Packet(tf, body)
             rl == Len(body)
             head == HeadLen(rl)
         IN  /\ p \in Seq(Byte) /\ Len(p) = head + rl
             /\ p[1] = tf
             /\ rl < 128 => p[2] = rl
             /\ ~(rl < 128) => p[2] = 128 + (rl % 128) /\ p[3] = rl \div 128
             /\ SubSeq(p, head + 1, Len(p)) = body
<1> DEFINE w == WriteVarInt(Len(body))
           p == Packet(tf, body)
           rl == Len(body)
           head == HeadLen(rl)
<1>0. rl \in Nat /\ (rl < 128 => head = 2) /\ (~(rl < 128) => head = 3) /\ head \in Nat
  BY DEF HeadLen
<1>1. /\ w \in Seq(Byte) /\ Len(w) = head - 1
      /\ rl < 128 => w[1] = rl
      /\ ~(rl < 128) => w[1] = 128 + (rl % 128) /\ w[2] = rl \div 128
  BY <1>0, DigitsOfLength, Zenon
<1> HIDE DEF w
<1>2. <<tf>> \in Seq(Byte) /\ Len(<<tf>>) = 1 /\ <<tf>>[1] = tf
  OBVIOUS
<1> DEFINE h == <<tf>> \o w
<1>3. h \in Seq(Byte) /\ Len(h) = 1 + Len(w) /\ h[1] = tf
      /\ \A i \in 1 .. Len(w) : h[i + 1] = w[i]
  BY <1>1, <1>2
<1>4. p = h \o body
  BY DEF Packet, w
<1> HIDE DEF h, p, head, rl
<1>5. p \in Seq(Byte) /\ Len(p) = Len(h) + Len(body)
      /\ (\A i \in 1 .. Len(h) : p[i] = h[i])
      /\ (\A i \in 1 .. Len(body) : p[Len(h) + i] = body[i])
  BY <1>3, <1>4
<1>6. Len(h) = head
  BY <1>0, <1>1, <1>3
<1>7. SubSeq(p, head + 1, Len(p)) = body
  <2> DEFINE q == SubSeq(p, head + 1, Len(p))
  <2>1. head + 1 \in 1 .. Len(p) + 1 /\ Len(p) \in head .. Len(p)
    BY <1>0, <1>5, <1>6
  <2>2. q \in Seq(Byte) /\ Len(q) = Len(p) - head /\ \A i \in 1 .. Len(q) : q[i] = p[head + i]
    BY <1>0, <1>5, <1>6
  <2> HIDE DEF q
  <2>3. Len(q) = Len(body) /\ \A i \in 1 .. Len(q) : q[i] = body[i]
    BY <2>2, <1>5, <1>6
  <2> QED
    BY <2>2, <2>3, SeqEqual DEF q
<1>8. p[1] = tf /\ p[2] = w[1] /\ (~(rl < 128) => p[3] = w[2])
  <2>1. 1 \in 1 .. Len(h) /\ 2 \in 1 .. Len(h) /\ 1 \in 1 .. Len(w)
        /\ (~(rl < 128) => 3 \in 1 .. Len(h) /\ 2 \in 1 .. Len(w))
    BY <1>0, <1>1, <1>3, <1>6
  <2>2. h[1 + 1] = w[1] /\ (~(rl < 128) => h[2 + 1] = w[2])
    BY <1>3, <2>1
  <2> QED
    BY <1>3, <1>5, <2>1, <2>2
<1> QED
  BY <1>0, <1>1, <1>5, <1>6, <1>7, <1>8, Zenon DEF p, rl, head

\* The length written in a head is the length read there.
LEMMA LengthReadsBack ==
  ASSUME NEW b \in Seq(Byte), NEW rl \in Nat, rl \div 128 < 128, Len(b) >= HeadLen(rl) - 1,
         rl < 128 => b[1] = rl,
         ~(rl < 128) => b[1] = 128 + (rl % 128) /\ b[2] = rl \div 128
  PROVE  ReadVarInt(b) = [status |-> "OK", consumed |-> HeadLen(rl) - 1, value |-> rl]
<1> DEFINE k == HeadLen(rl) - 1
<1>0. k \in 1 .. Len(b) /\ k \in 1 .. 2 /\ (rl < 128 => k = 1) /\ (~(rl < 128) => k = 2)
  BY DEF HeadLen
<1>1. DOMAIN b = 1 .. Len(b)
  OBVIOUS
<1>2. k \in Ends(b) /\ \A i \in Ends(b) : k <= i
  <2>1. CASE rl < 128
    BY <1>0, <1>1, <2>1 DEF Ends, RlMaxBytes
  <2>2. CASE ~(rl < 128)
    <3>1. b[2] < 128 /\ ~(b[1] < 128)
      BY <2>2
    <3> HIDE DEF k
    <3> QED
      BY <1>0, <1>1, <2>2, <3>1 DEF Ends, RlMaxBytes
  <2> QED
    BY <2>1, <2>2
<1>3. PICK n \in Ends(b) :
         /\ \A i \in Ends(b) : n <= i
         /\ ReadVarInt(b) = [status |-> "OK", consumed |-> n, value |-> VarIntValue(SubSeq(b, 1, n))]
  BY <1>2, ReadVarIntCases
<1>4. n = k
  <2>1. n \in Nat
    BY DEF Ends
  <2> QED
    BY <1>0, <1>2, <1>3, <2>1
<1> DEFINE s == SubSeq(b, 1, k)
<1>5. Len(s) = k /\ \A i \in 1 .. k : s[i] = b[i]
  BY <1>0, SubSeqProperties
<1> DEFINE Digit(i) == IF i <= Len(s) THEN s[i] % 128 ELSE 0
<1>6. VarIntValue(s) = Digit(1) + 128 * (Digit(2) + 128 * (Digit(3) + 128 * Digit(4)))
  BY DEF VarIntValue
<1> HIDE DEF s, k
<1>7. Digit(3) = 0 /\ Digit(4) = 0
  BY <1>0, <1>5
<1>8. Digit(1) + 128 * Digit(2) = rl
  <2>1. CASE rl < 128
    <3>1. Len(s) = 1 /\ s[1] = rl
      BY <1>0, <1>5, <2>1
    <3>2. Digit(1) = rl % 128 /\ Digit(2) = 0
      BY <3>1
    <3> HIDE DEF Digit
    <3> QED
      BY <2>1, <3>2
  <2>2. CASE ~(rl < 128)
    <3>1. Len(s) = 2 /\ s[1] = 128 + (rl % 128) /\ s[2] = rl \div 128
      BY <1>0, <1>5, <2>2
    <3>2. Digit(1) = (128 + (rl % 128)) % 128 /\ Digit(2) = (rl \div 128) % 128
      BY <3>1
    <3> HIDE DEF Digit
    <3>3. (128 + (rl % 128)) % 128 = rl % 128 /\ (rl \div 128) % 128 = rl \div 128
      BY SMT
    <3> QED
      BY <3>2, <3>3, SMT
  <2> QED
    BY <2>1, <2>2
<1>9. VarIntValue(s) = rl
  <2>1. Digit(1) + 128 * (Digit(2) + 128 * (0 + 128 * 0)) = Digit(1) + 128 * Digit(2)
    <3>1. Digit(1) \in Int /\ Digit(2) \in Int
      <4>1. s \in Seq(Byte) /\ \A x \in Byte : x % 128 \in Int
        <5>1. s \in Seq(Byte)
          BY <1>0, SubSeqProperties DEF s, k
        <5>2. \A x \in Byte : x % 128 \in Int
          BY SMT DEF Byte
        <5> QED
          BY <5>1, <5>2
      <4>2. ASSUME NEW i \in 1 .. Len(s) PROVE s[i] % 128 \in Int
        BY <4>1
      <4> QED
        BY <1>0, <1>5, <4>2
    <3> HIDE DEF Digit
    <3> QED
      BY <3>1
  <2> QED
    BY <1>6, <1>7, <1>8, <2>1
<1> QED
  BY <1>3, <1>4, <1>9 DEF k, s

\* A head that is not whole yet is waited for.
LEMMA LengthAwaited ==
  ASSUME NEW b \in Seq(Byte), Len(b) = 0 \/ (Len(b) = 1 /\ b[1] >= 128)
  PROVE  ReadVarInt(b).status = "WOULD_BLOCK"
<1>1. Ends(b) = {}
  <2>1. \A i \in DOMAIN b : i = 1 /\ ~(b[i] < 128)
    <3>1. DOMAIN b = 1 .. Len(b)
      OBVIOUS
    <3>2. ASSUME NEW i \in 1 .. Len(b) PROVE i = 1 /\ b[i] >= 128 /\ b[i] \in Byte
      <4>1. b[i] \in Byte
        OBVIOUS
      <4>2. Len(b) # 0
        BY <3>2
      <4>3. Len(b) = 1 /\ b[1] >= 128
        BY <4>2, Zenon
      <4>4. i = 1
        BY <4>3
      <4> QED
        BY <4>1, <4>3, <4>4
    <3>3. \A x \in Byte : x >= 128 => ~(x < 128)
      BY SMT DEF Byte
    <3> QED
      BY <3>1, <3>2, <3>3
  <2> QED
    BY <2>1, Zenon DEF Ends
<1>2. Len(b) < RlMaxBytes
  BY DEF RlMaxBytes
<1>3. Fails("WOULD_BLOCK").status = "WOULD_BLOCK"
  BY DEF Fails
<1> QED
  BY <1>1, <1>2, <1>3, ReadVarIntCases

\* A packet as it arrives: its head is recognised when it is whole, and it tells
\* where the packet ends.
LEMMA PacketArrives ==
  ASSUME NEW tf \in Byte, tf \div 16 \in 1..14, NEW body \in Seq(Byte),
         MaxPacketSize \in Nat, Len(body) <= MaxPacketSize, MaxPacketSize \div 128 < 128,
         NEW n \in 0 .. Len(Packet(tf, body))
  PROVE  LET p    == Packet(tf, body)
             head == HeadOf(Len(p))
             h    == DecodeFixedHeader(SubSeq(p, 1, n))
         IN  /\ n < head => h.status = "WOULD_BLOCK"
             /\ ~(n < head) =>
                  /\ h.status = "OK" /\ h.headerLen = head /\ h.remaining = Len(body)
                  /\ h.flags = tf % 16
             /\ head + Len(body) = Len(p)
             /\ SubSeq(p, head + 1, Len(p)) = body
<1> DEFINE p == Packet(tf, body)
           rl == Len(body)
           head == HeadLen(rl)
           a == SubSeq(p, 1, n)
<1>0. rl \in Nat /\ rl \div 128 < 128
  BY SMT
<1>1. /\ p \in Seq(Byte) /\ Len(p) = head + rl
      /\ p[1] = tf
      /\ rl < 128 => p[2] = rl
      /\ ~(rl < 128) => p[2] = 128 + (rl % 128) /\ p[3] = rl \div 128
      /\ SubSeq(p, head + 1, Len(p)) = body
  BY <1>0, PacketBytes, Zenon
<1>2. (rl < 128 => head = 2) /\ (~(rl < 128) => head = 3) /\ head \in 2 .. 3
  BY DEF HeadLen
<1> HIDE DEF p, rl, head
<1>3. head = HeadOf(Len(p))
  BY <1>0, <1>1, <1>2 DEF HeadOf
<1>4. a \in Seq(Byte) /\ Len(a) = n /\ \A i \in 1 .. n : a[i] = p[i]
  BY <1>1, SubSeqProperties DEF p
<1>n. n \in 0 .. Len(p)
  BY DEF p
<1>5. ASSUME n < head PROVE DecodeFixedHeader(a).status = "WOULD_BLOCK"
  <2>1. CASE n = 0
    <3>1. a = <<>>
      BY <1>4, <2>1
    <3>2. Fails("WOULD_BLOCK").status = "WOULD_BLOCK"
      BY DEF Fails
    <3> QED
      BY <3>1, <3>2 DEF DecodeFixedHeader
  <2>2. CASE n # 0
    <3>1. a # <<>> /\ a[1] = tf /\ n \in 1 .. Len(a)
      BY <1>1, <1>4, <1>n, <2>2
    <3>2. /\ Tail(a) \in Seq(Byte) /\ Len(Tail(a)) = n - 1
          /\ \A i \in 1 .. Len(Tail(a)) : Tail(a)[i] = a[i + 1]
      BY <1>4, <3>1, HeadTailProperties
    <3>3. Len(Tail(a)) = 0 \/ (Len(Tail(a)) = 1 /\ Tail(a)[1] >= 128)
      <4>1. CASE n = 1
        BY <3>2, <4>1
      <4>2. CASE n # 1
        <5>1. n = 2 /\ ~(rl < 128)
          BY <1>2, <1>5, <1>n, <2>2, <4>2
        <5>2. Tail(a)[1] = a[2] /\ a[2] = p[2]
          BY <1>4, <3>2, <5>1
        <5>3. 128 + (rl % 128) >= 128
          BY <1>0, SMT
        <5> QED
          BY <1>1, <3>2, <5>1, <5>2, <5>3
      <4> QED
        BY <4>1, <4>2
    <3>4. ReadVarInt(Tail(a)).status = "WOULD_BLOCK"
      BY <3>2, <3>3, LengthAwaited, Zenon
    <3>5. ReadVarInt(Tail(a)).status # "OK"
      BY <3>4
    <3>6. a[1] \div 16 \in 1 .. 14
      BY <3>1, Zenon
    <3>7. DecodeFixedHeader(a) = ReadVarInt(Tail(a))
      BY <1>4, <3>1, <3>5, <3>6, HeadCases, Zenon
    <3> QED
      BY <3>4, <3>7
  <2> QED
    BY <2>1, <2>2
<1>6. ASSUME ~(n < head)
      PROVE  DecodeFixedHeader(a) = [status |-> "OK", packetType |-> a[1] \div 16,
                     flags |-> a[1] % 16, remaining |-> rl,
                     headerLen |-> head] /\ a[1] = tf
  <2>1. a # <<>> /\ a[1] = tf /\ n >= 2
    BY <1>1, <1>2, <1>4, <1>6, <1>n
  <2>2. /\ Tail(a) \in Seq(Byte) /\ Len(Tail(a)) = n - 1
        /\ \A i \in 1 .. Len(Tail(a)) : Tail(a)[i] = a[i + 1]
    BY <1>4, <2>1, HeadTailProperties
  <2>3. Len(Tail(a)) >= head - 1
    BY <1>2, <1>6, <1>n, <2>2
  <2>4. Tail(a)[1] = p[2] /\ (~(rl < 128) => Tail(a)[2] = p[3])
    <3>1. Tail(a)[1] = a[2] /\ a[2] = p[2]
      BY <1>4, <2>1, <2>2, <1>n
    <3>2. ~(rl < 128) => n >= 3
      BY <1>2, <1>6, <1>n
    <3>3. ~(rl < 128) => Tail(a)[2] = a[3] /\ a[3] = p[3]
      BY <1>4, <1>n, <2>2, <3>2
    <3> QED
      BY <3>1, <3>3
  <2>5. ReadVarInt(Tail(a)) = [status |-> "OK", consumed |-> head - 1, value |-> rl]
    <3>1. /\ rl < 128 => Tail(a)[1] = rl
          /\ ~(rl < 128) => Tail(a)[1] = 128 + (rl % 128) /\ Tail(a)[2] = rl \div 128
      BY <1>1, <2>4, Zenon
    <3>2. Len(Tail(a)) >= HeadLen(rl) - 1
      BY <2>3 DEF head
    <3> QED
      BY <1>0, <2>2, <3>1, <3>2, LengthReadsBack, Zenon DEF head
  <2> DEFINE r == ReadVarInt(Tail(a))
  <2>6. r.status = "OK" /\ r.consumed = head - 1 /\ r.value = rl
    BY <2>5
  <2>7. ~(rl > MaxPacketSize)
    BY <1>0 DEF rl
  <2>8. a[1] \div 16 \in 1 .. 14
    BY <2>1, Zenon
  <2> HIDE DEF r
  <2>9. DecodeFixedHeader(a) = [status |-> "OK", packetType |-> a[1] \div 16,
                     flags |-> a[1] % 16, remaining |-> r.value,
                     headerLen |-> 1 + r.consumed]
    <3>1. r.status = "OK" /\ ~(r.value > MaxPacketSize)
      BY <2>6, <2>7
    <3> QED
      BY <1>4, <2>1, <2>8, <3>1, HeadCases, Zenon DEF r
  <2>10. 1 + r.consumed = head
    BY <1>2, <2>6
  <2> QED
    BY <2>1, <2>6, <2>9, <2>10
<1>7. ~(n < head) => DecodeFixedHeader(a).status = "OK" /\ DecodeFixedHeader(a).headerLen = head
                     /\ DecodeFixedHeader(a).remaining = rl /\ DecodeFixedHeader(a).flags = tf % 16
  <2> SUFFICES ASSUME ~(n < head)
      PROVE DecodeFixedHeader(a).status = "OK" /\ DecodeFixedHeader(a).headerLen = head
            /\ DecodeFixedHeader(a).remaining = rl /\ DecodeFixedHeader(a).flags = tf % 16
    OBVIOUS
  <2> DEFINE type == a[1] \div 16
             flags == a[1] % 16
  <2>1. DecodeFixedHeader(a) = [status |-> "OK", packetType |-> type, flags |-> flags,
                                remaining |-> rl, headerLen |-> head] /\ flags = tf % 16
    BY <1>6, Zenon
  <2> HIDE DEF type, flags, a
  <2> QED
    BY <2>1
<1>8. head + rl = Len(p) /\ SubSeq(p, head + 1, Len(p)) = body
  BY <1>1
<1> HIDE DEF a
<1> QED
  BY <1>3, <1>5, <1>7, <1>8, Zenon DEF p, rl, a

-----------------------------------------------------------------------------
(* Packets, framed and read back *)

\* The bytes of two strings joined.
IsJoin(s, a, b) ==
  /\ s \in Seq(Byte) /\ Len(s) = Len(a) + Len(b)
  /\ \A i \in 1 .. Len(a) : s[i] = a[i]
  /\ \A i \in 1 .. Len(b) : s[Len(a) + i] = b[i]

\* Where the bytes of a concatenation come from.
LEMMA Joins ==
  ASSUME NEW a \in Seq(Byte), NEW b \in Seq(Byte)
  PROVE  IsJoin(a \o b, a, b)
<1>1. a \o b \in Seq(Byte) /\ Len(a \o b) = Len(a) + Len(b) /\ Len(b) \in Nat /\ Len(a) \in Nat
  OBVIOUS
<1>2. \A i \in 1 .. Len(a) : (a \o b)[i] = a[i]
  OBVIOUS
<1>3. ASSUME NEW i \in 1 .. Len(b) PROVE (a \o b)[Len(a) + i] = b[i]
  <2>1. Len(a) + i \in 1 .. Len(a) + Len(b) /\ ~(Len(a) + i <= Len(a)) /\ Len(a) + i - Len(a) = i
    BY <1>1
  <2> QED
    BY <2>1
<1> QED
  BY <1>1, <1>2, <1>3 DEF IsJoin

\* The bytes of a part of a string.
IsCut(q, s, i, n) ==
  q \in Seq(Byte) /\ Len(q) = n /\ \A j \in 1 .. n : q[j] = s[i + j]

\* Where the bytes of a slice come from.
LEMMA Cut ==
  ASSUME NEW s \in Seq(Byte), NEW i \in Nat, NEW n \in Nat, i + n <= Len(s)
  PROVE  IsCut(SubSeq(s, i + 1, i + n), s, i, n)
<1>1. i + 1 \in Int /\ i + n \in Int /\ i + n - (i + 1) + 1 = n
  OBVIOUS
<1>2. \A j \in (i + 1) .. (i + n) : s[j] \in Byte
  OBVIOUS
<1>3. (IF i + 1 <= i + n THEN i + n - (i + 1) + 1 ELSE 0) = n
  OBVIOUS
<1> DEFINE q == SubSeq(s, i + 1, i + n)
           l == IF i + 1 <= i + n THEN i + n - (i + 1) + 1 ELSE 0
<1>4. /\ q \in Seq(Byte) /\ Len(q) = l
      /\ \A j \in 1 .. i + n - (i + 1) + 1 : q[j] = s[i + 1 + j - 1]
  BY <1>1, <1>2, SubSeqProperties
<1>5. \A j \in 1 .. n : i + 1 + j - 1 = i + j
  OBVIOUS
<1> HIDE DEF q
<1>6. \A j \in 1 .. n : q[j] = s[i + j]
  BY <1>1, <1>4, <1>5
<1> QED
  BY <1>3, <1>4, <1>6 DEF q, IsCut

\* Two bytes hold a number below 65536.
LEMMA Be16Bytes ==
  ASSUME NEW v \in Nat, v \div 256 < 256
  PROVE  /\ v \div 256 \in Byte /\ v % 256 \in Byte
         /\ Be16(v) \in Seq(Byte) /\ Len(Be16(v)) = 2
         /\ Be16(v)[1] * 256 + Be16(v)[2] = v
<1> DEFINE h == v \div 256
           l == v % 256
<1>1. h \in Byte /\ l \in Byte /\ h * 256 + l = v
  BY SMT DEF Byte
<1> HIDE DEF h, l
<1>2. <<h, l>> \in Seq(Byte) /\ Len(<<h, l>>) = 2 /\ <<h, l>>[1] = h /\ <<h, l>>[2] = l
  BY <1>1
<1>3. Be16(v) = <<h, l>>
  BY DEF Be16, h, l
<1> QED
  BY <1>1, <1>2, <1>3 DEF h, l

\* The body of a PUBLISH, from its parts.
Body(topic, id, payload) == Be16(Len(topic)) \o topic \o id \o payload

\* s is the body of a PUBLISH, with its parts where the lengths say.
Layout(s, topic, id, payload) ==
  LET n == Len(topic)
      k == Len(id)
  IN  /\ s \in Seq(Byte) /\ Len(s) = 2 + n + k + Len(payload)
      /\ s[1] * 256 + s[2] = n
      /\ SubSeq(s, 3, 2 + n) = topic
      /\ k = 2 => s[3 + n] = id[1] /\ s[4 + n] = id[2]
      /\ SubSeq(s, 3 + n + k, Len(s)) = payload

\* The parts of a PUBLISH are where the decoder looks for them.
LEMMA BodyLayout ==
  ASSUME NEW topic \in Seq(Byte), NEW id \in Seq(Byte), NEW payload \in Seq(Byte),
         Len(topic) \div 256 < 256
  PROVE  Layout(Body(topic, id, payload), topic, id, payload)
<1> DEFINE n == Len(topic)
           k == Len(id)
           s == Body(topic, id, payload)
           b == Be16(n)
<1>0. n \in Nat /\ k \in Nat /\ Len(payload) \in Nat /\ n = Len(topic) /\ k = Len(id)
  OBVIOUS
<1>1. b \in Seq(Byte) /\ Len(b) = 2 /\ b[1] * 256 + b[2] = n
  BY <1>0, Be16Bytes, Zenon
<1> HIDE DEF b, n, k, s
<1> DEFINE s1 == b \o topic
           s2 == s1 \o id
<1>2. s1 \in Seq(Byte) /\ Len(s1) = 2 + n
      /\ (\A i \in 1 .. 2 : s1[i] = b[i]) /\ (\A i \in 1 .. n : s1[2 + i] = topic[i])
  <2>1. IsJoin(s1, b, topic)
    BY <1>1, Joins, Zenon
  <2> HIDE DEF s1
  <2> QED
    BY <1>0, <1>1, <2>1 DEF IsJoin
<1> HIDE DEF s1
<1>3. s2 \in Seq(Byte) /\ Len(s2) = 2 + n + k
      /\ (\A i \in 1 .. 2 + n : s2[i] = s1[i]) /\ (\A i \in 1 .. k : s2[2 + n + i] = id[i])
  <2>1. IsJoin(s2, s1, id)
    BY <1>2, Joins, Zenon
  <2> HIDE DEF s2
  <2> QED
    BY <1>0, <1>2, <2>1 DEF IsJoin
<1>4. s = s2 \o payload
  BY DEF Body, s1, b, n, k, s
<1> HIDE DEF s2
<1>5. s \in Seq(Byte) /\ Len(s) = 2 + n + k + Len(payload)
      /\ (\A i \in 1 .. 2 + n + k : s[i] = s2[i])
      /\ (\A i \in 1 .. Len(payload) : s[2 + n + k + i] = payload[i])
  <2>1. IsJoin(s, s2, payload)
    BY <1>3, <1>4, Joins, Zenon
  <2> QED
    BY <1>0, <1>3, <2>1 DEF IsJoin
<1>6. s[1] = b[1] /\ s[2] = b[2]
  <2>1. 1 \in 1 .. 2 + n + k /\ 2 \in 1 .. 2 + n + k /\ 1 \in 1 .. 2 + n /\ 2 \in 1 .. 2 + n
        /\ 1 \in 1 .. 2 /\ 2 \in 1 .. 2
    BY <1>0
  <2> QED
    BY <1>2, <1>3, <1>5, <2>1
<1>7. SubSeq(s, 3, 2 + n) = topic
  <2> DEFINE q == SubSeq(s, 3, 2 + n)
  <2>1. q \in Seq(Byte) /\ Len(q) = n /\ \A i \in 1 .. n : q[i] = s[2 + i]
    <3>1. 2 \in Nat /\ n \in Nat /\ 2 + n <= Len(s) /\ 3 = 2 + 1
      BY <1>0, <1>5
    <3> QED
      BY <1>5, <3>1, Cut DEF IsCut
  <2> HIDE DEF q
  <2>2. ASSUME NEW i \in 1 .. n PROVE q[i] = topic[i]
    <3>1. 2 + i \in 1 .. 2 + n /\ 2 + i \in 1 .. 2 + n + k
      BY <1>0
    <3>2. q[i] = s[2 + i] /\ s[2 + i] = s2[2 + i] /\ s2[2 + i] = s1[2 + i] /\ s1[2 + i] = topic[i]
      BY <1>2, <1>3, <1>5, <2>1, <3>1
    <3> QED
      BY <3>2
  <2>3. q = topic
    BY <1>0, <2>1, <2>2, SeqEqual
  <2> QED
    BY <2>3 DEF q
<1>8. ASSUME NEW i \in 1 .. k PROVE s[2 + n + i] = id[i]
  <2>1. 2 + n + i \in 1 .. 2 + n + k
    BY <1>0
  <2> QED
    BY <1>3, <1>5, <2>1
<1>9. SubSeq(s, 3 + n + k, Len(s)) = payload
  <2> DEFINE q == SubSeq(s, 3 + n + k, Len(s))
             m == Len(payload)
  <2>1. q \in Seq(Byte) /\ Len(q) = m /\ \A i \in 1 .. m : q[i] = s[2 + n + k + i]
    <3> DEFINE j == 2 + n + k
    <3>1. j \in Nat /\ m \in Nat /\ j + m <= Len(s) /\ Len(s) = j + m /\ 3 + n + k = j + 1
      BY <1>0, <1>5
    <3> HIDE DEF j, m
    <3>2. SubSeq(s, j + 1, j + m) \in Seq(Byte) /\ Len(SubSeq(s, j + 1, j + m)) = m
          /\ \A i \in 1 .. m : SubSeq(s, j + 1, j + m)[i] = s[j + i]
      BY <1>5, <3>1, Cut DEF IsCut
    <3>3. q = SubSeq(s, j + 1, j + m)
      BY <3>1
    <3> HIDE DEF q
    <3> QED
      BY <3>2, <3>3 DEF j
  <2> HIDE DEF q
  <2>2. q = payload
    BY <1>5, <2>1, SeqEqual
  <2> QED
    BY <2>2 DEF q
<1>10. k = 2 => s[3 + n] = id[1] /\ s[4 + n] = id[2]
  <2>1. SUFFICES ASSUME k = 2 PROVE s[3 + n] = id[1] /\ s[4 + n] = id[2]
    OBVIOUS
  <2>2. 2 + n + 1 = 3 + n /\ 2 + n + 2 = 4 + n /\ 1 \in 1 .. k /\ 2 \in 1 .. k
    BY <1>0, <2>1
  <2> QED
    BY <1>8, <2>2
<1> QED
  BY <1>1, <1>5, <1>6, <1>7, <1>9, <1>10, Zenon DEF Layout, s, n, k

\* FramedAndReadBack from its four parts.
LEMMA FramingIs ==
  ASSUME NEW m, NEW p, p = Encode(m, Unbounded), NEW wire, wire = Encode(m, m.cap),
         NEW head, head = HeadOf(Len(p)), NEW h, h = DecodeFixedHeader(text),
         wire = IF Len(p) <= m.cap THEN p ELSE <<>>,
         h.status = IF Len(text) < head THEN "WOULD_BLOCK" ELSE "OK",
         h.status = "OK" => h.headerLen = head /\ head + h.remaining = Len(wire),
         (text = wire /\ wire # <<>>) =>
              ReadBack(m, h.flags, SubSeq(text, head + 1, Len(text)))
  PROVE  FramedAndReadBack(m)
  BY DEF FramedAndReadBack

\* A packet whose head and body the encoder writes, whatever the buffer holds, and
\* whose body the receiver reads back, is framed and read back as it arrives.
LEMMA FramedReadsBack ==
  ASSUME NEW m, m.cap \in Nat, NEW tf \in Byte, tf \div 16 \in 1..14, NEW body \in Seq(Byte),
         MaxPacketSize \in Nat, Len(body) <= MaxPacketSize, MaxPacketSize \div 128 < 128,
         \A cap \in {m.cap, Unbounded} :
            Encode(m, cap) = IF Len(Packet(tf, body)) > cap THEN <<>> ELSE Packet(tf, body),
         ReadBack(m, tf % 16, body),
         NEW k \in 0 .. Len(Encode(m, m.cap)), text = SubSeq(Encode(m, m.cap), 1, k)
  PROVE  FramedAndReadBack(m)
<1> DEFINE p == Packet(tf, body)
           head == HeadOf(Len(p))
           wire == Encode(m, m.cap)
           h == DecodeFixedHeader(text)
<1>1. p \in Seq(Byte) /\ Len(p) = HeadLen(Len(body)) + Len(body)
  <2>1. Len(body) \div 128 < 128
    BY SMT
  <2> QED
    BY <2>1, PacketBytes, Zenon
<1>2. Len(p) <= Unbounded /\ Unbounded \in Nat /\ Len(p) \in Nat /\ Len(p) >= 2
  BY <1>1 DEF Unbounded, RlMaxBytes, HeadLen
<1>3. Encode(m, Unbounded) = p
  <2>1. ~(Len(p) > Unbounded)
    BY <1>2
  <2> QED
    BY <2>1, Zenon
<1>4. wire = IF Len(p) > m.cap THEN <<>> ELSE p
  BY Zenon
<1>5. wire = IF Len(p) <= m.cap THEN p ELSE <<>>
  <2>1. Len(p) <= m.cap <=> ~(Len(p) > m.cap)
    BY <1>2
  <2> QED
    BY <1>4, <2>1, Zenon
<1>6. head \in {2, 3}
  BY DEF HeadOf
<1>7. CASE Len(p) > m.cap
  <2>1. wire = <<>>
    BY <1>4, <1>7, Zenon
  <2>2. text = <<>> /\ Len(text) = 0
    <3>1. k = 0 /\ text = SubSeq(<<>>, 1, 0)
      BY <2>1
    <3> QED
      BY <3>1
  <2>3. h.status = "WOULD_BLOCK"
    BY <2>2 DEF DecodeFixedHeader, Fails
  <2>4. Len(text) < head
    BY <1>6, <2>2
  <2> HIDE DEF h, p, wire, head
  <2>5. /\ wire = IF Len(p) <= m.cap THEN p ELSE <<>>
        /\ h.status = IF Len(text) < head THEN "WOULD_BLOCK" ELSE "OK"
        /\ h.status = "OK" => h.headerLen = head /\ head + h.remaining = Len(wire)
        /\ (text = wire /\ wire # <<>>) =>
              ReadBack(m, h.flags, SubSeq(text, head + 1, Len(text)))
    BY <1>5, <2>1, <2>2, <2>3, <2>4
  <2> QED
    BY <1>3, <2>5, FramingIs DEF h, p, wire, head
<1>8. CASE ~(Len(p) > m.cap)
  <2>1. wire = p
    BY <1>4, <1>8, Zenon
  <2>2. k \in 0 .. Len(p) /\ text = SubSeq(p, 1, k)
    BY <2>1, Zenon
  <2>3. Len(text) = k /\ (text = p => k = Len(p))
    BY <1>1, <2>2, SubSeqProperties
  <2>4. /\ k < head => h.status = "WOULD_BLOCK"
        /\ ~(k < head) => h.status = "OK" /\ h.headerLen = head /\ h.remaining = Len(body)
                          /\ h.flags = tf % 16
        /\ head + Len(body) = Len(p)
        /\ SubSeq(p, head + 1, Len(p)) = body
    <3> DEFINE g == DecodeFixedHeader(SubSeq(p, 1, k))
    <3>1. /\ k < head => g.status = "WOULD_BLOCK"
          /\ ~(k < head) => g.status = "OK" /\ g.headerLen = head /\ g.remaining = Len(body)
                            /\ g.flags = tf % 16
          /\ head + Len(body) = Len(p)
          /\ SubSeq(p, head + 1, Len(p)) = body
      BY <2>2, PacketArrives, Zenon
    <3>2. g = h
      BY <2>2, Zenon
    <3> HIDE DEF g, h, p, head
    <3> QED
      BY <3>1, <3>2
  <2>5. text = p => ReadBack(m, h.flags, SubSeq(text, head + 1, Len(text)))
    <3>1. SUFFICES ASSUME text = p PROVE ReadBack(m, h.flags, SubSeq(text, head + 1, Len(text)))
      OBVIOUS
    <3>2. ~(k < head)
      BY <1>1, <1>2, <1>6, <2>3, <2>4, <3>1
    <3>3. SubSeq(text, head + 1, Len(text)) = body /\ h.flags = tf % 16
      BY <2>4, <3>1, <3>2, Zenon
    <3> QED
      BY <3>3, Zenon
  <2> HIDE DEF h, p, wire, head
  <2>6. /\ wire = IF Len(p) <= m.cap THEN p ELSE <<>>
        /\ h.status = IF Len(text) < head THEN "WOULD_BLOCK" ELSE "OK"
        /\ h.status = "OK" => h.headerLen = head /\ head + h.remaining = Len(wire)
        /\ (text = wire /\ wire # <<>>) =>
              ReadBack(m, h.flags, SubSeq(text, head + 1, Len(text)))
    BY <1>5, <2>1, <2>3, <2>4, <2>5
  <2> QED
    BY <1>3, <2>6, FramingIs DEF h, p, wire, head
<1> QED
  BY <1>7, <1>8

\* A message the encoder refuses leaves no packet.
LEMMA NotWritten ==
  ASSUME NEW m, m.cap \in Nat,
         \A cap \in {m.cap, Unbounded} : Encode(m, cap) = <<>>,
         NEW k \in 0 .. Len(Encode(m, m.cap)), text = SubSeq(Encode(m, m.cap), 1, k)
  PROVE  FramedAndReadBack(m)
<1>1. Encode(m, m.cap) = <<>> /\ Encode(m, Unbounded) = <<>>
  BY Zenon
<1>2. k = 0 /\ text = <<>>
  <2>1. k = 0 /\ text = SubSeq(<<>>, 1, 0)
    BY <1>1
  <2> QED
    BY <2>1
<1>3. HeadOf(Len(<<>>)) = 2
  BY DEF HeadOf
<1>4. DecodeFixedHeader(text).status = "WOULD_BLOCK"
  BY <1>2 DEF DecodeFixedHeader, Fails
<1> DEFINE p == Encode(m, Unbounded)
           wire == Encode(m, m.cap)
           head == HeadOf(Len(p))
           h == DecodeFixedHeader(text)
<1>5. p = <<>> /\ wire = <<>> /\ head = 2 /\ h.status = "WOULD_BLOCK" /\ Len(text) = 0
  BY <1>1, <1>2, <1>3, <1>4
<1>6. p = Encode(m, Unbounded) /\ wire = Encode(m, m.cap) /\ head = HeadOf(Len(p))
      /\ h = DecodeFixedHeader(text)
  OBVIOUS
<1> HIDE DEF p, wire, head, h
<1> QED
  BY <1>5, <1>6, FramingIs

\* The packet written for a message, when it fits, has this head and this body, and
\* the receiver reads the message back from them.
WrittenAs(m, tf, body) ==
  /\ tf \in Byte /\ tf \div 16 \in 1..14
  /\ body \in Seq(Byte) /\ Len(body) <= MaxPacketSize
  /\ \A cap \in {m.cap, Unbounded} :
        Encode(m, cap) = IF Len(Packet(tf, body)) > cap THEN <<>> ELSE Packet(tf, body)
  /\ ReadBack(m, tf % 16, body)

\* A message is refused, or written to be read back.
Coded(m) ==
  \/ \A cap \in {m.cap, Unbounded} : Encode(m, cap) = <<>>
  \/ \E tf, body : WrittenAs(m, tf, body)

\* A message that is coded, refused or written, is framed and read back at every
\* moment of its arrival.
LEMMA CodedFramed ==
  ASSUME NEW m, m.cap \in Nat, Coded(m), MaxPacketSize \in Nat, MaxPacketSize \div 128 < 128,
         NEW k \in 0 .. Len(Encode(m, m.cap)), text = SubSeq(Encode(m, m.cap), 1, k)
  PROVE  FramedAndReadBack(m)
<1>1. CASE \A cap \in {m.cap, Unbounded} : Encode(m, cap) = <<>>
  BY <1>1, NotWritten, Zenon
<1>2. CASE \E tf, body : WrittenAs(m, tf, body)
  <2>1. PICK tf, body : WrittenAs(m, tf, body)
    BY <1>2, Zenon
  <2>2. /\ tf \in Byte /\ tf \div 16 \in 1..14
        /\ body \in Seq(Byte) /\ Len(body) <= MaxPacketSize
        /\ \A cap \in {m.cap, Unbounded} :
              Encode(m, cap) = IF Len(Packet(tf, body)) > cap THEN <<>> ELSE Packet(tf, body)
        /\ ReadBack(m, tf % 16, body)
    BY <2>1, Zenon DEF WrittenAs
  <2> QED
    BY <2>2, FramedReadsBack
<1> QED
  BY <1>1, <1>2, Zenon DEF Coded

\* Such a message goes out as bytes.
LEMMA CodedBytes ==
  ASSUME NEW m, Coded(m), MaxPacketSize \in Nat, MaxPacketSize \div 128 < 128
  PROVE  Encode(m, m.cap) \in Seq(Byte)
<1>1. <<>> \in Seq(Byte)
  OBVIOUS
<1>2. CASE \A cap \in {m.cap, Unbounded} : Encode(m, cap) = <<>>
  BY <1>1, <1>2, Zenon
<1>3. CASE \E tf, body : WrittenAs(m, tf, body)
  <2>1. PICK tf, body : WrittenAs(m, tf, body)
    BY <1>3, Zenon
  <2>2. /\ tf \in Byte /\ body \in Seq(Byte) /\ Len(body) <= MaxPacketSize
        /\ \A cap \in {m.cap, Unbounded} :
              Encode(m, cap) = IF Len(Packet(tf, body)) > cap THEN <<>> ELSE Packet(tf, body)
    BY <2>1, Zenon DEF WrittenAs
  <2>3. Len(body) \div 128 < 128
    <3>1. Len(body) \in Nat
      BY <2>2
    <3> DEFINE l == Len(body)
    <3>2. l \in Nat /\ l <= MaxPacketSize
      BY <2>2, <3>1
    <3> HIDE DEF l
    <3>3. l \div 128 < 128
      BY <3>2, SMT
    <3> QED
      BY <3>3 DEF l
  <2>4. Packet(tf, body) \in Seq(Byte)
    BY <2>2, <2>3, PacketBytes, Zenon
  <2> QED
    BY <1>1, <2>2, <2>4, Zenon
<1> QED
  BY <1>2, <1>3, Zenon DEF Coded

\* What the configured sizes leave of the widths.
LEMMA Limits ==
  /\ {MaxPacketSize, MaxTopicLength, MaxPayloadSize, MaxClientIdLength} \subseteq Nat
  /\ MaxPacketSize \div 128 < 128 /\ 4 <= MaxPacketSize
  /\ MaxTopicLength + MaxPayloadSize + 4 <= MaxPacketSize
  /\ MaxClientIdLength + 12 <= MaxPacketSize
  /\ \A n \in Nat : n <= MaxPacketSize => n \div 256 < 256 /\ n \div 128 < 128
<1>1. /\ {MaxTopicLength, MaxPayloadSize, MaxClientIdLength} \subseteq Nat
      /\ MaxPacketSize \in Nat /\ MaxPacketSize \div 128 < 128 /\ 4 <= MaxPacketSize
      /\ MaxTopicLength + MaxPayloadSize + 4 <= MaxPacketSize
      /\ MaxClientIdLength + 12 <= MaxPacketSize
  BY SMT, WireAssumption DEF WireAssumption
<1>2. \A n \in Nat : n <= MaxPacketSize => n \div 256 < 256 /\ n \div 128 < 128
  BY SMT, <1>1
<1> QED
  BY <1>1, <1>2

\* What the encoder writes to a buffer is the packet, when it fits.
LEMMA FramedIsPacket ==
  ASSUME NEW tf \in Byte, NEW body \in Seq(Byte), Len(body) <= MaxPacketSize, NEW cap \in Nat
  PROVE  Framed(cap, tf, Len(body), body) =
           IF Len(Packet(tf, body)) > cap THEN <<>> ELSE Packet(tf, body)
<1> DEFINE w == WriteVarInt(Len(body))
           head == <<tf>> \o w
<1>1. Len(body) \in Nat /\ Len(body) \div 128 < 128
  BY Limits
<1>2. w \in Seq(Byte)
  BY <1>1, DigitsOfLength, Zenon
<1> HIDE DEF w
<1>3. head \in Seq(Byte)
  BY <1>2
<1> HIDE DEF head
<1>4. Packet(tf, body) = head \o body /\ Len(head \o body) = Len(head) + Len(body)
  BY <1>3 DEF Packet, head, w
<1>5. Framed(cap, tf, Len(body), body) =
        IF Len(head) + Len(body) > cap THEN <<>> ELSE head \o body
  BY Zenon DEF Framed, head, w
<1> QED
  BY <1>4, <1>5

\* The packet identifier of a PUBLISH is there at QoS 1 only.
IdOf(qos, id) == IF qos > 0 THEN Be16(id) ELSE <<>>

\* The receiver of a PUBLISH reads what the sender wrote.
LEMMA PublishReadsBack ==
  ASSUME NEW qos \in {0, 1}, NEW topic \in Seq(Byte), IsValidTopicName(topic),
         NEW payload \in Seq(Byte), Len(payload) <= MaxPayloadSize,
         NEW id \in Nat, qos = 1 => id # 0, id \div 256 < 256
  PROVE  LET s == Body(topic, IdOf(qos, id), payload)
         IN  /\ s \in Seq(Byte) /\ Len(s) <= MaxPacketSize
             /\ Len(s) = 2 + Len(topic) + Len(IdOf(qos, id)) + Len(payload)
             /\ DecodePublish(qos, s) =
                  [status |-> "OK", topic |-> topic, qos |-> qos,
                   packetId |-> IF qos = 0 THEN 0 ELSE id, payload |-> payload]
<1> DEFINE b == IdOf(qos, id)
           s == Body(topic, b, payload)
           n == Len(topic)
           k == IF qos > 0 THEN 2 ELSE 0
           pid == IF qos > 0 THEN id ELSE 0
<1>1. n \in Nat /\ 1 <= n /\ n <= MaxTopicLength /\ n <= MaxPacketSize /\ n \div 256 < 256
  <2>1. Len(topic) \in 1 .. MaxTopicLength
    BY Zenon DEF IsValidTopicName
  <2>2. n \in Nat /\ 1 <= n /\ n <= MaxTopicLength /\ n <= MaxPacketSize
    BY <2>1, Limits
  <2> HIDE DEF n
  <2> QED
    BY <2>2, Limits
<1>2. b \in Seq(Byte) /\ Len(b) = k /\ (qos > 0 => b[1] * 256 + b[2] = id)
  <2>1. CASE qos > 0
    <3>1. b = Be16(id)
      BY <2>1, Zenon DEF IdOf
    <3> QED
      BY <2>1, <3>1, Be16Bytes
  <2>2. CASE ~(qos > 0)
    <3>1. b = <<>>
      BY <2>2, Zenon DEF IdOf
    <3> QED
      BY <2>2, <3>1
  <2> QED
    BY <2>1, <2>2
<1> HIDE DEF b
<1>3. /\ s \in Seq(Byte) /\ Len(s) = 2 + n + Len(b) + Len(payload)
      /\ s[1] * 256 + s[2] = n
      /\ SubSeq(s, 3, 2 + n) = topic
      /\ Len(b) = 2 => s[3 + n] = b[1] /\ s[4 + n] = b[2]
      /\ SubSeq(s, 3 + n + Len(b), Len(s)) = payload
  <2>1. Layout(s, topic, b, payload)
    BY <1>1, <1>2, BodyLayout, Zenon
  <2> QED
    BY <2>1 DEF Layout
<1> HIDE DEF s, n, k, pid
<1>4. (qos > 0 => k = 2) /\ (~(qos > 0) => k = 0) /\ k \in Nat
  BY DEF k
<1>5. Be16Read(s, 1) = n
  BY <1>3 DEF Be16Read
<1>6. qos > 0 => Be16Read(s, 3 + n) = id
  <2>1. SUFFICES ASSUME qos > 0 PROVE Be16Read(s, 3 + n) = id
    OBVIOUS
  <2>2. s[3 + n] = b[1] /\ s[4 + n] = b[2]
    BY <1>2, <1>3, <1>4, <2>1
  <2>3. 4 + n = 3 + n + 1
    BY <1>1
  <2> QED
    BY <1>2, <2>1, <2>2, <2>3 DEF Be16Read
<1>7. Len(payload) \in Nat /\ Len(s) = 2 + n + k + Len(payload)
  BY <1>2, <1>3
<1>8. Len(s) <= MaxPacketSize /\ ~(Len(s) < 2) /\ ~(Len(s) < 2 + n) /\ Len(s) >= 2 + n + k
  <2>1. k <= 2
    BY DEF k
  <2> QED
    BY <1>1, <1>4, <1>7, <2>1, Limits
<1>9. DecodePublish(qos, s) = [status |-> "OK", topic |-> topic, qos |-> qos,
                               packetId |-> pid, payload |-> payload]
  <2>1. payload = SubSeq(s, 3 + n + k, Len(s)) /\ pid = IF qos > 0 THEN Be16Read(s, 3 + n) ELSE 0
    BY <1>2, <1>3, <1>6 DEF pid
  <2>2. k = IF qos > 0 THEN 2 ELSE 0
    BY DEF k
  <2>3. qos > 0 => pid # 0
    BY DEF pid
  <2>4. DecodePublish(qos, s) =
           IF Len(s) < 2 \/ Len(s) < 2 + n THEN Fails("MALFORMED")
           ELSE IF /\ IsValidTopicName(topic)
                   /\ Len(s) >= 2 + n + k /\ (qos > 0 => pid # 0)
                   /\ Len(payload) <= MaxPayloadSize
           THEN [status |-> "OK", topic |-> topic, qos |-> qos, packetId |-> pid,
                 payload |-> payload]
           ELSE Fails("MALFORMED")
    <3>1. n = Be16Read(s, 1) /\ topic = SubSeq(s, 3, 2 + n)
      BY <1>3, <1>5
    <3> QED
      BY <3>1, <2>1, <2>2 DEF DecodePublish
  <2> QED
    BY <1>8, <2>3, <2>4, Zenon
<1>10. pid = IF qos = 0 THEN 0 ELSE id
  BY DEF pid
<1> QED
  BY <1>3, <1>8, <1>9, <1>10, Zenon DEF s, b, n

\* The fields of a message, and that two bytes are enough for its numbers.
LEMMA MessageFields ==
  ASSUME NEW m, IsMessage(m)
  PROVE  /\ m.cap \in Nat
         /\ m.type = "PUBLISH" =>
              /\ m.topic \in Seq(Byte) /\ m.payload \in Seq(Byte) /\ m.qos \in {0, 1}
              /\ m.retain \in BOOLEAN
              /\ m.packetId \in Nat /\ (m.qos = 1 => m.packetId # 0) /\ m.packetId \div 256 < 256
         /\ m.type = "CONNECT" =>
              m.clientId \in Seq(Byte) /\ m.keepalive \in Nat /\ m.keepalive \div 256 < 256
         /\ m.type = "PUBACK" => m.packetId \in Nat /\ m.packetId \div 256 < 256
         /\ m.type = "CONNACK" =>
              m.sessionPresent \in BOOLEAN /\ m.returnCode \in Byte /\ m.cap >= 5
         /\ m.type = "SUBACK" =>
              /\ m.packetId \in Nat /\ m.packetId # 0 /\ m.packetId \div 256 < 256
              /\ m.returnCode \in {0, 1, 128} /\ m.cap >= 5
<1>1. m.type = "PUBLISH" => m.retain \in BOOLEAN
  BY Zenon DEF IsMessage
<1>2. m.type = "CONNACK" => m.sessionPresent \in BOOLEAN
  BY Zenon DEF IsMessage
<1> QED
  BY <1>1, <1>2 DEF IsMessage, Is16Bit

\* A PUBLISH is framed and read back.
LEMMA PublishCoded ==
  ASSUME NEW m, IsMessage(m), m.type = "PUBLISH"
  PROVE  Coded(m)
<1> DEFINE topic == m.topic
           payload == m.payload
           qos == m.qos
           id == m.packetId
           r == IF m.retain THEN 1 ELSE 0
           tf == PUBLISH + 2 * qos + r
           body == Body(topic, IdOf(qos, id), payload)
           bad == qos > 1 \/ Len(payload) > MaxPayloadSize \/ ~IsValidTopicName(topic)
           len == 2 + Len(topic) + Len(IdOf(qos, id)) + Len(payload)
<1>1. /\ m.cap \in Nat
      /\ topic \in Seq(Byte) /\ payload \in Seq(Byte) /\ qos \in {0, 1}
      /\ id \in Nat /\ (qos = 1 => id # 0) /\ id \div 256 < 256
  BY MessageFields, Zenon
<1>2. Unbounded \in Nat
  BY Limits DEF Unbounded, RlMaxBytes
<1>3. ASSUME NEW cap
      PROVE  Encode(m, cap) = EncodePublish(cap, topic, payload, qos, m.retain, id)
  <2>1. m.type # "CONNECT"
    OBVIOUS
  <2> QED
    BY <2>1, Zenon DEF Encode
<1>4. ASSUME NEW cap
      PROVE  Encode(m, cap) = IF bad THEN <<>> ELSE Framed(cap, tf, len, body)
  <2>1. EncodePublish(cap, topic, payload, qos, m.retain, id) =
          IF bad THEN <<>> ELSE Framed(cap, tf, len, body)
    BY Zenon DEF EncodePublish, Body, IdOf
  <2> QED
    BY <1>3, <2>1, Zenon
<1>5. CASE bad
  <2>1. \A cap \in {m.cap, Unbounded} : Encode(m, cap) = <<>>
    BY <1>4, <1>5, Zenon
  <2> QED
    BY <2>1, Zenon DEF Coded
<1>6. CASE ~bad
  <2>1. IsValidTopicName(topic) /\ Len(payload) <= MaxPayloadSize
    <3>1. IsValidTopicName(topic) /\ ~(Len(payload) > MaxPayloadSize)
      BY <1>6, Zenon
    <3>2. MaxPayloadSize \in Nat
      BY Limits
    <3> QED
      BY <1>1, <3>1, <3>2
  <2>2. /\ body \in Seq(Byte) /\ Len(body) <= MaxPacketSize /\ Len(body) = len
        /\ DecodePublish(qos, body) =
             [status |-> "OK", topic |-> topic, qos |-> qos,
              packetId |-> IF qos = 0 THEN 0 ELSE id, payload |-> payload]
    BY <1>1, <2>1, PublishReadsBack, Zenon
  <2>3. tf \in Byte /\ tf \div 16 \in 1..14 /\ tf % 16 = 2 * qos + r
    <3>1. r \in {0, 1}
      OBVIOUS
    <3> HIDE DEF r
    <3>2. tf \in 48 .. 51 /\ tf - 48 = 2 * qos + r
      BY <1>1, <3>1 DEF PUBLISH
    <3>3. \A x \in 48 .. 51 : x \in Byte /\ x \div 16 = 3 /\ x % 16 = x - 48
      BY SMT DEF Byte
    <3> HIDE DEF tf
    <3> QED
      BY <3>2, <3>3
  <2>4. \A cap \in {m.cap, Unbounded} :
           Encode(m, cap) = IF Len(Packet(tf, body)) > cap THEN <<>> ELSE Packet(tf, body)
    <3>1. ASSUME NEW cap \in Nat
          PROVE  Framed(cap, tf, Len(body), body) =
                   IF Len(Packet(tf, body)) > cap THEN <<>> ELSE Packet(tf, body)
      BY <2>2, <2>3, FramedIsPacket, Zenon
    <3>2. ASSUME NEW cap PROVE Encode(m, cap) = Framed(cap, tf, Len(body), body)
      BY <1>4, <1>6, <2>2, Zenon
    <3>3. \A cap \in {m.cap, Unbounded} : cap \in Nat
      BY <1>1, <1>2
    <3> HIDE DEF tf, body
    <3> QED
      BY <3>1, <3>2, <3>3
  <2>5. ReadBack(m, tf % 16, body)
    <3>1. /\ tf % 16 = 2 * m.qos + (IF m.retain THEN 1 ELSE 0)
          /\ DecodePublish(m.qos, body) =
               [status |-> "OK", topic |-> m.topic, qos |-> m.qos,
                packetId |-> IF m.qos = 0 THEN 0 ELSE m.packetId,
                payload |-> m.payload]
      BY <2>2, <2>3, Zenon
    <3>2. m.type # "PUBACK" /\ m.type # "CONNACK" /\ m.type # "SUBACK" /\ m.type # "CONNECT"
          /\ m.type \notin {"PINGREQ", "DISCONNECT"}
      OBVIOUS
    <3> QED
      BY <3>1, <3>2, Zenon DEF ReadBack
  <2> HIDE DEF tf, body
  <2> QED
    BY <1>1, <2>2, <2>3, <2>4, <2>5, Zenon DEF WrittenAs, Coded
<1> QED
  BY <1>5, <1>6

\* A body of two bytes.
LEMMA TwoByteBody ==
  ASSUME NEW x \in Byte, NEW y \in Byte, NEW tf \in Byte
  PROVE  /\ <<x, y>> \in Seq(Byte) /\ Len(<<x, y>>) = 2
         /\ Packet(tf, <<x, y>>) = <<tf, 2, x, y>> /\ Len(Packet(tf, <<x, y>>)) = 4
<1> DEFINE b == <<x, y>>
           p == Packet(tf, b)
           t == <<tf, 2, x, y>>
<1>1. b \in Seq(Byte) /\ Len(b) = 2
  OBVIOUS
<1>2. Len(b) \div 128 < 128 /\ Len(b) < 128 /\ HeadLen(Len(b)) = 2
  BY <1>1 DEF HeadLen
<1>3. p \in Seq(Byte) /\ Len(p) = 2 + 2 /\ p[1] = tf /\ p[2] = 2
      /\ SubSeq(p, 2 + 1, Len(p)) = b
  <2>1. LET q == Packet(tf, b)
            rl == Len(b)
            head == HeadLen(rl)
        IN  /\ q \in Seq(Byte) /\ Len(q) = head + rl
            /\ q[1] = tf
            /\ rl < 128 => q[2] = rl
            /\ ~(rl < 128) => q[2] = 128 + (rl % 128) /\ q[3] = rl \div 128
            /\ SubSeq(q, head + 1, Len(q)) = b
    BY <1>1, <1>2, PacketBytes, Zenon
  <2> HIDE DEF b, p
  <2> QED
    BY <1>1, <1>2, <2>1 DEF p
<1> HIDE DEF p
<1>4. p[3] = x /\ p[4] = y
  <2>1. Len(p) = 4 /\ 2 + 2 <= Len(p)
    BY <1>3
  <2> DEFINE q == SubSeq(p, 2 + 1, 2 + 2)
  <2>2. q = SubSeq(p, 2 + 1, Len(p))
    BY <2>1
  <2>3. \A j \in 1 .. 2 : q[j] = p[2 + j]
    BY <1>3, <2>1, Cut DEF IsCut
  <2>4. q = b
    BY <1>3, <2>2, Zenon
  <2>5. b[1] = x /\ b[2] = y
    OBVIOUS
  <2> HIDE DEF q, b
  <2> QED
    BY <2>3, <2>4, <2>5
<1>5. p = t
  <2>1. 2 \in Byte
    BY SMT DEF Byte
  <2>2. t \in Seq(Byte) /\ Len(t) = 4 /\ t[1] = tf /\ t[2] = 2 /\ t[3] = x /\ t[4] = y
    BY <2>1
  <2> HIDE DEF t
  <2>3. \A i \in 1 .. 4 : p[i] = t[i]
    BY <1>3, <1>4, <2>2
  <2> QED
    BY <1>3, <2>2, <2>3, SeqEqual
<1> QED
  BY <1>1, <1>3, <1>5 DEF p

\* Two bytes and two bytes are four.
LEMMA TwoAndTwo ==
  ASSUME NEW a \in Byte, NEW b \in Byte, NEW x \in Byte, NEW y \in Byte
  PROVE  <<a, b>> \o <<x, y>> = <<a, b, x, y>>
<1> DEFINE u == <<a, b>>
           v == <<x, y>>
           t == <<a, b, x, y>>
           w == u \o v
<1>1. /\ u \in Seq(Byte) /\ Len(u) = 2 /\ u[1] = a /\ u[2] = b
      /\ v \in Seq(Byte) /\ Len(v) = 2 /\ v[1] = x /\ v[2] = y
      /\ t \in Seq(Byte) /\ Len(t) = 4 /\ t[1] = a /\ t[2] = b /\ t[3] = x /\ t[4] = y
  OBVIOUS
<1> HIDE DEF u, v, t
<1>2. w \in Seq(Byte) /\ Len(w) = 4 /\ w[1] = a /\ w[2] = b /\ w[3] = x /\ w[4] = y
  <2>1. IsJoin(w, u, v)
    BY <1>1, Joins, Zenon
  <2>2. 2 + 1 = 3 /\ 2 + 2 = 4 /\ 1 \in 1 .. 2 /\ 2 \in 1 .. 2
    OBVIOUS
  <2> HIDE DEF w
  <2> QED
    BY <1>1, <2>1, <2>2 DEF IsJoin
<1> HIDE DEF w
<1>3. \A i \in 1 .. 4 : w[i] = t[i]
  BY <1>1, <1>2
<1>4. w = t
  BY <1>1, <1>2, <1>3, SeqEqual
<1> QED
  BY <1>4 DEF w, u, v, t

\* A packet that the broker sends, or the client when two or four bytes are left.
LEMMA PubackCoded ==
  ASSUME NEW m, IsMessage(m), m.type = "PUBACK"
  PROVE  Coded(m)
<1> DEFINE id == m.packetId
           body == Be16(id)
           x == id \div 256
           y == id % 256
<1>1. m.cap \in Nat /\ id \in Nat /\ id \div 256 < 256
  BY MessageFields, Zenon
<1>2. Unbounded \in Nat /\ Unbounded >= 4
  BY Limits DEF Unbounded, RlMaxBytes
<1>3. body \in Seq(Byte) /\ Len(body) = 2 /\ body[1] * 256 + body[2] = id
  BY <1>1, Be16Bytes, Zenon
<1>4. x \in Byte /\ y \in Byte
  BY <1>1, Be16Bytes, Zenon
<1>b. Be16(id) = <<x, y>>
  BY Zenon DEF Be16
<1> HIDE DEF x, y, body
<1>5. 64 \in Byte /\ 64 \div 16 \in 1..14 /\ PUBACK = 64
  BY SMT DEF Byte, PUBACK
<1>6. Packet(64, <<x, y>>) = <<64, 2, x, y>> /\ Len(Packet(64, <<x, y>>)) = 4
  BY <1>4, <1>5, TwoByteBody, Zenon
<1>7. <<PUBACK, 2>> \o Be16(id) = Packet(64, body)
  <2>1. 2 \in Byte
    BY SMT DEF Byte
  <2>2. <<64, 2>> \o <<x, y>> = <<64, 2, x, y>>
    BY <1>4, <1>5, <2>1, TwoAndTwo, Zenon
  <2> QED
    BY <1>5, <1>6, <1>b, <2>2, Zenon DEF body
<1>8. ASSUME NEW cap
      PROVE  Encode(m, cap) = IF cap < 4 \/ id = 0 THEN <<>> ELSE Packet(64, body)
  <2>1. m.type # "CONNECT" /\ m.type # "PUBLISH" /\ m.type # "SUBSCRIBE"
    OBVIOUS
  <2>2. Encode(m, cap) = EncodePuback(cap, m.packetId)
    BY <2>1, Zenon DEF Encode
  <2> QED
    BY <1>7, <2>2, Zenon DEF EncodePuback
<1>bx. body = <<x, y>>
  BY <1>b DEF body
<1> HIDE DEF id
<1>9. CASE id = 0
  <2>1. \A cap \in {m.cap, Unbounded} : Encode(m, cap) = <<>>
    BY <1>8, <1>9, Zenon
  <2> QED
    BY <2>1, Zenon DEF Coded
<1>10. CASE id # 0
  <2>1. \A cap \in Nat : cap < 4 <=> Len(Packet(64, body)) > cap
    BY <1>6, <1>bx
  <2>2. \A cap \in {m.cap, Unbounded} :
           Encode(m, cap) = IF Len(Packet(64, body)) > cap THEN <<>> ELSE Packet(64, body)
    BY <1>1, <1>2, <1>8, <1>10, <2>1
  <2>3. Be16Read(body, 1) = id
    BY <1>3 DEF Be16Read
  <2>4. DecodePuback(body) = [status |-> "OK", packetId |-> id]
    <3>1. ~(Len(body) # 2 \/ Be16Read(body, 1) = 0)
      BY <1>3, <1>10, <2>3
    <3> QED
      BY <2>3, <3>1, Zenon DEF DecodePuback
  <2>5. ReadBack(m, 64 % 16, body)
    <3>1. m.type # "PUBLISH" /\ m.type # "CONNACK" /\ m.type # "SUBACK" /\ m.type # "CONNECT"
          /\ m.type \notin {"PINGREQ", "DISCONNECT"}
      OBVIOUS
    <3> QED
      BY <2>4, <3>1, Zenon DEF ReadBack, id
  <2>6. Len(body) <= MaxPacketSize
    BY <1>3, Limits
  <2> QED
    BY <1>1, <1>3, <1>5, <2>2, <2>5, <2>6, Zenon DEF WrittenAs, Coded
<1> QED
  BY <1>9, <1>10

\* CONNACK: two bytes, the session flag and the return code.
LEMMA ConnackCoded ==
  ASSUME NEW m, IsMessage(m), m.type = "CONNACK"
  PROVE  Coded(m)
<1> DEFINE x == IF m.sessionPresent THEN 1 ELSE 0
           y == m.returnCode
           body == <<x, y>>
<1>1. m.cap \in Nat /\ m.sessionPresent \in BOOLEAN /\ y \in Byte /\ m.cap >= 5
  BY MessageFields, Zenon
<1>2. Unbounded \in Nat /\ Unbounded >= 4
  BY Limits DEF Unbounded, RlMaxBytes
<1>3. x \in Byte /\ (x = 1 <=> m.sessionPresent) /\ ~(x > 1)
  <2>1. CASE m.sessionPresent
    BY <2>1, SMT DEF Byte
  <2>2. CASE ~m.sessionPresent
    BY <2>2, SMT DEF Byte
  <2> QED
    BY <2>1, <2>2
<1>4. 32 \in Byte /\ 32 \div 16 \in 1..14
  BY SMT DEF Byte
<1>5. /\ body \in Seq(Byte) /\ Len(body) = 2
      /\ Packet(32, body) = <<32, 2, x, y>> /\ Len(Packet(32, body)) = 4
  BY <1>1, <1>3, <1>4, TwoByteBody, Zenon
<1>6. ASSUME NEW cap PROVE Encode(m, cap) = Packet(32, body)
  <2>1. /\ m.type # "CONNECT" /\ m.type # "PUBLISH" /\ m.type # "SUBSCRIBE"
        /\ m.type # "PUBACK" /\ m.type # "PINGREQ" /\ m.type # "DISCONNECT"
    OBVIOUS
  <2>2. Encode(m, cap) = BrokerConnack(m)
    BY <2>1, Zenon DEF Encode
  <2> QED
    BY <1>5, <2>2, Zenon DEF BrokerConnack
<1>7. \A cap \in {m.cap, Unbounded} :
         Encode(m, cap) = IF Len(Packet(32, body)) > cap THEN <<>> ELSE Packet(32, body)
  <2>1. ~(4 > m.cap) /\ ~(4 > Unbounded)
    BY <1>1, <1>2
  <2>2. \A cap \in {m.cap, Unbounded} : ~(Len(Packet(32, body)) > cap)
    BY <1>5, <2>1, Zenon
  <2> QED
    BY <1>6, <2>2, Zenon
<1>8. body[1] = x /\ body[2] = y
  OBVIOUS
<1> HIDE DEF x, y, body
<1>9. DecodeConnack(body) = [status |-> "OK", returnCode |-> y, sessionPresent |-> m.sessionPresent]
  <2>1. ~(Len(body) # 2 \/ body[1] > 1)
    BY <1>3, <1>5, <1>8
  <2>2. DecodeConnack(body) = [status |-> "OK", sessionPresent |-> body[1] = 1,
                               returnCode |-> body[2]]
    BY <2>1, Zenon DEF DecodeConnack
  <2>3. (body[1] = 1) = m.sessionPresent
    BY <1>1, <1>3, <1>8
  <2> QED
    BY <1>8, <2>2, <2>3
<1>10. ReadBack(m, 32 % 16, body)
  <2>1. m.type # "PUBLISH" /\ m.type # "PUBACK" /\ m.type # "SUBACK" /\ m.type # "CONNECT"
        /\ m.type \notin {"PINGREQ", "DISCONNECT"}
    OBVIOUS
  <2> QED
    BY <1>9, <2>1, Zenon DEF ReadBack, y
<1>11. Len(body) <= MaxPacketSize
  BY <1>5, Limits
<1> QED
  BY <1>1, <1>4, <1>5, <1>7, <1>10, <1>11, Zenon DEF WrittenAs, Coded

\* PINGREQ and DISCONNECT are two bytes.
LEMMA EmptyBody ==
  ASSUME NEW tf \in Byte
  PROVE  <<>> \in Seq(Byte) /\ Packet(tf, <<>>) = <<tf, 0>> /\ Len(Packet(tf, <<>>)) = 2
<1> DEFINE b == <<>>
           p == Packet(tf, b)
           t == <<tf, 0>>
<1>1. b \in Seq(Byte) /\ Len(b) = 0
  OBVIOUS
<1>2. Len(b) \div 128 < 128 /\ Len(b) < 128 /\ HeadLen(Len(b)) = 2
  BY <1>1 DEF HeadLen
<1>3. p \in Seq(Byte) /\ Len(p) = 2 + 0 /\ p[1] = tf /\ p[2] = 0
  <2>1. LET q == Packet(tf, b)
            rl == Len(b)
            head == HeadLen(rl)
        IN  /\ q \in Seq(Byte) /\ Len(q) = head + rl
            /\ q[1] = tf
            /\ rl < 128 => q[2] = rl
            /\ ~(rl < 128) => q[2] = 128 + (rl % 128) /\ q[3] = rl \div 128
            /\ SubSeq(q, head + 1, Len(q)) = b
    BY <1>1, <1>2, PacketBytes, Zenon
  <2> HIDE DEF b, p
  <2> QED
    BY <1>1, <1>2, <2>1 DEF p
<1>4. 0 \in Byte
  BY SMT DEF Byte
<1>5. t \in Seq(Byte) /\ Len(t) = 2 /\ t[1] = tf /\ t[2] = 0
  BY <1>4
<1> HIDE DEF p, t
<1>6. \A i \in 1 .. 2 : p[i] = t[i]
  BY <1>3, <1>5
<1>7. p = t
  BY <1>3, <1>5, <1>6, SeqEqual
<1> QED
  BY <1>1, <1>3, <1>7 DEF p, t

\* PINGREQ and DISCONNECT have no body.
LEMMA EmptyCoded ==
  ASSUME NEW m, IsMessage(m), m.type \in {"PINGREQ", "DISCONNECT"}
  PROVE  Coded(m)
<1> DEFINE tf == IF m.type = "PINGREQ" THEN PINGREQ ELSE DISCONNECT
           body == <<>>
<1>1. m.cap \in Nat /\ Unbounded \in Nat
  BY MessageFields, Limits DEF Unbounded, RlMaxBytes
<1>2. tf \in Byte /\ tf \div 16 \in 1..14
  <2>1. tf \in {192, 224}
    BY DEF PINGREQ, DISCONNECT
  <2>2. \A x \in {192, 224} : x \in Byte /\ x \div 16 \in 1..14
    BY SMT DEF Byte
  <2> HIDE DEF tf
  <2> QED
    BY <2>1, <2>2
<1> HIDE DEF tf
<1>3. body \in Seq(Byte) /\ Packet(tf, body) = <<tf, 0>> /\ Len(Packet(tf, body)) = 2 /\ Len(body) = 0
  BY <1>2, EmptyBody
<1>4. ASSUME NEW cap
      PROVE  Encode(m, cap) = IF cap < 2 THEN <<>> ELSE Packet(tf, body)
  <2>1. /\ m.type # "CONNECT" /\ m.type # "PUBLISH" /\ m.type # "SUBSCRIBE"
        /\ m.type # "PUBACK"
    OBVIOUS
  <2>2. CASE m.type = "PINGREQ"
    <3>1. Encode(m, cap) = EncodePingreq(cap)
      BY <2>1, <2>2, Zenon DEF Encode
    <3>2. tf = PINGREQ
      BY <2>2 DEF tf
    <3> QED
      BY <1>3, <3>1, <3>2, Zenon DEF EncodePingreq
  <2>3. CASE m.type = "DISCONNECT"
    <3>0. m.type # "PINGREQ"
      BY <2>3
    <3>1. Encode(m, cap) = EncodeDisconnect(cap)
      BY <2>1, <2>3, <3>0, Zenon DEF Encode
    <3>2. tf = DISCONNECT
      BY <3>0 DEF tf
    <3> QED
      BY <1>3, <3>1, <3>2, Zenon DEF EncodeDisconnect
  <2> QED
    BY <2>2, <2>3
<1>5. \A cap \in {m.cap, Unbounded} :
         Encode(m, cap) = IF Len(Packet(tf, body)) > cap THEN <<>> ELSE Packet(tf, body)
  <2>1. \A cap \in Nat : cap < 2 <=> 2 > cap
    OBVIOUS
  <2> HIDE DEF body
  <2> QED
    BY <1>1, <1>3, <1>4, <2>1
<1>6. ReadBack(m, tf % 16, body)
  <2>1. m.type # "PUBLISH" /\ m.type # "PUBACK" /\ m.type # "CONNACK" /\ m.type # "SUBACK"
        /\ m.type # "CONNECT"
    OBVIOUS
  <2> QED
    BY <2>1, Zenon DEF ReadBack
<1>7. Len(body) <= MaxPacketSize
  BY <1>3, Limits
<1> HIDE DEF body
<1> QED
  BY <1>1, <1>2, <1>3, <1>5, <1>6, <1>7, Zenon DEF WrittenAs, Coded

\* One byte and one byte are two.
LEMMA OneAndOne ==
  ASSUME NEW a \in Byte, NEW x \in Byte
  PROVE  <<a>> \o <<x>> = <<a, x>>
<1> DEFINE u == <<a>>
           v == <<x>>
           t == <<a, x>>
           w == u \o v
<1>1. /\ u \in Seq(Byte) /\ Len(u) = 1 /\ u[1] = a
      /\ v \in Seq(Byte) /\ Len(v) = 1 /\ v[1] = x
      /\ t \in Seq(Byte) /\ Len(t) = 2 /\ t[1] = a /\ t[2] = x
  OBVIOUS
<1> HIDE DEF u, v, t
<1>2. IsJoin(w, u, v)
  BY <1>1, Joins, Zenon
<1>3. 1 + 1 = 2 /\ 1 \in 1 .. 1
  OBVIOUS
<1> HIDE DEF w
<1>4. w \in Seq(Byte) /\ Len(w) = 2 /\ \A i \in 1 .. 2 : w[i] = t[i]
  BY <1>1, <1>2, <1>3 DEF IsJoin
<1>5. w = t
  BY <1>1, <1>4, SeqEqual
<1> QED
  BY <1>5 DEF w, u, v, t

\* SUBACK: an identifier and a return code that is not reserved.
LEMMA SubackCoded ==
  ASSUME NEW m, IsMessage(m), m.type = "SUBACK"
  PROVE  Coded(m)
<1> DEFINE id == m.packetId
           b == Be16(id)
           x == id \div 256
           y == id % 256
           z == m.returnCode
           body == b \o <<z>>
           t == <<144, 3>> \o b \o <<z>>
<1>1. /\ m.cap \in Nat /\ id \in Nat /\ id # 0 /\ id \div 256 < 256
      /\ z \in {0, 1, 128} /\ m.cap >= 5
  BY MessageFields, Zenon
<1>2. Unbounded \in Nat /\ Unbounded >= 5
  BY Limits DEF Unbounded, RlMaxBytes
<1>3. b \in Seq(Byte) /\ Len(b) = 2 /\ b[1] * 256 + b[2] = id
  BY <1>1, Be16Bytes, Zenon
<1>4. z \in Byte /\ 144 \in Byte /\ 3 \in Byte /\ 144 \div 16 \in 1..14
  <2>1. \A v \in {0, 1, 128} : v \in Byte
    BY SMT DEF Byte
  <2>2. 144 \in Byte /\ 3 \in Byte /\ 144 \div 16 \in 1..14
    BY SMT DEF Byte
  <2> QED
    BY <1>1, <2>1, <2>2
<1> HIDE DEF b, z, id
<1>5. <<z>> \in Seq(Byte) /\ Len(<<z>>) = 1 /\ <<z>>[1] = z
  BY <1>4
<1>6. IsJoin(body, b, <<z>>)
  BY <1>3, <1>5, Joins, Zenon
<1>7. body \in Seq(Byte) /\ Len(body) = 3 /\ body[1] = b[1] /\ body[2] = b[2] /\ body[3] = z
  <2>1. 2 + 1 = 3 /\ 1 \in 1 .. 2 /\ 2 \in 1 .. 2 /\ 1 \in 1 .. 1
    OBVIOUS
  <2> HIDE DEF body
  <2> QED
    BY <1>3, <1>5, <1>6, <2>1 DEF IsJoin
<1> HIDE DEF body
<1>8. Packet(144, body) = t /\ Len(Packet(144, body)) = 5
  <2>0. Len(body) = 3 /\ Len(body) < 128 /\ Len(body) \div 128 < 128 /\ HeadLen(Len(body)) = 2
    BY <1>7 DEF HeadLen
  <2>1. WriteVarInt(Len(body)) = <<3>>
    BY <1>7, <2>0, WriteVarIntShort
  <2>2. Packet(144, body) = (<<144>> \o <<3>>) \o (b \o <<z>>)
    BY <2>1, Zenon DEF Packet, body
  <2>3. <<144>> \o <<3>> = <<144, 3>>
    BY <1>4, OneAndOne, Zenon
  <2>4. <<144, 3>> \in Seq(Byte)
    BY <1>4
  <2>5. (<<144, 3>> \o b) \o <<z>> = <<144, 3>> \o (b \o <<z>>)
    BY <1>3, <1>5, <2>4, ConcatAssociative
  <2>6. Len(Packet(144, body)) = 5
    <3>1. LET q == Packet(144, body)
              rl == Len(body)
              head == HeadLen(rl)
          IN  /\ q \in Seq(Byte) /\ Len(q) = head + rl
              /\ q[1] = 144
              /\ rl < 128 => q[2] = rl
              /\ ~(rl < 128) => q[2] = 128 + (rl % 128) /\ q[3] = rl \div 128
              /\ SubSeq(q, head + 1, Len(q)) = body
      BY <1>4, <1>7, <2>0, PacketBytes, Zenon
    <3> DEFINE q == Packet(144, body)
    <3>2. Len(q) = HeadLen(Len(body)) + Len(body)
      BY <3>1, Zenon
    <3> HIDE DEF q
    <3>3. Len(q) = 5
      BY <1>7, <2>0, <3>2
    <3> QED
      BY <3>3 DEF q
  <2> QED
    BY <2>2, <2>3, <2>5, <2>6, Zenon
<1>9. ASSUME NEW cap PROVE Encode(m, cap) = Packet(144, body)
  <2>1. /\ m.type # "CONNECT" /\ m.type # "PUBLISH" /\ m.type # "SUBSCRIBE"
        /\ m.type # "PUBACK" /\ m.type # "PINGREQ" /\ m.type # "DISCONNECT"
        /\ m.type # "CONNACK"
    OBVIOUS
  <2>2. Encode(m, cap) = BrokerSuback(m)
    BY <2>1, Zenon DEF Encode
  <2> QED
    BY <1>8, <2>2, Zenon DEF BrokerSuback, b, z, id
<1>10. \A cap \in {m.cap, Unbounded} :
          Encode(m, cap) = IF Len(Packet(144, body)) > cap THEN <<>> ELSE Packet(144, body)
  <2>1. ~(5 > m.cap) /\ ~(5 > Unbounded)
    BY <1>1, <1>2
  <2>2. \A cap \in {m.cap, Unbounded} : ~(Len(Packet(144, body)) > cap)
    BY <1>8, <2>1, Zenon
  <2> QED
    BY <1>9, <2>2, Zenon
<1>11. Be16Read(body, 1) = id
  BY <1>3, <1>7 DEF Be16Read
<1>12. LET d == DecodeSuback(body)
       IN  d.status = "OK" /\ d.packetId = id /\ (d.granted <=> z < 128)
  <2>1. ~(Len(body) < 3 \/ Be16Read(body, 1) = 0)
    BY <1>1, <1>7, <1>11
  <2>2. DecodeSuback(body) = [status |-> "OK", packetId |-> Be16Read(body, 1),
                              returnCode |-> body[3], granted |-> body[3] \in {0, 1}]
    BY <2>1, Zenon DEF DecodeSuback
  <2> DEFINE g == body[3] \in {0, 1}
  <2>3. g <=> z < 128
    BY <1>1, <1>7
  <2>4. DecodeSuback(body) = [status |-> "OK", packetId |-> id, returnCode |-> z, granted |-> g]
    BY <1>7, <1>11, <2>2
  <2> HIDE DEF g
  <2>5. DecodeSuback(body).status = "OK" /\ DecodeSuback(body).packetId = id
        /\ (DecodeSuback(body).granted <=> g)
    BY <2>4
  <2> QED
    BY <2>3, <2>5
<1>13. ReadBack(m, 144 % 16, body)
  <2>1. m.type # "PUBLISH" /\ m.type # "PUBACK" /\ m.type # "CONNACK" /\ m.type # "CONNECT"
        /\ m.type \notin {"PINGREQ", "DISCONNECT"}
    OBVIOUS
  <2> QED
    BY <1>12, <2>1, Zenon DEF ReadBack, id, z
<1>14. Len(body) <= MaxPacketSize
  BY <1>7, Limits
<1>15. WrittenAs(m, 144, body)
  BY <1>4, <1>7, <1>10, <1>13, <1>14 DEF WrittenAs
<1> QED
  BY <1>15, Zenon DEF Coded

\* CONNECT: the client identifier follows twelve bytes, the last two its length.
LEMMA ConnectCoded ==
  ASSUME NEW m, IsMessage(m), m.type = "CONNECT"
  PROVE  Coded(m)
<1> DEFINE id == m.clientId
           n == Len(id)
           a == <<0, 4, 77, 81, 84, 84, 4, 2>>
           b == Be16(m.keepalive)
           c == Be16(n)
           ab == a \o b
           abc == ab \o c
           body == abc \o id
           bad == n \notin 1..MaxClientIdLength \/ ~Valid(id)
<1>1. m.cap \in Nat /\ id \in Seq(Byte) /\ m.keepalive \in Nat /\ m.keepalive \div 256 < 256
  BY MessageFields, Zenon
<1>2. Unbounded \in Nat
  BY Limits DEF Unbounded, RlMaxBytes
<1>3. ASSUME NEW cap
      PROVE  Encode(m, cap) = IF bad THEN <<>> ELSE Framed(cap, CONNECT, 10 + 2 + n, body)
  <2>1. Encode(m, cap) = EncodeConnect(cap, m.clientId, m.keepalive)
    BY Zenon DEF Encode
  <2> QED
    BY <2>1, Zenon DEF EncodeConnect
<1>4. CASE bad
  <2>1. \A cap \in {m.cap, Unbounded} : Encode(m, cap) = <<>>
    BY <1>3, <1>4, Zenon
  <2> QED
    BY <2>1, Zenon DEF Coded
<1>5. CASE ~bad
  <2>1. n \in Nat /\ n + 12 <= MaxPacketSize /\ n \div 256 < 256
    <3>1. n \in 1 .. MaxClientIdLength
      BY <1>5, Zenon
    <3>2. n \in Nat /\ n + 12 <= MaxPacketSize /\ n <= MaxPacketSize
      BY <3>1, Limits
    <3> HIDE DEF n
    <3> QED
      BY <3>2, Limits
  <2>2. a \in Seq(Byte) /\ Len(a) = 8
    <3>1. 0 \in Byte /\ 4 \in Byte /\ 77 \in Byte /\ 81 \in Byte /\ 84 \in Byte /\ 2 \in Byte
      BY SMT DEF Byte
    <3> QED
      BY <3>1
  <2>3. b \in Seq(Byte) /\ Len(b) = 2
    BY <1>1, Be16Bytes, Zenon
  <2>4. c \in Seq(Byte) /\ Len(c) = 2 /\ c[1] * 256 + c[2] = n
    BY <2>1, Be16Bytes, Zenon
  <2>n. n = Len(id)
    OBVIOUS
  <2> HIDE DEF a, b, c, n
  <2>5. ab \in Seq(Byte) /\ Len(ab) = 10
    <3>1. IsJoin(ab, a, b)
      BY <2>2, <2>3, Joins, Zenon
    <3> HIDE DEF ab
    <3> QED
      BY <2>2, <2>3, <3>1 DEF IsJoin
  <2> HIDE DEF ab
  <2>6. abc \in Seq(Byte) /\ Len(abc) = 12 /\ abc[11] = c[1] /\ abc[12] = c[2]
    <3>1. IsJoin(abc, ab, c)
      BY <2>4, <2>5, Joins, Zenon
    <3>2. 10 + 1 = 11 /\ 10 + 2 = 12 /\ 1 \in 1 .. 2 /\ 2 \in 1 .. 2
      OBVIOUS
    <3> HIDE DEF abc
    <3> QED
      BY <2>4, <2>5, <3>1, <3>2 DEF IsJoin
  <2> HIDE DEF abc
  <2>7. body \in Seq(Byte) /\ Len(body) = 12 + n /\ body[11] = c[1] /\ body[12] = c[2]
    <3>1. IsJoin(body, abc, id)
      BY <1>1, <2>6, Joins, Zenon
    <3>2. 11 \in 1 .. 12 /\ 12 \in 1 .. 12
      OBVIOUS
    <3> HIDE DEF body
    <3> QED
      BY <2>6, <2>n, <3>1, <3>2 DEF IsJoin
  <2>8. Be16Read(body, 11) = n
    <3>1. 11 + 1 = 12
      OBVIOUS
    <3> HIDE DEF body
    <3> QED
      BY <2>4, <2>7, <3>1 DEF Be16Read
  <2>9. 10 + 2 + n = Len(body) /\ Len(body) <= MaxPacketSize
    BY <2>1, <2>7
  <2>10. CONNECT \in Byte /\ CONNECT \div 16 \in 1..14
    BY SMT DEF Byte, CONNECT
  <2> HIDE DEF body
  <2>11. \A cap \in {m.cap, Unbounded} :
           Encode(m, cap) = IF Len(Packet(CONNECT, body)) > cap THEN <<>> ELSE Packet(CONNECT, body)
    <3>1. ASSUME NEW cap \in Nat
          PROVE  Framed(cap, CONNECT, Len(body), body) =
                   IF Len(Packet(CONNECT, body)) > cap THEN <<>> ELSE Packet(CONNECT, body)
      BY <2>7, <2>9, <2>10, FramedIsPacket, Zenon
    <3>2. ASSUME NEW cap PROVE Encode(m, cap) = Framed(cap, CONNECT, Len(body), body)
      BY <1>3, <1>5, <2>9, Zenon
    <3>3. \A cap \in {m.cap, Unbounded} : cap \in Nat
      BY <1>1, <1>2
    <3> QED
      BY <3>1, <3>2, <3>3
  <2>12. ReadBack(m, CONNECT % 16, body)
    <3>1. m.type # "PUBLISH" /\ m.type # "PUBACK" /\ m.type # "CONNACK" /\ m.type # "SUBACK"
          /\ m.type \notin {"PINGREQ", "DISCONNECT"}
      OBVIOUS
    <3>2. Len(body) = 12 + Be16Read(body, 11)
      BY <2>7, <2>8
    <3> QED
      BY <3>1, <3>2, Zenon DEF ReadBack
  <2> QED
    BY <1>1, <2>7, <2>9, <2>10, <2>11, <2>12, Zenon DEF WrittenAs, Coded
<1> QED
  BY <1>4, <1>5

\* Whatever the client encodes and the decoders read.
LEMMA MessageCoded ==
  ASSUME NEW m, IsMessage(m), m.type # "SUBSCRIBE"
  PROVE  Coded(m)
<1>1. m.type \in {"CONNECT", "CONNACK", "PUBLISH", "PUBACK", "SUBACK", "PINGREQ", "DISCONNECT"}
  <2>1. m.type \in {"CONNECT", "CONNACK", "PUBLISH", "PUBACK", "SUBSCRIBE", "SUBACK",
                    "PINGREQ", "DISCONNECT"}
    BY Zenon DEF IsMessage
  <2> QED
    BY <2>1
<1> QED
  BY <1>1, ConnectCoded, ConnackCoded, PublishCoded, PubackCoded, SubackCoded,
     EmptyCoded, Zenon

\* Joining two bytes and taking them apart.
LEMMA Be16Inverse ==
  ASSUME NEW x \in Byte, NEW y \in Byte
  PROVE  (x * 256 + y) \div 256 = x /\ (x * 256 + y) % 256 = y
<1>1. x \in Nat /\ y \in 0..255
  BY SMT DEF Byte
<1>2. (256 * x + y) \div 256 = x /\ (256 * x + y) % 256 = y
  BY SMT, <1>1
<1>3. x * 256 + y = 256 * x + y
  BY SMT, <1>1
<1> QED
  BY SMT, <1>2, <1>3

\* A body put together from its parts is the body they were cut from.
LEMMA BodyOfParts ==
  ASSUME NEW s \in Seq(Byte), NEW n \in Nat, NEW k \in {0, 2}, 2 + n + k <= Len(s),
         s[1] * 256 + s[2] = n,
         NEW id \in Seq(Byte), Len(id) = k, k = 2 => id[1] = s[3 + n] /\ id[2] = s[4 + n]
  PROVE  Body(SubSeq(s, 3, 2 + n), id, SubSeq(s, 3 + n + k, Len(s))) = s
<1> DEFINE topic == SubSeq(s, 3, 2 + n)
           l == Len(s) - (2 + n + k)
           payload == SubSeq(s, 3 + n + k, Len(s))
           b == Be16(n)
           s1 == b \o topic
           s2 == s1 \o id
           t == s2 \o payload
<1>0. l \in Nat /\ k \in Nat /\ Len(s) = 2 + n + k + l
  OBVIOUS
<1>1. topic \in Seq(Byte) /\ Len(topic) = n /\ \A i \in 1 .. n : topic[i] = s[2 + i]
  <2>1. 2 \in Nat /\ 2 + n <= Len(s) /\ 3 = 2 + 1
    OBVIOUS
  <2> QED
    BY <2>1, Cut DEF IsCut
<1>2. payload \in Seq(Byte) /\ Len(payload) = l
      /\ \A i \in 1 .. l : payload[i] = s[2 + n + k + i]
  <2> DEFINE j == 2 + n + k
  <2>1. j \in Nat /\ l \in Nat /\ j + l <= Len(s) /\ j + l = Len(s) /\ 3 + n + k = j + 1
    OBVIOUS
  <2> HIDE DEF j, l
  <2>2. IsCut(SubSeq(s, j + 1, j + l), s, j, l)
    BY <2>1, Cut, Zenon
  <2>3. payload = SubSeq(s, j + 1, j + l)
    BY <2>1
  <2>4. IsCut(payload, s, j, l)
    BY <2>2, <2>3, Zenon
  <2> HIDE DEF payload
  <2> QED
    BY <2>4 DEF IsCut, j
<1>3. s[1] \in Byte /\ s[2] \in Byte
  <2>1. 1 \in 1 .. Len(s) /\ 2 \in 1 .. Len(s)
    OBVIOUS
  <2> QED
    BY <2>1
<1>4. b = <<s[1], s[2]>>
  <2>1. ASSUME NEW x \in Byte, NEW y \in Byte
        PROVE  (x * 256 + y) \div 256 = x /\ (x * 256 + y) % 256 = y
    BY Be16Inverse
  <2>2. n \div 256 = s[1] /\ n % 256 = s[2]
    BY <1>3, <2>1
  <2> QED
    BY <2>2, Zenon DEF Be16
<1>5. b \in Seq(Byte) /\ Len(b) = 2 /\ b[1] = s[1] /\ b[2] = s[2]
  <2>1. <<s[1], s[2]>> \in Seq(Byte) /\ Len(<<s[1], s[2]>>) = 2
        /\ <<s[1], s[2]>>[1] = s[1] /\ <<s[1], s[2]>>[2] = s[2]
    BY <1>3
  <2> QED
    BY <1>4, <2>1, Zenon
<1> HIDE DEF topic, payload, b, l
<1>6. IsJoin(s1, b, topic)
  BY <1>1, <1>5, Joins, Zenon
<1>7. s1 \in Seq(Byte) /\ Len(s1) = 2 + n
  BY <1>1, <1>5, <1>6 DEF IsJoin
<1> HIDE DEF s1
<1>8. IsJoin(s2, s1, id)
  BY <1>7, Joins, Zenon
<1>9. s2 \in Seq(Byte) /\ Len(s2) = 2 + n + k
  BY <1>7, <1>8 DEF IsJoin
<1> HIDE DEF s2
<1>10. IsJoin(t, s2, payload)
  BY <1>2, <1>9, Joins, Zenon
<1> HIDE DEF t
<1>11. t \in Seq(Byte) /\ Len(t) = Len(s)
  BY <1>0, <1>2, <1>9, <1>10 DEF IsJoin
<1>12. ASSUME NEW i \in 1 .. Len(s) PROVE t[i] = s[i]
  <2>1. CASE i <= 2
    <3>1. i \in {1, 2} /\ i \in 1 .. 2 /\ i \in 1 .. 2 + n /\ i \in 1 .. 2 + n + k
      BY <1>0, <2>1
    <3>2. t[i] = s2[i]
      BY <1>9, <1>10, <3>1 DEF IsJoin
    <3>3. s2[i] = s1[i]
      BY <1>7, <1>8, <3>1 DEF IsJoin
    <3>4. s1[i] = b[i]
      BY <1>5, <1>6, <3>1 DEF IsJoin
    <3> QED
      BY <1>5, <3>1, <3>2, <3>3, <3>4
  <2>2. CASE 2 < i /\ i <= 2 + n
    <3> DEFINE j == i - 2
    <3>1. j \in 1 .. n /\ i = 2 + j
      BY <2>2
    <3> HIDE DEF j
    <3>2. t[i] = s2[i] /\ s2[i] = s1[i]
      BY <1>0, <1>7, <1>8, <1>9, <1>10, <2>2 DEF IsJoin
    <3>3. s1[2 + j] = topic[j]
      BY <1>1, <1>5, <1>6, <3>1 DEF IsJoin
    <3> QED
      BY <1>1, <3>1, <3>2, <3>3
  <2>3. CASE 2 + n < i /\ i <= 2 + n + k
    <3> DEFINE j == i - (2 + n)
    <3>1. j \in 1 .. k /\ i = 2 + n + j /\ k = 2 /\ j \in {1, 2}
      BY <2>3
    <3> HIDE DEF j
    <3>2. t[i] = s2[i]
      BY <1>0, <1>9, <1>10, <2>3 DEF IsJoin
    <3>3. s2[2 + n + j] = id[j]
      BY <1>7, <1>8, <3>1 DEF IsJoin
    <3>4. j = 1 => i = 3 + n
      BY <3>1
    <3>5. j = 2 => i = 4 + n
      BY <3>1
    <3> QED
      BY <3>1, <3>2, <3>3, <3>4, <3>5
  <2>4. CASE 2 + n + k < i
    <3> DEFINE j == i - (2 + n + k)
    <3>1. j \in 1 .. l /\ i = 2 + n + k + j
      BY <1>0, <2>4
    <3> HIDE DEF j
    <3>2. t[2 + n + k + j] = payload[j]
      BY <1>2, <1>9, <1>10, <3>1 DEF IsJoin
    <3> QED
      BY <1>2, <3>1, <3>2
  <2> QED
    BY <1>0, <2>1, <2>2, <2>3, <2>4
<1>13. t = s
  BY <1>11, <1>12, SeqEqual
<1>14. Body(topic, id, payload) = t
  BY <1>1, Zenon DEF Body, t, s2, s1, b
<1> QED
  BY <1>13, <1>14, Zenon DEF topic, payload

-----------------------------------------------------------------------------
(* Bodies that were written *)

\* A body the decoder accepts is one the encoder writes.
LEMMA AcceptedWasWritten ==
  ASSUME NEW qos \in {0, 1}, text \in Seq(Byte), DecodePublish(qos, text).status = "OK"
  PROVE  BodyWasWritten(qos)
<1> DEFINE n == Be16Read(text, 1)
           k == IF qos > 0 THEN 2 ELSE 0
           topic == SubSeq(text, 3, 2 + n)
           payload == SubSeq(text, 3 + n + k, Len(text))
           pid == IF qos > 0 THEN Be16Read(text, 3 + n) ELSE 0
           accepts == /\ IsValidTopicName(topic)
                      /\ Len(text) >= 2 + n + k /\ (qos > 0 => pid # 0)
                      /\ Len(payload) <= MaxPayloadSize
           record == [status |-> "OK", topic |-> topic, qos |-> qos, packetId |-> pid,
                      payload |-> payload]
           d == DecodePublish(qos, text)
<1>1. d = IF Len(text) < 2 \/ Len(text) < 2 + n THEN Fails("MALFORMED")
          ELSE IF accepts THEN record ELSE Fails("MALFORMED")
  BY Zenon DEF DecodePublish
<1>2. Fails("MALFORMED").status # "OK"
  BY DEF Fails
<1>3. ~(Len(text) < 2) /\ ~(Len(text) < 2 + n) /\ accepts /\ d = record
  <2> HIDE DEF d, accepts, record, n
  <2> QED
    BY <1>1, <1>2 DEF d
<1>4. IsValidTopicName(topic) /\ Len(text) >= 2 + n + k /\ (qos > 0 => pid # 0)
      /\ Len(payload) <= MaxPayloadSize
  BY <1>3, Zenon
<1>5. text[1] \in Byte /\ text[2] \in Byte /\ Len(text) \in Nat
  <2>1. Len(text) \in Nat /\ ~(Len(text) < 2)
    BY <1>3
  <2>2. 1 \in 1 .. Len(text) /\ 2 \in 1 .. Len(text)
    BY <2>1
  <2> QED
    BY <2>1, <2>2
<1>6. n \in Nat /\ n = text[1] * 256 + text[2]
  <2>1. n = text[1] * 256 + text[2]
    BY DEF Be16Read
  <2>2. \A x \in Byte : x \in Nat
    BY SMT DEF Byte
  <2>3. text[1] \in Nat /\ text[2] \in Nat
    BY <1>5, <2>2
  <2> HIDE DEF n
  <2> QED
    BY <2>1, <2>3
<1> HIDE DEF n
<1>7. k \in {0, 2} /\ k = 2 * qos
  OBVIOUS
<1>8. 2 + n + k <= Len(text)
  BY <1>4, <1>5, <1>6, <1>7
<1>9. topic \in Seq(Byte) /\ Len(topic) = n
  <2>1. 2 \in Nat /\ 2 + n <= Len(text) /\ 3 = 2 + 1
    BY <1>5, <1>6, <1>7, <1>8
  <2> QED
    BY <1>6, <2>1, Cut DEF IsCut
<1>10. n \in 1 .. Len(text) /\ n <= MaxTopicLength
  <2>1. Len(topic) \in 1 .. MaxTopicLength
    BY <1>4, Zenon DEF IsValidTopicName
  <2> HIDE DEF topic
  <2> QED
    BY <1>5, <1>6, <1>7, <1>8, <1>9, <2>1, Limits
<1>11. payload \in Seq(Byte)
  <2> DEFINE j == 2 + n + k
             l == Len(text) - j
  <2> HIDE DEF k, payload
  <2>1. j \in Nat /\ l \in Nat /\ j + l <= Len(text) /\ j + l = Len(text) /\ 3 + n + k = j + 1
    <3>1. k \in Nat /\ n \in Nat /\ Len(text) \in Nat /\ 2 + n + k <= Len(text)
      BY <1>5, <1>6, <1>7, <1>8
    <3> QED
      BY <3>1
  <2> HIDE DEF j, l
  <2>2. IsCut(SubSeq(text, j + 1, j + l), text, j, l)
    BY <2>1, Cut, Zenon
  <2>3. payload = SubSeq(text, j + 1, j + l)
    BY <2>1 DEF payload
  <2>4. IsCut(payload, text, j, l)
    BY <2>2, <2>3, Zenon
  <2> QED
    BY <2>4 DEF IsCut
<1>12. /\ pid \in Nat /\ (qos = 1 => pid # 0) /\ pid \div 256 < 256
       /\ IdOf(qos, pid) \in Seq(Byte) /\ Len(IdOf(qos, pid)) = k
       /\ k = 2 => IdOf(qos, pid)[1] = text[3 + n] /\ IdOf(qos, pid)[2] = text[4 + n]
  <2>1. CASE qos = 0
    <3>1. pid = 0 /\ IdOf(qos, pid) = <<>> /\ k = 0
      BY <2>1 DEF IdOf
    <3> HIDE DEF pid
    <3>2. 0 \div 256 < 256
      BY SMT
    <3>3. <<>> \in Seq(Byte) /\ Len(<<>>) = 0
      OBVIOUS
    <3>4. ~(qos = 1)
      BY <2>1
    <3> DEFINE i == IdOf(qos, pid)
    <3>5. pid = 0 /\ i = <<>> /\ k = 0
      BY <3>1
    <3> HIDE DEF k, pid, i
    <3>6. /\ pid \in Nat /\ (qos = 1 => pid # 0) /\ pid \div 256 < 256
          /\ i \in Seq(Byte) /\ Len(i) = k
      BY <3>2, <3>3, <3>4, <3>5
    <3>7. ~(k = 2)
      BY <3>5
    <3> QED
      BY <3>6, <3>7, Zenon DEF i
  <2>2. CASE qos = 1
    <3>1. k = 2 /\ qos > 0
      BY <2>2
    <3> DEFINE x == text[3 + n]
               y == text[4 + n]
    <3>2. x \in Byte /\ y \in Byte
      <4>1. 3 + n \in 1 .. Len(text) /\ 4 + n \in 1 .. Len(text)
        BY <1>5, <1>6, <1>8, <3>1
      <4> QED
        BY <4>1
    <3> HIDE DEF x, y
    <3>3. pid = x * 256 + y
      <4>1. 4 + n = 3 + n + 1
        BY <1>6
      <4> QED
        BY <3>1, <4>1 DEF Be16Read, x, y
    <3>4. IdOf(qos, pid) = Be16(pid)
      BY <3>1, Zenon DEF IdOf
    <3> HIDE DEF pid
    <3>5. pid \div 256 = x /\ pid % 256 = y
      BY <3>2, <3>3, Be16Inverse, Zenon
    <3>6. pid \in Nat /\ pid \div 256 < 256
      <4>1. \A v \in Byte : v \in Nat /\ v < 256
        BY SMT DEF Byte
      <4>2. x \in Nat /\ y \in Nat /\ x < 256
        BY <3>2, <4>1
      <4> QED
        BY <3>3, <3>5, <4>2
    <3>7. Be16(pid) = <<x, y>>
      BY <3>5, Zenon DEF Be16
    <3>8. <<x, y>> \in Seq(Byte) /\ Len(<<x, y>>) = 2 /\ <<x, y>>[1] = x /\ <<x, y>>[2] = y
      BY <3>2
    <3>9. qos = 1 => pid # 0
      BY <1>4, <3>1, Zenon
    <3> QED
      BY <3>1, <3>4, <3>6, <3>7, <3>8, <3>9, Zenon DEF x, y
  <2> QED
    BY <2>1, <2>2
<1> DEFINE body == Body(topic, IdOf(qos, pid), payload)
<1>13. body = text
  <2>1. text[1] * 256 + text[2] = n
    BY <1>6
  <2> HIDE DEF pid, k
  <2> QED
    BY <1>6, <1>7, <1>8, <1>12, <2>1, BodyOfParts, Zenon
<1>14. Len(body) <= MaxPacketSize /\ Len(body) = 2 + Len(topic) + Len(IdOf(qos, pid)) + Len(payload)
  <2> HIDE DEF topic, payload, pid, k
  <2> QED
    BY <1>4, <1>9, <1>11, <1>12, PublishReadsBack, Zenon
<1> DEFINE packet == EncodePublish(Unbounded, topic, payload, qos, FALSE, pid)
           tf == PUBLISH + 2 * qos + 0
<1>15. packet = Framed(Unbounded, tf, Len(body), body)
  <2>1. ~(qos > 1 \/ Len(payload) > MaxPayloadSize \/ ~IsValidTopicName(topic))
    <3>1. ~(qos > 1)
      OBVIOUS
    <3>2. Len(payload) \in Nat /\ MaxPayloadSize \in Nat
      BY <1>11, Limits
    <3> HIDE DEF payload, topic
    <3>3. ~(Len(payload) > MaxPayloadSize)
      BY <1>4, <3>2
    <3> QED
      BY <1>4, <3>1, <3>3, Zenon
  <2> DEFINE len == 2 + Len(topic) + Len(IdOf(qos, pid)) + Len(payload)
  <2>2. packet = Framed(Unbounded, tf, len, body)
    <3> HIDE DEF topic, payload, pid
    <3> QED
      BY <2>1, Zenon DEF EncodePublish, Body, IdOf
  <2> QED
    BY <1>14, <2>2, Zenon
<1>16. tf \in Byte /\ tf \div 16 \in 1..14
  <2>1. tf \in 48 .. 50
    BY DEF PUBLISH
  <2>2. \A x \in 48 .. 50 : x \in Byte /\ x \div 16 = 3
    BY SMT DEF Byte
  <2> HIDE DEF tf
  <2> QED
    BY <2>1, <2>2
<1> HIDE DEF topic, payload, pid, k, body, packet, tf
<1>17. Unbounded \in Nat
  BY Limits DEF Unbounded, RlMaxBytes
<1>18. body \in Seq(Byte) /\ Len(body) \in Nat
  BY <1>13
<1> DEFINE p == Packet(tf, body)
<1>19. p \in Seq(Byte) /\ Len(p) = HeadLen(Len(body)) + Len(body)
  <2>1. Len(body) \div 128 < 128
    BY <1>14, <1>18, Limits
  <2> QED
    BY <1>16, <1>18, <2>1, PacketBytes, Zenon
<1>20. packet = p /\ packet # <<>>
  <2>1. ~(Len(p) > Unbounded) /\ p # <<>>
    <3>1. HeadLen(Len(body)) \in {2, 3}
      BY DEF HeadLen
    <3>2. MaxPacketSize \in Nat /\ Unbounded = MaxPacketSize + 5
      BY Limits DEF Unbounded, RlMaxBytes
    <3> HIDE DEF p
    <3> QED
      BY <1>14, <1>18, <1>19, <3>1, <3>2
  <2>2. Framed(Unbounded, tf, Len(body), body) = IF Len(p) > Unbounded THEN <<>> ELSE p
    BY <1>14, <1>16, <1>17, <1>18, FramedIsPacket, Zenon
  <2> QED
    BY <1>15, <2>1, <2>2, Zenon
<1>21. SubSeq(packet, HeadOf(Len(packet)) + 1, Len(packet)) = text
  <2>1. 0 \in 0 .. Len(p) /\ MaxPacketSize \in Nat /\ MaxPacketSize \div 128 < 128
    BY <1>19, Limits
  <2>2. SubSeq(p, HeadOf(Len(p)) + 1, Len(p)) = body
    BY <1>14, <1>16, <1>18, <2>1, PacketArrives, Zenon
  <2> QED
    BY <1>13, <1>20, <2>2, Zenon
<1> DEFINE id == IF qos = 0 THEN 0 ELSE Be16Read(text, 3 + n)
           after == 2 + n + 2 * qos
<1>22. id = pid /\ after = 2 + n + k /\ after <= Len(text) /\ (qos = 1 => id # 0)
       /\ 3 + n + k = after + 1
  <2>1. id = pid
    BY DEF pid
  <2> HIDE DEF id
  <2> QED
    BY <1>6, <1>7, <1>8, <1>12, <2>1
<1>23. topic = SubSeq(text, 3, 2 + n) /\ payload = SubSeq(text, after + 1, Len(text))
  <2>1. payload = SubSeq(text, 3 + n + k, Len(text))
    BY Zenon DEF payload
  <2> HIDE DEF after
  <2> QED
    BY <1>22, <2>1 DEF topic
<1>24. packet = EncodePublish(Unbounded, topic, payload, qos, FALSE, id)
  BY <1>22, Zenon DEF packet
<1>25. d = [status |-> "OK", topic |-> topic, qos |-> qos, packetId |-> id, payload |-> payload]
  BY <1>3, <1>22, Zenon DEF topic, payload, pid, k
<1>26. d.status = "OK"
  OBVIOUS
<1> HIDE DEF d, id, after
<1> QED
  BY <1>10, <1>20, <1>21, <1>22, <1>23, <1>24, <1>25, <1>26, Zenon DEF BodyWasWritten, d, id, after

-----------------------------------------------------------------------------
(* The buffer *)

\* The body of a PUBLISH is accepted exactly when the encoder could have written it.
THEOREM BodyIsWritten ==
  ASSUME NEW qos \in {0, 1}, text \in Seq(Byte)
  PROVE  BodyWasWritten(qos)
<1>1. CASE DecodePublish(qos, text).status = "OK"
  BY <1>1, AcceptedWasWritten, Zenon
<1>2. CASE DecodePublish(qos, text).status # "OK"
  <2>1. ASSUME NEW topic, NEW id, NEW payload,
               DecodePublish(qos, text) =
                  [status |-> "OK", topic |-> topic, qos |-> qos, packetId |-> id,
                   payload |-> payload]
        PROVE  FALSE
    BY <1>2, <2>1
  <2> QED
    BY <1>2, <2>1, Zenon DEF BodyWasWritten
<1> QED
  BY <1>1, <1>2

\* What the assumption says of messages and alphabets.
LEMMA AlphabetsAndMessages ==
  /\ \A m \in Messages : IsMessage(m)
  /\ \A k \in {"utf8", "filter", "header", "body"} : Alphabet[k] \subseteq Byte
BY WireAssumption DEF WireAssumption

\* What the buffer holds: bytes, or what has come in of the packet sent.
Filled ==
  /\ kind \in {"utf8", "filter", "header", "body"} => text \in Seq(Byte)
  /\ kind = "packet" =>
       \/ sent = NoMessage /\ text = <<>>
       \/ /\ sent \in Messages
          /\ sent.type # "SUBSCRIBE" =>
               \E k \in 0 .. Len(Encode(sent, sent.cap)) :
                  text = SubSeq(Encode(sent, sent.cap), 1, k)

\* Every message but SUBSCRIBE is coded.
LEMMA MessagesCoded ==
  ASSUME NEW m \in Messages, m.type # "SUBSCRIBE"
  PROVE  m.cap \in Nat /\ Coded(m) /\ Encode(m, m.cap) \in Seq(Byte)
<1>1. IsMessage(m)
  BY AlphabetsAndMessages, Zenon
<1>2. m.cap \in Nat /\ Coded(m)
  BY <1>1, MessageFields, MessageCoded, Zenon
<1> QED
  BY <1>2, CodedBytes, Limits

\* The buffer is empty at first.
LEMMA FilledInit == WireInit => Filled
<1> SUFFICES ASSUME WireInit PROVE Filled
  OBVIOUS
<1>1. CASE kind \in DOMAIN Alphabet \cup {"packet"} /\ text = <<>>
  <2>1. <<>> \in Seq(Byte)
    OBVIOUS
  <2> QED
    BY <1>1, <2>1, Zenon DEF WireInit, Filled
<1>2. CASE kind = "contract" \/ kind = "command"
  BY <1>2 DEF Filled
<1> QED
  BY <1>1, <1>2, Zenon DEF WireInit

\* Bytes come in one at a time.
LEMMA FilledReceive == Filled /\ Receive => Filled'
<1> SUFFICES ASSUME Filled, Receive PROVE Filled'
  OBVIOUS
<1>1. kind \in DOMAIN Alphabet /\ kind' = kind /\ sent' = sent
  BY Zenon DEF Receive
<1>2. PICK c \in Alphabet[kind] : text' = Append(text, c)
  BY Zenon DEF Receive
<1>3. kind' # "packet"
  BY <1>1, WireAssumption, SMT DEF WireAssumption
<1>4. ASSUME kind' \in {"utf8", "filter", "header", "body"} PROVE text' \in Seq(Byte)
  <2>1. kind \in {"utf8", "filter", "header", "body"}
    BY <1>1, <1>4
  <2>2. text \in Seq(Byte)
    BY <2>1, Zenon DEF Filled
  <2>3. c \in Byte
    BY <2>1, AlphabetsAndMessages, Zenon
  <2> QED
    BY <1>2, <2>2, <2>3
<1> QED
  BY <1>3, <1>4, Zenon DEF Filled

\* A message is sent once, from an empty buffer.
LEMMA FilledSend == Filled /\ Send => Filled'
<1> SUFFICES ASSUME Filled, Send PROVE Filled'
  OBVIOUS
<1>1. kind' = "packet" /\ sent' \in Messages /\ text' = <<>>
  <2>1. kind = "packet" /\ sent = NoMessage /\ sent' \in Messages /\ kind' = kind /\ text' = text
    BY Zenon DEF Send
  <2>2. sent \notin Messages \/ text = <<>>
    <3>1. ASSUME sent \in Messages PROVE FALSE
      <4>1. IsMessage(sent)
        BY <3>1, AlphabetsAndMessages, Zenon
      <4>2. sent.type = "none"
        BY <2>1 DEF NoMessage
      <4> QED
        BY <4>1, <4>2 DEF IsMessage
    <3> QED
      BY <3>1
  <2>3. text = <<>>
    BY <2>1, <2>2, Zenon DEF Filled
  <2> QED
    BY <2>1, <2>3
<1>2. ASSUME sent'.type # "SUBSCRIBE"
      PROVE  \E k \in 0 .. Len(Encode(sent', sent'.cap)) :
                text' = SubSeq(Encode(sent', sent'.cap), 1, k)
  <2> DEFINE wire == Encode(sent', sent'.cap)
  <2>1. wire \in Seq(Byte)
    BY <1>1, <1>2, MessagesCoded, Zenon
  <2> HIDE DEF wire
  <2>2. 0 \in 0 .. Len(wire) /\ SubSeq(wire, 1, 0) = <<>>
    BY <2>1
  <2> QED
    BY <1>1, <2>2, Zenon DEF wire
<1>3. kind' \notin {"utf8", "filter", "header", "body"}
  BY <1>1
<1> QED
  BY <1>1, <1>2, <1>3, Zenon DEF Filled

\* A packet arrives in order.
LEMMA FilledArrive == Filled /\ Arrive => Filled'
<1> SUFFICES ASSUME Filled, Arrive PROVE Filled'
  OBVIOUS
<1> DEFINE wire == Encode(sent, sent.cap)
           next == IF Len(text) < 4 THEN Len(text) + 1 ELSE Len(wire)
<1>1. /\ kind = "packet" /\ sent # NoMessage /\ kind' = kind /\ sent' = sent
      /\ Len(text) < Len(wire) /\ text' = SubSeq(wire, 1, next)
  BY Zenon DEF Arrive
<1>2. /\ sent \in Messages
      /\ sent.type # "SUBSCRIBE" => \E k \in 0 .. Len(wire) : text = SubSeq(wire, 1, k)
  BY <1>1, Zenon DEF Filled
<1>3. ASSUME sent.type # "SUBSCRIBE" PROVE next \in 0 .. Len(wire)
  <2>1. wire \in Seq(Byte)
    BY <1>2, <1>3, MessagesCoded, Zenon
  <2>2. PICK k \in 0 .. Len(wire) : text = SubSeq(wire, 1, k)
    BY <1>2, <1>3, Zenon
  <2> HIDE DEF wire
  <2>3. Len(text) \in Nat
    BY <2>1, <2>2
  <2> QED
    BY <1>1, <2>1, <2>3
<1>4. sent'.type # "SUBSCRIBE" =>
        \E k \in 0 .. Len(Encode(sent', sent'.cap)) : text' = SubSeq(Encode(sent', sent'.cap), 1, k)
  <2> HIDE DEF next
  <2> QED
    BY <1>1, <1>3, Zenon
<1>5. kind' \notin {"utf8", "filter", "header", "body"} /\ sent' \in Messages
  BY <1>1, <1>2
<1> QED
  BY <1>4, <1>5, Zenon DEF Filled

\* The buffer holds bytes, or a prefix of the packet on the way, in every state of
\* WireSpec: the inductive invariant of the two theorems that follow.
THEOREM BufferFilled == WireSpec => []Filled
<1>1. WireInit => Filled
  BY FilledInit
<1>2. Filled /\ [WireNext]_wireVars => Filled'
  <2> SUFFICES ASSUME Filled, [WireNext]_wireVars PROVE Filled'
    OBVIOUS
  <2>1. CASE Receive
    BY <2>1, FilledReceive
  <2>2. CASE Send
    BY <2>2, FilledSend
  <2>3. CASE Arrive
    BY <2>3, FilledArrive
  <2>4. CASE Edit
    <3>1. kind' = "command"
      BY <2>4, Zenon DEF Edit
    <3> QED
      BY <3>1 DEF Filled
  <2>5. CASE UNCHANGED wireVars
    <3>1. kind' = kind /\ text' = text /\ sent' = sent
      BY <2>5, Zenon DEF wireVars
    <3> QED
      BY <3>1, Zenon DEF Filled
  <2> QED
    BY <2>1, <2>2, <2>3, <2>4, <2>5, Zenon DEF WireNext
<1> QED
  BY <1>1, <1>2, PTL DEF WireSpec

\* On every byte string of every length the scans of mqtt_utf8.c accept exactly
\* the texts and filters of the definition by code points and levels.
THEOREM TextsAlwaysAgree == WireSpec => []TextsAgree
<1>1. Filled => TextsAgree
  <2> SUFFICES ASSUME Filled PROVE TextsAgree
    OBVIOUS
  <2>1. ASSUME kind = "utf8" PROVE Valid(text) <=> IsText(text)
    <3>1. text \in Seq(Byte)
      BY <2>1, Zenon DEF Filled
    <3> QED
      BY <3>1, ValidIsText, Zenon
  <2>2. ASSUME kind = "filter"
        PROVE  IsValidTopicFilter(text) <=>
                 Len(text) <= MaxTopicLength /\ IsText(text) /\ IsFilter(text)
    <3>1. text \in Seq(Byte)
      BY <2>2, Zenon DEF Filled
    <3> QED
      BY <3>1, FilterIsLevels, Zenon
  <2> QED
    BY <2>1, <2>2, Zenon DEF TextsAgree
<1> QED
  BY <1>1, BufferFilled, PTL

\* Whatever the client encodes and the decoders read, of whatever length: written
\* whole or not at all, its head recognised when it is complete and not before,
\* read back as it was sent; a PUBLISH body is accepted exactly when the encoder
\* could have written it (mqtt_codec.c).
THEOREM PacketsAlwaysReadBack == WireSpec => []PacketsReadBack
<1>1. Filled => PacketsReadBack
  <2> SUFFICES ASSUME Filled PROVE PacketsReadBack
    OBVIOUS
  <2>1. ASSUME kind = "packet", sent.type \notin {"none", "SUBSCRIBE"}
        PROVE  FramedAndReadBack(sent)
    <3>1. sent # NoMessage
      BY <2>1 DEF NoMessage
    <3>2. sent.type # "SUBSCRIBE"
      BY <2>1
    <3>3. /\ sent \in Messages
          /\ \E k \in 0 .. Len(Encode(sent, sent.cap)) : text = SubSeq(Encode(sent, sent.cap), 1, k)
      BY <2>1, <3>1, <3>2, Zenon DEF Filled
    <3>4. sent.cap \in Nat /\ Coded(sent)
      BY <3>2, <3>3, MessagesCoded, Zenon
    <3> QED
      BY <3>3, <3>4, Limits, CodedFramed
  <2>2. ASSUME kind = "header" PROVE HeadIsSettled
    <3>1. text \in Seq(Byte)
      BY <2>2, Zenon DEF Filled
    <3> QED
      BY <3>1, Limits, HeadSettles
  <2>3. ASSUME kind = "body", NEW qos \in {0, 1} PROVE BodyWasWritten(qos)
    <3>1. text \in Seq(Byte)
      BY <2>3, Zenon DEF Filled
    <3> QED
      BY <3>1, BodyIsWritten, Zenon
  <2> QED
    BY <2>1, <2>2, <2>3, Zenon DEF PacketsReadBack
<1> QED
  BY <1>1, BufferFilled, PTL

-----------------------------------------------------------------------------
(* Numbers *)

\* Where a scan stops: it takes all it may and no more.
LEMMA SkipStops ==
  ASSUME NEW C, NEW s \in Seq(C), NEW p \in 1 .. (Len(s) + 1), NEW set
  PROVE  LET q == Skip(s, p, set)
         IN  /\ q \in p .. (Len(s) + 1) /\ ~At(s, q, set)
             /\ \A k \in p .. (q - 1) : At(s, k, set)
<1> DEFINE T == {q \in p .. (Len(s) + 1) : ~At(s, q, set)}
<1>1. Len(s) + 1 \in T
  BY DEF At
<1>2. T \in SUBSET Nat /\ T # {}
  BY <1>1
<1>3. PICK q \in T : \A m \in T : q <= m
  BY <1>2, LeastElement
<1>4. \A k \in p .. (q - 1) : At(s, k, set)
  BY <1>3
<1>5. \E r \in p .. (Len(s) + 1) : ~At(s, r, set) /\ \A k \in p .. (r - 1) : At(s, k, set)
  BY <1>3, <1>4
<1> QED
  BY <1>5, Zenon DEF Skip

\* It stops nowhere else.
LEMMA SkipIs ==
  ASSUME NEW C, NEW s \in Seq(C), NEW p \in 1 .. (Len(s) + 1), NEW set,
         NEW q \in p .. (Len(s) + 1), ~At(s, q, set), \A k \in p .. (q - 1) : At(s, k, set)
  PROVE  Skip(s, p, set) = q
<1> DEFINE r == Skip(s, p, set)
<1>1. r \in p .. (Len(s) + 1) /\ ~At(s, r, set) /\ \A k \in p .. (r - 1) : At(s, k, set)
  BY SkipStops, Zenon
<1> HIDE DEF r
<1>2. ~(r < q) /\ ~(q < r)
  BY <1>1
<1> QED
  BY <1>1, <1>2 DEF r

\* The positions a..b of s hold digits, at least one.
DigitsIn(s, a, b) == a <= b /\ \A k \in a .. b : s[k] \in Digits

\* A part of a text, place by place.
LEMMA PartOf ==
  ASSUME NEW C, NEW s \in Seq(C), NEW a \in 1 .. (Len(s) + 1), NEW b \in 0 .. Len(s)
  PROVE  LET w == SubSeq(s, a, b)
         IN  /\ w \in Seq(C)
             /\ Len(w) = IF a <= b THEN b - a + 1 ELSE 0
             /\ w = <<>> <=> b < a
             /\ \A k \in 1 .. Len(w) : w[k] = s[a + k - 1]
             /\ a <= b => w[1] = s[a]
             /\ a < b => w[2] = s[a + 1]
             /\ IsDigits(w) <=> DigitsIn(s, a, b)
<1> DEFINE w == SubSeq(s, a, b)
<1>1. /\ w \in Seq(C) /\ Len(w) = IF a <= b THEN b - a + 1 ELSE 0
      /\ \A k \in 1 .. Len(w) : w[k] = s[a + k - 1]
  BY SubSeqProperties
<1>2. DOMAIN w = 1 .. Len(w) /\ (w = <<>> <=> Len(w) = 0)
  BY <1>1
<1> HIDE DEF w
<1>3. IsDigits(w) <=> b >= a /\ \A k \in 1 .. Len(w) : s[a + k - 1] \in Digits
  <2>1. w # <<>> <=> b >= a
    BY <1>1, <1>2
  <2>2. (\A k \in DOMAIN w : w[k] \in Digits) <=> \A k \in 1 .. Len(w) : s[a + k - 1] \in Digits
    BY <1>1, <1>2
  <2> QED
    BY <2>1, <2>2, Zenon DEF IsDigits
<1>4. ASSUME a <= b
      PROVE  (\A k \in 1 .. Len(w) : s[a + k - 1] \in Digits) <=> \A k \in a .. b : s[k] \in Digits
  <2>1. \A k \in 1 .. Len(w) : a + k - 1 \in a .. b
    BY <1>1, <1>4
  <2>2. \A k \in a .. b : (k - a + 1) \in 1 .. Len(w) /\ a + (k - a + 1) - 1 = k
    BY <1>1, <1>4
  <2> QED
    BY <2>1, <2>2
<1>5. IsDigits(w) <=> DigitsIn(s, a, b)
  BY <1>3, <1>4 DEF DigitsIn
<1> QED
  BY <1>1, <1>2, <1>5 DEF w

\* The digits of a part of a part, by their place in the whole.
LEMMA PartOfPart ==
  ASSUME NEW C, NEW s \in Seq(C), NEW a \in 1 .. Len(s), NEW b \in a .. Len(s)
  PROVE  LET w == SubSeq(s, a, b)
         IN  /\ IsDigits(Tail(w)) <=> DigitsIn(s, a + 1, b)
             /\ a < b => (IsDigits(SubSeq(w, 3, Len(w))) <=> DigitsIn(s, a + 2, b))
<1> DEFINE w == SubSeq(s, a, b)
           n == b - a + 1
<1>1. w \in Seq(C) /\ Len(w) = n /\ n \in Nat /\ n >= 1 /\ \A k \in 1 .. n : w[k] = s[a + k - 1]
  BY PartOf
<1> HIDE DEF w
<1>2. ASSUME NEW m \in 2 .. 3, m <= n + 1
      PROVE  DigitsIn(w, m, n) <=> DigitsIn(s, a + m - 1, b)
  <2>1. m <= n <=> a + m - 1 <= b
    OBVIOUS
  <2>2. \A k \in m .. n : a + k - 1 \in (a + m - 1) .. b /\ w[k] = s[a + k - 1]
    BY <1>1, <1>2
  <2>3. \A k \in (a + m - 1) .. b : (k - a + 1) \in m .. n /\ a + (k - a + 1) - 1 = k
    OBVIOUS
  <2> HIDE DEF n
  <2> QED
    BY <2>1, <2>2, <2>3 DEF DigitsIn
<1>3. IsDigits(Tail(w)) <=> DigitsIn(w, 2, n)
  <2>1. SubSeq(w, 2, n) \in Seq(C) /\ Tail(w) \in Seq(C) /\ Len(SubSeq(w, 2, n)) = n - 1
    BY <1>1, SubSeqProperties
  <2>2. Len(Tail(w)) = n - 1 /\ \A k \in 1 .. (n - 1) : Tail(w)[k] = w[k + 1]
    BY <1>1
  <2>3. \A k \in 1 .. (n - 1) : SubSeq(w, 2, n)[k] = w[2 + k - 1] /\ 2 + k - 1 = k + 1
    BY <1>1, SubSeqProperties
  <2>4. \A k \in 1 .. (n - 1) : SubSeq(w, 2, n)[k] = Tail(w)[k]
    BY <2>2, <2>3
  <2>5. Tail(w) = SubSeq(w, 2, n)
    BY <2>1, <2>2, <2>4, SeqEqual
  <2>6. 2 \in 1 .. (Len(w) + 1) /\ n \in 0 .. Len(w)
    BY <1>1
  <2>7. IsDigits(SubSeq(w, 2, n)) <=> DigitsIn(w, 2, n)
    BY <1>1, <2>6, PartOf
  <2> QED
    BY <2>5, <2>7
<1>4. ASSUME a < b PROVE IsDigits(SubSeq(w, 3, n)) <=> DigitsIn(w, 3, n)
  BY <1>1, <1>4, PartOf
<1>5. DigitsIn(w, 2, n) <=> DigitsIn(s, a + 1, b)
  BY <1>1, <1>2
<1>6. a < b => (DigitsIn(w, 3, n) <=> DigitsIn(s, a + 2, b))
  BY <1>1, <1>2
<1> HIDE DEF n
<1> QED
  BY <1>1, <1>3, <1>4, <1>5, <1>6 DEF w

\* A number written at the places a scan finds: the sign ends at i, the integer at j,
\* the fraction at k.
Numeral(s, i, j, k) ==
  /\ i = 1 => s[1] = "-"
  /\ DigitsIn(s, i + 1, j) /\ (s[i + 1] = "0" => j = i + 1)
  /\ k = j \/ (j < k /\ s[j + 1] = "." /\ DigitsIn(s, j + 2, k))
  /\ \/ k = Len(s)
     \/ s[k + 1] = "e" /\ DigitsIn(s, k + 2, Len(s))
     \/ s[k + 1] = "e" /\ k + 1 < Len(s) /\ s[k + 2] \in {"+", "-"} /\ DigitsIn(s, k + 3, Len(s))

\* What it takes for each of the four parts of a number to be well formed.
LEMMA NumeralParts ==
  ASSUME NEW C, NEW s \in Seq(C), NEW i \in 0 .. 1, NEW j \in 1 .. Len(s), NEW k \in 1 .. Len(s)
  PROVE  /\ SubSeq(s, 1, i) \in {<<>>, <<"-">>} <=> (i = 1 => s[1] = "-")
         /\ IsInt(SubSeq(s, i + 1, j)) <=> DigitsIn(s, i + 1, j) /\ (s[i + 1] = "0" => j = i + 1)
         /\ IsFrac(SubSeq(s, j + 1, k)) <=>
              (k <= j \/ (j < k /\ s[j + 1] = "." /\ DigitsIn(s, j + 2, k)))
         /\ IsExp(SubSeq(s, k + 1, Len(s))) <=>
              \/ k = Len(s)
              \/ s[k + 1] = "e" /\ DigitsIn(s, k + 2, Len(s))
              \/ s[k + 1] = "e" /\ k + 1 < Len(s) /\ s[k + 2] \in {"+", "-"} /\ DigitsIn(s, k + 3, Len(s))
<1>0. Len(s) \in Nat /\ Len(s) >= 1
  OBVIOUS
<1>1. SubSeq(s, 1, i) \in {<<>>, <<"-">>} <=> (i = 1 => s[1] = "-")
  <2>1. CASE i = 0
    <3>1. SubSeq(s, 1, i) = <<>>
      BY <2>1, <1>0, PartOf
    <3> QED
      BY <2>1, <3>1
  <2>2. CASE i = 1
    <3>1. SubSeq(s, 1, i) \in Seq(C) /\ Len(SubSeq(s, 1, i)) = 1 /\ SubSeq(s, 1, i)[1] = s[1]
      BY <2>2, <1>0, PartOf
    <3>2. SubSeq(s, 1, i) = <<s[1]>>
      <4>1. <<s[1]>> \in Seq(C) /\ Len(<<s[1]>>) = 1 /\ <<s[1]>>[1] = s[1]
        BY <1>0
      <4> DEFINE u == <<s[1]>>
                 v == SubSeq(s, 1, i)
      <4>2. \A m \in 1 .. 1 : v[m] = u[m]
        BY <3>1, <4>1
      <4> HIDE DEF u, v
      <4>3. Len(v) = Len(u) /\ v \in Seq(C) /\ u \in Seq(C) /\ \A m \in 1 .. Len(u) : v[m] = u[m]
        BY <3>1, <4>1, <4>2 DEF u, v
      <4>4. v = u
        BY <4>3, SeqEqual
      <4> QED
        BY <4>4 DEF u, v
    <3>3. <<s[1]>> = <<"-">> <=> s[1] = "-"
      OBVIOUS
    <3> QED
      BY <2>2, <3>2, <3>3
  <2>3. i = 0 \/ i = 1
    OBVIOUS
  <2> QED
    BY <2>1, <2>2, <2>3, Zenon
<1>2. IsInt(SubSeq(s, i + 1, j)) <=> DigitsIn(s, i + 1, j) /\ (s[i + 1] = "0" => j = i + 1)
  <2> DEFINE w == SubSeq(s, i + 1, j)
  <2>1. /\ Len(w) = IF i + 1 <= j THEN j - (i + 1) + 1 ELSE 0
        /\ i + 1 <= j => w[1] = s[i + 1]
        /\ IsDigits(w) <=> DigitsIn(s, i + 1, j)
    <3>1. i + 1 \in 1 .. (Len(s) + 1) /\ j \in 0 .. Len(s)
      BY <1>0
    <3> QED
      BY <3>1, PartOf
  <2>2. DigitsIn(s, i + 1, j) => i + 1 <= j
    BY DEF DigitsIn
  <2> HIDE DEF w
  <2>3. IsInt(w) <=> IsDigits(w) /\ (w[1] = "0" => Len(w) = 1)
    BY Zenon DEF IsInt
  <2>4. i + 1 <= j => (Len(w) = 1 <=> j = i + 1)
    BY <2>1
  <2> QED
    BY <2>1, <2>2, <2>3, <2>4 DEF w
<1>3. IsFrac(SubSeq(s, j + 1, k)) <=>
              (k <= j \/ (j < k /\ s[j + 1] = "." /\ DigitsIn(s, j + 2, k)))
  <2> DEFINE w == SubSeq(s, j + 1, k)
  <2>1. (w = <<>> <=> k < j + 1) /\ (j + 1 <= k => w[1] = s[j + 1])
    <3>1. j + 1 \in 1 .. (Len(s) + 1) /\ k \in 0 .. Len(s)
      BY <1>0
    <3> QED
      BY <3>1, PartOf
  <2>2. j < k => (IsDigits(Tail(w)) <=> DigitsIn(s, j + 2, k))
    <3>1. SUFFICES ASSUME j < k PROVE IsDigits(Tail(w)) <=> DigitsIn(s, j + 2, k)
      OBVIOUS
    <3>2. j + 1 \in 1 .. Len(s) /\ k \in (j + 1) .. Len(s) /\ j + 1 + 1 = j + 2
      BY <3>1
    <3> QED
      BY <3>2, PartOfPart
  <2> HIDE DEF w
  <2>3. IsFrac(w) <=> w = <<>> \/ (w[1] = "." /\ IsDigits(Tail(w)))
    BY Zenon DEF IsFrac
  <2> QED
    BY <2>1, <2>2, <2>3 DEF w
<1>4. IsExp(SubSeq(s, k + 1, Len(s))) <=>
              \/ k = Len(s)
              \/ s[k + 1] = "e" /\ DigitsIn(s, k + 2, Len(s))
              \/ s[k + 1] = "e" /\ k + 1 < Len(s) /\ s[k + 2] \in {"+", "-"} /\ DigitsIn(s, k + 3, Len(s))
  <2> DEFINE w == SubSeq(s, k + 1, Len(s))
             D2 == DigitsIn(s, k + 2, Len(s))
             D3 == DigitsIn(s, k + 3, Len(s))
  <2>1. /\ w = <<>> <=> Len(s) < k + 1
        /\ k + 1 <= Len(s) => w[1] = s[k + 1] /\ (Len(w) > 1 <=> k + 1 < Len(s))
        /\ k + 1 < Len(s) => w[2] = s[k + 2]
    <3>1. k + 1 \in 1 .. (Len(s) + 1) /\ Len(s) \in 0 .. Len(s) /\ k + 1 + 1 = k + 2
      BY <1>0
    <3>2. Len(w) = IF k + 1 <= Len(s) THEN Len(s) - (k + 1) + 1 ELSE 0
      BY <3>1, PartOf
    <3>3. /\ w = <<>> <=> Len(s) < k + 1
          /\ k + 1 <= Len(s) => w[1] = s[k + 1]
          /\ k + 1 < Len(s) => w[2] = s[k + 1 + 1]
      BY <3>1, PartOf
    <3> HIDE DEF w
    <3> QED
      BY <3>1, <3>2, <3>3
  <2>2. k < Len(s) => /\ IsDigits(Tail(w)) <=> D2
                      /\ k + 1 < Len(s) => (IsDigits(SubSeq(w, 3, Len(w))) <=> D3)
    <3>1. SUFFICES ASSUME k < Len(s)
                   PROVE  /\ IsDigits(Tail(w)) <=> D2
                          /\ k + 1 < Len(s) => (IsDigits(SubSeq(w, 3, Len(w))) <=> D3)
      BY Zenon
    <3>2. k + 1 \in 1 .. Len(s) /\ Len(s) \in (k + 1) .. Len(s) /\ k + 1 + 1 = k + 2 /\ k + 1 + 2 = k + 3
      BY <3>1
    <3> QED
      BY <3>2, PartOfPart
  <2>5. D2 => k + 2 <= Len(s)
    BY DEF DigitsIn
  <2> HIDE DEF w, D2, D3
  <2>3. IsExp(w) <=> \/ w = <<>>
                     \/ w[1] = "e" /\ IsDigits(Tail(w))
                     \/ w[1] = "e" /\ Len(w) > 1 /\ w[2] \in {"+", "-"} /\ IsDigits(SubSeq(w, 3, Len(w)))
    BY Zenon DEF IsExp
  <2>4. IsExp(w) <=> \/ k = Len(s)
                     \/ s[k + 1] = "e" /\ D2
                     \/ s[k + 1] = "e" /\ k + 1 < Len(s) /\ s[k + 2] \in {"+", "-"} /\ D3
    <3>1. CASE k = Len(s)
      BY <1>0, <2>1, <2>3, <3>1
    <3>2. CASE k < Len(s)
      BY <1>0, <2>1, <2>2, <2>3, <3>2
    <3> QED
      BY <3>1, <3>2
  <2> QED
    BY <2>4 DEF w, D2, D3
<1> QED
  BY <1>1, <1>2, <1>3, <1>4

\* The characters of a number that are no digits.
LEMMA DigitFacts ==
  "0" \in Digits /\ "-" \notin Digits /\ "+" \notin Digits /\ "." \notin Digits /\ "e" \notin Digits
BY DEF Digits

\* The grammar of numbers, by the places a scan finds.
LEMMA NumberIsNumeral ==
  ASSUME NEW C, NEW s \in Seq(C)
  PROVE  IsNumber(s) <=> \E i \in 0 .. 1, j, k \in 1 .. Len(s) : Numeral(s, i, j, k)
<1>1. ASSUME NEW i \in 0 .. 1, NEW j \in 1 .. Len(s), NEW k \in 1 .. Len(s)
      PROVE  (/\ SubSeq(s, 1, i) \in {<<>>, <<"-">>}
              /\ IsInt(SubSeq(s, i + 1, j))
              /\ IsFrac(SubSeq(s, j + 1, k))
              /\ IsExp(SubSeq(s, k + 1, Len(s)))) <=> Numeral(s, i, j, k)
  <2> DEFINE A == SubSeq(s, 1, i) \in {<<>>, <<"-">>}
             B == IsInt(SubSeq(s, i + 1, j))
             F == IsFrac(SubSeq(s, j + 1, k))
             X == IsExp(SubSeq(s, k + 1, Len(s)))
             D == DigitsIn(s, i + 1, j)
             E2 == DigitsIn(s, k + 2, Len(s))
             E3 == DigitsIn(s, k + 3, Len(s))
             F2 == DigitsIn(s, j + 2, k)
  <2>1. /\ A <=> (i = 1 => s[1] = "-")
        /\ B <=> D /\ (s[i + 1] = "0" => j = i + 1)
        /\ F <=> (k <= j \/ (j < k /\ s[j + 1] = "." /\ F2))
        /\ X <=> \/ k = Len(s)
                 \/ s[k + 1] = "e" /\ E2
                 \/ s[k + 1] = "e" /\ k + 1 < Len(s) /\ s[k + 2] \in {"+", "-"} /\ E3
    BY NumeralParts
  <2>2. D => \A m \in (i + 1) .. j : s[m] \in Digits
    BY DEF DigitsIn
  <2>3. ASSUME k < j, D PROVE ~X
    <3>1. k + 1 \in (i + 1) .. j
      BY <2>3
    <3>2. s[k + 1] \in Digits
      BY <2>2, <2>3, <3>1
    <3>3. s[k + 1] # "e"
      BY <3>2, DigitFacts
    <3>4. k # Len(s)
      BY <2>3
    <3> HIDE DEF X, E2, E3
    <3> QED
      BY <2>1, <3>3, <3>4
  <2>4. Numeral(s, i, j, k) <=>
          /\ i = 1 => s[1] = "-"
          /\ D /\ (s[i + 1] = "0" => j = i + 1)
          /\ k = j \/ (j < k /\ s[j + 1] = "." /\ F2)
          /\ \/ k = Len(s)
             \/ s[k + 1] = "e" /\ E2
             \/ s[k + 1] = "e" /\ k + 1 < Len(s) /\ s[k + 2] \in {"+", "-"} /\ E3
    BY Zenon DEF Numeral
  <2>5. k <= j <=> k < j \/ k = j
    OBVIOUS
  <2> HIDE DEF A, B, F, X, D, E2, E3, F2
  <2>6. A /\ B /\ F /\ X <=> Numeral(s, i, j, k)
    BY <2>1, <2>3, <2>4, <2>5
  <2> QED
    BY <2>6 DEF A, B, F, X
<1> QED
  BY <1>1, Zenon DEF IsNumber

\* A numeral is scanned to its end.
LEMMA NumeralIsScanned ==
  ASSUME NEW C, NEW s \in Seq(C), NEW i \in 0 .. 1, NEW j \in 1 .. Len(s), NEW k \in 1 .. Len(s),
         Numeral(s, i, j, k)
  PROVE  ScanNumberRegion(s, 1) = Len(s) + 1
<1> DEFINE sign == IF At(s, 1, {"-"}) THEN 1 + 1 ELSE 1
           int  == IF At(s, sign, Digits \ {"0"}) THEN Skip(s, sign, Digits)
                   ELSE IF At(s, sign, {"0"}) THEN sign + 1 ELSE 0
           frac == IF int = 0 THEN 0
                   ELSE IF ~At(s, int, {"."}) THEN int
                   ELSE IF At(s, int + 1, Digits) THEN Skip(s, int + 1, Digits)
                   ELSE 0
           exp  == IF At(s, frac + 1, {"+", "-"}) THEN frac + 2 ELSE frac + 1
<1>1. ScanNumberRegion(s, 1) =
        IF frac = 0 \/ ~At(s, frac, {"e"}) THEN frac
        ELSE IF At(s, exp, Digits) THEN Skip(s, exp, Digits) ELSE 0
  BY DEF ScanNumberRegion
<1>2. /\ i + 1 <= j /\ \A m \in (i + 1) .. j : s[m] \in Digits
      /\ s[i + 1] = "0" => j = i + 1
      /\ i = 1 => s[1] = "-"
  BY DEF Numeral, DigitsIn
<1>3. sign = i + 1 /\ s[i + 1] \in Digits
  BY <1>2, DigitFacts DEF At
<1>4. \/ k = j
      \/ j + 2 <= k /\ s[j + 1] = "." /\ \A m \in (j + 2) .. k : s[m] \in Digits
  BY DEF Numeral, DigitsIn
<1>5. \/ k = Len(s)
      \/ s[k + 1] = "e" /\ k + 2 <= Len(s) /\ \A m \in (k + 2) .. Len(s) : s[m] \in Digits
      \/ s[k + 1] = "e" /\ k + 3 <= Len(s) /\ s[k + 2] \in {"+", "-"}
           /\ \A m \in (k + 3) .. Len(s) : s[m] \in Digits
  BY DEF Numeral, DigitsIn
<1>6. ~At(s, j + 1, Digits)
  BY <1>4, <1>5, DigitFacts DEF At
<1>7. ~At(s, k + 1, Digits)
  BY <1>5, DigitFacts DEF At
<1> HIDE DEF sign
<1>8. int = j + 1
  <2>1. CASE s[i + 1] = "0"
    <3>1. ~At(s, sign, Digits \ {"0"}) /\ At(s, sign, {"0"})
      BY <1>2, <1>3, <2>1 DEF At
    <3> QED
      BY <1>2, <1>3, <2>1, <3>1
  <2>2. CASE s[i + 1] # "0"
    <3>1. At(s, sign, Digits \ {"0"})
      BY <1>2, <1>3, <2>2 DEF At
    <3>2. \A m \in sign .. (j + 1 - 1) : At(s, m, Digits)
      BY <1>2, <1>3 DEF At
    <3>3. sign \in 1 .. (Len(s) + 1) /\ j + 1 \in sign .. (Len(s) + 1)
      BY <1>2, <1>3
    <3>4. Skip(s, sign, Digits) = j + 1
      BY <1>6, <3>2, <3>3, SkipIs
    <3> QED
      BY <3>1, <3>4
  <2> QED
    BY <2>1, <2>2
<1> HIDE DEF int
<1>9. frac = k + 1
  <2>1. CASE k = j
    <3>1. ~At(s, int, {"."})
      BY <1>5, <1>8, <2>1 DEF At
    <3> QED
      BY <1>8, <2>1, <3>1
  <2>2. CASE j + 2 <= k /\ s[j + 1] = "." /\ \A m \in (j + 2) .. k : s[m] \in Digits
    <3>1. At(s, int, {"."}) /\ At(s, int + 1, Digits)
      BY <1>8, <2>2 DEF At
    <3>2. \A m \in (int + 1) .. (k + 1 - 1) : At(s, m, Digits)
      BY <1>8, <2>2 DEF At
    <3>3. int + 1 \in 1 .. (Len(s) + 1) /\ k + 1 \in (int + 1) .. (Len(s) + 1)
      BY <1>8, <2>2
    <3>4. Skip(s, int + 1, Digits) = k + 1
      BY <1>7, <3>2, <3>3, SkipIs
    <3> QED
      BY <1>8, <3>1, <3>4
  <2> QED
    BY <1>4, <2>1, <2>2
<1> HIDE DEF frac
<1>10. CASE k = Len(s)
  <2>1. ~At(s, frac, {"e"})
    BY <1>9, <1>10 DEF At
  <2> QED
    BY <1>1, <1>9, <1>10, <2>1
<1>11. ASSUME k < Len(s)
       PROVE  ScanNumberRegion(s, 1) = Len(s) + 1
  <2>1. At(s, frac, {"e"}) /\ frac # 0
    BY <1>5, <1>9, <1>11 DEF At
  <2>2. /\ exp \in 1 .. Len(s) /\ \A m \in exp .. Len(s) : s[m] \in Digits
    <3>1. CASE s[k + 1] = "e" /\ k + 2 <= Len(s) /\ \A m \in (k + 2) .. Len(s) : s[m] \in Digits
      <4>1. s[k + 2] \in Digits
        BY <3>1
      <4>2. ~At(s, frac + 1, {"+", "-"})
        BY <1>9, <4>1, DigitFacts DEF At
      <4>3. exp = k + 2
        BY <1>9, <4>2
      <4> HIDE DEF exp
      <4> QED
        BY <3>1, <4>3
    <3>2. CASE s[k + 1] = "e" /\ k + 3 <= Len(s) /\ s[k + 2] \in {"+", "-"}
                 /\ \A m \in (k + 3) .. Len(s) : s[m] \in Digits
      <4>1. At(s, frac + 1, {"+", "-"})
        BY <1>9, <3>2 DEF At
      <4>2. exp = k + 3
        BY <1>9, <4>1
      <4> HIDE DEF exp
      <4> QED
        BY <3>2, <4>2
    <3> QED
      BY <1>5, <1>11, <3>1, <3>2
  <2> HIDE DEF exp
  <2>3. At(s, exp, Digits)
    BY <2>2 DEF At
  <2>4. \A m \in exp .. (Len(s) + 1 - 1) : At(s, m, Digits)
    BY <2>2 DEF At
  <2>5. ~At(s, Len(s) + 1, Digits) /\ Len(s) + 1 \in exp .. (Len(s) + 1) /\ exp \in 1 .. (Len(s) + 1)
    BY <2>2 DEF At
  <2>6. Skip(s, exp, Digits) = Len(s) + 1
    BY <2>4, <2>5, SkipIs
  <2> QED
    BY <1>1, <2>1, <2>3, <2>6
<1> QED
  BY <1>10, <1>11

\* What is scanned to its end is a numeral.
LEMMA ScannedIsNumeral ==
  ASSUME NEW C, NEW s \in Seq(C), ScanNumberRegion(s, 1) = Len(s) + 1
  PROVE  \E i \in 0 .. 1, j \in 1 .. Len(s), k \in 1 .. Len(s) : Numeral(s, i, j, k)
<1> DEFINE sign == IF At(s, 1, {"-"}) THEN 1 + 1 ELSE 1
           int  == IF At(s, sign, Digits \ {"0"}) THEN Skip(s, sign, Digits)
                   ELSE IF At(s, sign, {"0"}) THEN sign + 1 ELSE 0
           frac == IF int = 0 THEN 0
                   ELSE IF ~At(s, int, {"."}) THEN int
                   ELSE IF At(s, int + 1, Digits) THEN Skip(s, int + 1, Digits)
                   ELSE 0
           exp  == IF At(s, frac + 1, {"+", "-"}) THEN frac + 2 ELSE frac + 1
           n    == Len(s)
<1>1. n + 1 =
        IF frac = 0 \/ ~At(s, frac, {"e"}) THEN frac
        ELSE IF At(s, exp, Digits) THEN Skip(s, exp, Digits) ELSE 0
  BY DEF ScanNumberRegion
<1>2. n \in Nat
  OBVIOUS
<1>3. sign \in {1, 2} /\ (sign = 2 => s[1] = "-" /\ n >= 1) /\ sign \in 1 .. (n + 1)
  BY DEF At
<1> HIDE DEF sign
<1>4. int # 0 /\ frac # 0
  <2> HIDE DEF exp
  <2>1. frac # 0
    BY <1>1, <1>2
  <2> QED
    BY <2>1
<1>5. /\ int \in (sign + 1) .. (n + 1)
      /\ \A m \in sign .. (int - 1) : s[m] \in Digits
      /\ s[sign] = "0" => int = sign + 1
  <2>1. CASE At(s, sign, Digits \ {"0"})
    <3> DEFINE q == Skip(s, sign, Digits)
    <3>1. q \in sign .. (n + 1) /\ ~At(s, q, Digits) /\ \A m \in sign .. (q - 1) : At(s, m, Digits)
      BY <1>3, SkipStops, Zenon
    <3>2. int = q
      BY <2>1
    <3> HIDE DEF q, int
    <3>3. q # sign /\ s[sign] # "0"
      BY <2>1, <3>1 DEF At
    <3> QED
      BY <1>2, <1>3, <3>1, <3>2, <3>3 DEF At
  <2>2. CASE ~At(s, sign, Digits \ {"0"})
    <3>1. At(s, sign, {"0"}) /\ int = sign + 1
      BY <1>4, <2>2
    <3> HIDE DEF int
    <3> QED
      BY <1>2, <1>3, <3>1, DigitFacts DEF At
  <2> QED
    BY <2>1, <2>2
<1> HIDE DEF int
<1>6. /\ frac \in int .. (n + 1)
      /\ \/ frac = int
         \/ /\ int + 2 <= frac /\ s[int] = "."
            /\ \A m \in (int + 1) .. (frac - 1) : s[m] \in Digits
  <2>1. CASE ~At(s, int, {"."})
    <3>1. frac = int
      BY <1>4, <2>1
    <3> QED
      BY <1>3, <1>5, <3>1
  <2>2. CASE At(s, int, {"."})
    <3> DEFINE q == Skip(s, int + 1, Digits)
    <3>1. At(s, int + 1, Digits) /\ frac = q
      BY <1>4, <2>2
    <3>2. int + 1 \in 1 .. (n + 1)
      BY <1>3, <1>5, <2>2 DEF At
    <3>3. q \in (int + 1) .. (n + 1) /\ ~At(s, q, Digits) /\ \A m \in (int + 1) .. (q - 1) : At(s, m, Digits)
      BY <3>2, SkipStops, Zenon
    <3> HIDE DEF q, frac
    <3>4. q # int + 1
      BY <3>1, <3>3
    <3> QED
      BY <1>2, <1>3, <1>5, <2>2, <3>1, <3>3, <3>4 DEF At
  <2> QED
    BY <2>1, <2>2
<1> HIDE DEF frac
<1>7. \/ frac = n + 1
      \/ s[frac] = "e" /\ frac + 1 <= n /\ \A m \in (frac + 1) .. n : s[m] \in Digits
      \/ s[frac] = "e" /\ frac + 2 <= n /\ s[frac + 1] \in {"+", "-"}
            /\ \A m \in (frac + 2) .. n : s[m] \in Digits
  <2>1. CASE ~At(s, frac, {"e"})
    <3>1. n + 1 = frac
      BY <1>1, <1>4, <2>1
    <3> QED
      BY <3>1
  <2>2. CASE At(s, frac, {"e"})
    <3> DEFINE q == Skip(s, exp, Digits)
    <3>1. n + 1 = IF At(s, exp, Digits) THEN q ELSE 0
      BY <1>1, <1>4, <2>2
    <3>2. exp \in {frac + 1, frac + 2} /\ (exp = frac + 2 => s[frac + 1] \in {"+", "-"})
      BY <1>3, <1>5, <1>6 DEF At
    <3> HIDE DEF exp, q
    <3>3. At(s, exp, Digits) /\ q = n + 1
      BY <1>2, <3>1
    <3>4. exp \in 1 .. (n + 1) /\ exp <= n
      BY <1>3, <1>5, <1>6, <3>2, <3>3 DEF At
    <3>5. \A m \in exp .. (q - 1) : At(s, m, Digits)
      BY <3>4, SkipStops, Zenon DEF q
    <3>6. \A m \in exp .. n : s[m] \in Digits
      BY <1>2, <3>3, <3>5 DEF At
    <3>7. s[frac] = "e"
      BY <2>2 DEF At
    <3>8. CASE exp = frac + 1
      BY <3>4, <3>6, <3>7, <3>8
    <3>9. CASE exp = frac + 2
      BY <3>2, <3>4, <3>6, <3>7, <3>9
    <3> QED
      BY <3>2, <3>8, <3>9
  <2> QED
    BY <2>1, <2>2
<1> DEFINE i == sign - 1
           j == int - 1
           k == frac - 1
<1>8. /\ i \in 0 .. 1 /\ j \in 1 .. n /\ k \in 1 .. n
      /\ i + 1 = sign /\ j + 1 = int /\ k + 1 = frac /\ j + 2 = int + 1
      /\ k + 2 = frac + 1 /\ k + 3 = frac + 2
  BY <1>2, <1>3, <1>5, <1>6
<1>9. i = 1 => s[1] = "-"
  BY <1>3
<1>10. DigitsIn(s, i + 1, j) /\ (s[i + 1] = "0" => j = i + 1)
  BY <1>3, <1>5, <1>8 DEF DigitsIn
<1>11. k = j \/ (j < k /\ s[j + 1] = "." /\ DigitsIn(s, j + 2, k))
  <2>1. CASE frac = int
    BY <2>1
  <2>2. CASE int + 2 <= frac /\ s[int] = "." /\ \A m \in (int + 1) .. (frac - 1) : s[m] \in Digits
    BY <1>8, <2>2 DEF DigitsIn
  <2> QED
    BY <1>6, <2>1, <2>2
<1>12. \/ k = n
       \/ s[k + 1] = "e" /\ DigitsIn(s, k + 2, n)
       \/ s[k + 1] = "e" /\ k + 1 < n /\ s[k + 2] \in {"+", "-"} /\ DigitsIn(s, k + 3, n)
  <2>1. CASE frac = n + 1
    BY <1>2, <2>1
  <2>2. CASE s[frac] = "e" /\ frac + 1 <= n /\ \A m \in (frac + 1) .. n : s[m] \in Digits
    BY <1>8, <2>2 DEF DigitsIn
  <2>3. CASE s[frac] = "e" /\ frac + 2 <= n /\ s[frac + 1] \in {"+", "-"}
            /\ \A m \in (frac + 2) .. n : s[m] \in Digits
    <3>1. k + 1 < n
      BY <1>2, <1>8, <2>3
    <3> HIDE DEF k
    <3> QED
      BY <1>8, <2>3, <3>1 DEF DigitsIn
  <2> QED
    BY <1>7, <2>1, <2>2, <2>3
<1> HIDE DEF i, j, k
<1>13. Numeral(s, i, j, k)
  BY <1>9, <1>10, <1>11, <1>12, Zenon DEF Numeral
<1> QED
  BY <1>8, <1>13, Zenon

\* command_parser.c takes a text of any length for a number exactly when it is one
\* of the grammar (ScanNumberRegion).
THEOREM NumbersAreOfTheGrammar ==
  ASSUME NEW C, NEW s \in Seq(C)
  PROVE  ScanNumberRegion(s, 1) = Len(s) + 1 <=> IsNumber(s)
BY NumberIsNumeral, NumeralIsScanned, ScannedIsNumeral, Zenon

-----------------------------------------------------------------------------
(* Unsigned integers *)

\* f is defined from p to e, at each place from its value one place before.
IsForward(f, p, e, F) == f = [q \in p .. e |-> IF q = p THEN 0 ELSE F[<<q, f[q - 1]>>]]

\* There is such a function.
LEMMA RecursionForward ==
  ASSUME NEW p \in Nat, NEW e \in Nat, p <= e, NEW F
  PROVE  \E f : IsForward(f, p, e, F)
<1> DEFINE Sol(f, n) == f = [q \in p .. n |-> IF q = p THEN 0 ELSE F[<<q, f[q - 1]>>]]
           T == {n \in Nat : p <= n /\ ~ \E f : Sol(f, n)}
<1> SUFFICES ASSUME T # {} PROVE FALSE
  BY Zenon DEF IsForward
<1>1. T \in SUBSET Nat
  OBVIOUS
<1>2. PICK n \in T : \A m \in T : n <= m
  BY <1>1, LeastElement
<1>3. n \in Nat /\ p <= n /\ ~ \E f : Sol(f, n)
  BY <1>2
<1>4. CASE n = p
  <2> DEFINE f == [q \in p .. n |-> 0]
  <2>1. \A q \in p .. n : q = p
    BY <1>4
  <2>2. Sol(f, n)
    BY <2>1
  <2> QED
    BY <1>3, <2>2, Zenon
<1>5. CASE p < n
  <2>1. n - 1 \in Nat /\ p <= n - 1 /\ ~(n <= n - 1)
    BY <1>3, <1>5
  <2>2. n - 1 \notin T
    BY <1>2, <2>1, Zenon
  <2>3. \E g : Sol(g, n - 1)
    BY <2>1, <2>2
  <2>4. PICK g : Sol(g, n - 1)
    BY <2>3
  <2> DEFINE h == [q \in p .. n |-> IF q = n THEN F[<<n, g[n - 1]>>] ELSE g[q]]
  <2>5. \A q \in p .. (n - 1) : g[q] = IF q = p THEN 0 ELSE F[<<q, g[q - 1]>>]
    BY <2>4
  <2>6. \A q \in p .. (n - 1) : h[q] = g[q]
    BY <1>3
  <2>7. h[n] = F[<<n, h[n - 1]>>]
    <3>1. n - 1 \in p .. (n - 1) /\ n \in p .. n
      BY <1>3, <2>1
    <3>2. h[n - 1] = g[n - 1]
      BY <2>6, <3>1
    <3>3. h[n] = F[<<n, g[n - 1]>>]
      BY <3>1
    <3> HIDE DEF h
    <3> QED
      BY <3>2, <3>3
  <2>8. \A q \in p .. n : h[q] = IF q = p THEN 0 ELSE F[<<q, h[q - 1]>>]
    <3> SUFFICES ASSUME NEW q \in p .. n PROVE h[q] = IF q = p THEN 0 ELSE F[<<q, h[q - 1]>>]
      OBVIOUS
    <3> HIDE DEF h
    <3>1. CASE q = n
      BY <1>5, <2>7, <3>1
    <3>2. CASE q # n
      <4>1. q \in p .. (n - 1) /\ (q = p \/ q - 1 \in p .. (n - 1))
        BY <1>3, <3>2
      <4>2. h[q] = IF q = p THEN 0 ELSE F[<<q, g[q - 1]>>]
        BY <2>5, <2>6, <4>1
      <4>3. q # p => h[q - 1] = g[q - 1]
        BY <2>6, <4>1
      <4> QED
        BY <4>2, <4>3
    <3> QED
      BY <3>1, <3>2
  <2>9. h = [q \in p .. n |-> h[q]]
    OBVIOUS
  <2> HIDE DEF h
  <2>10. Sol(h, n)
    BY <2>8, <2>9
  <2> QED
    BY <1>3, <2>10, Zenon
<1> QED
  BY <1>3, <1>4, <1>5

\* A digit is worth 0 to 9.
LEMMA DigitIsNat == \A c \in Digits : DigitValue(c) \in 0 .. 9
<1> SUFFICES ASSUME NEW c \in Digits PROVE DigitValue(c) \in 0 .. 9
  OBVIOUS
<1>1. c \in {"0", "1", "2", "3", "4", "5", "6", "7", "8", "9"}
  BY DEF Digits
<1>2. c = "0" => DigitValue(c) = 0
  BY Zenon DEF DigitValue
<1>3. c = "1" => DigitValue(c) = 1
  BY Zenon DEF DigitValue
<1>4. c = "2" => DigitValue(c) = 2
  BY Zenon DEF DigitValue
<1>5. c = "3" => DigitValue(c) = 3
  BY Zenon DEF DigitValue
<1>6. c = "4" => DigitValue(c) = 4
  BY Zenon DEF DigitValue
<1>7. c = "5" => DigitValue(c) = 5
  BY Zenon DEF DigitValue
<1>8. c = "6" => DigitValue(c) = 6
  BY Zenon DEF DigitValue
<1>9. c = "7" => DigitValue(c) = 7
  BY Zenon DEF DigitValue
<1>10. c = "8" => DigitValue(c) = 8
  BY Zenon DEF DigitValue
<1>11. c = "9" => DigitValue(c) = 9
  BY Zenon DEF DigitValue
<1> QED
  BY <1>1, <1>2, <1>3, <1>4, <1>5, <1>6, <1>7, <1>8, <1>9, <1>10, <1>11

\* The value of a text of digits, place by place.
LEMMA ValueOfDigits ==
  ASSUME NEW C, NEW s \in Seq(C), \A k \in 1 .. Len(s) : s[k] \in Digits
  PROVE  \E v : /\ v[0] = 0 /\ \A k \in 1 .. Len(s) : v[k] = 10 * v[k - 1] + DigitValue(s[k])
                /\ \A k \in 0 .. Len(s) : v[k] \in Nat
                /\ IntValue(s) = v[Len(s)]
<1> DEFINE N == Len(s)
           F == [x \in (1 .. N) \X Nat |-> 10 * x[2] + DigitValue(s[x[1]])]
           Rule(f) == [n \in 0 .. N |-> IF n = 0 THEN 0 ELSE 10 * f[n - 1] + DigitValue(s[n])]
<1>1. N \in Nat /\ 0 \in Nat /\ 0 <= N
  OBVIOUS
<1>2. PICK f : f = [q \in 0 .. N |-> IF q = 0 THEN 0 ELSE F[<<q, f[q - 1]>>]]
  <2> HIDE DEF F, N
  <2>1. \E f : IsForward(f, 0, N, F)
    BY <1>1, RecursionForward, Zenon
  <2> QED
    BY <2>1, Zenon DEF IsForward
<1>3. \A k \in 1 .. N : DigitValue(s[k]) \in Nat
  BY DigitIsNat
<1>4. \A k \in 1 .. N, m \in Nat : F[<<k, m>>] = 10 * m + DigitValue(s[k])
  BY <1>3
<1> HIDE DEF N, F
<1>5. \A k \in 0 .. N : f[k] \in Nat
  <2> DEFINE T == {k \in 0 .. N : f[k] \notin Nat}
  <2> SUFFICES ASSUME T # {} PROVE FALSE
    OBVIOUS
  <2>1. T \in SUBSET Nat
    BY <1>1
  <2>2. PICK k \in T : \A m \in T : k <= m
    BY <2>1, LeastElement
  <2>3. k # 0
    BY <1>1, <1>2, <2>2
  <2>4. k - 1 \in 0 .. N /\ k \in 1 .. N /\ ~(k <= k - 1)
    BY <1>1, <2>2, <2>3
  <2>5. f[k - 1] \in Nat
    BY <2>2, <2>4
  <2>6. f[k] = F[<<k, f[k - 1]>>]
    BY <1>1, <1>2, <2>3, <2>4
  <2>7. f[k] = 10 * f[k - 1] + DigitValue(s[k])
    BY <1>4, <2>4, <2>5, <2>6
  <2> QED
    BY <1>3, <2>2, <2>4, <2>5, <2>7
<1>6. f[0] = 0 /\ \A k \in 1 .. N : f[k] = 10 * f[k - 1] + DigitValue(s[k])
  <2>1. f[0] = 0
    BY <1>1, <1>2
  <2>2. ASSUME NEW k \in 1 .. N PROVE f[k] = 10 * f[k - 1] + DigitValue(s[k])
    <3>1. k - 1 \in 0 .. N /\ k \in 0 .. N /\ k # 0
      BY <1>1
    <3>2. f[k] = F[<<k, f[k - 1]>>] /\ f[k - 1] \in Nat
      BY <1>2, <1>5, <3>1
    <3> QED
      BY <1>4, <3>2
  <2> QED
    BY <2>1, <2>2
<1>7. \E g : g = Rule(g)
  <2>1. f = [q \in 0 .. N |-> f[q]]
    BY <1>2
  <2>2. \A q \in 0 .. N : f[q] = IF q = 0 THEN 0 ELSE 10 * f[q - 1] + DigitValue(s[q])
    BY <1>1, <1>6
  <2>3. f = Rule(f)
    BY <2>1, <2>2
  <2> QED
    BY <2>3, Zenon
<1> DEFINE v == CHOOSE g : g = Rule(g)
<1>8. IntValue(s) = v[N]
  BY Zenon DEF IntValue, N
<1>9. v = Rule(v)
  BY <1>7, Zenon
<1> HIDE DEF v
<1>10. v = [n \in 0 .. N |-> IF n = 0 THEN 0 ELSE 10 * v[n - 1] + DigitValue(s[n])]
  BY <1>9
<1>11. v[0] = 0 /\ \A k \in 1 .. N : v[k] = 10 * v[k - 1] + DigitValue(s[k])
  BY <1>1, <1>10
<1>12. \A k \in 0 .. N : v[k] \in Nat
  <2> DEFINE T == {k \in 0 .. N : v[k] \notin Nat}
  <2> SUFFICES ASSUME T # {} PROVE FALSE
    OBVIOUS
  <2>1. T \in SUBSET Nat
    BY <1>1
  <2>2. PICK k \in T : \A m \in T : k <= m
    BY <2>1, LeastElement
  <2>3. k # 0
    BY <1>1, <1>11, <2>2
  <2>4. k - 1 \in 0 .. N /\ k \in 1 .. N /\ ~(k <= k - 1)
    BY <1>1, <2>2, <2>3
  <2>5. v[k - 1] \in Nat
    BY <2>2, <2>4
  <2> QED
    BY <1>3, <1>11, <2>2, <2>4, <2>5
<1> QED
  BY <1>8, <1>11, <1>12, Zenon DEF N

\* Arithmetic modulo M + 1 changes nothing up to M.
LEMMA Wraps == ASSUME NEW M \in Nat, NEW x \in Nat
               PROVE  x % (M + 1) \in 0 .. M /\ (x <= M => x % (M + 1) = x)
BY SMT

\* The test of the code, made before the multiplication, says what it means.
LEMMA OverflowsExactly ==
  ASSUME NEW v \in Nat, NEW d \in 0 .. 9, MaxUint \in Nat
  PROVE  Overflows(v, d) <=> 10 * v + d > MaxUint
BY SMT DEF Overflows

\* The loop of ParseUint, place by place.
LEMMA UintDigitsRead ==
  ASSUME NEW C, NEW s \in Seq(C), MaxUint \in Nat
  PROVE  LET e == Skip(s, 1, Digits)
         IN  \E r : /\ r[1] = 0
                    /\ \A q \in 2 .. e : r[q] = (r[q - 1] * 10 + DigitValue(s[q - 1])) % (MaxUint + 1)
                    /\ \A q \in 1 .. e : r[q] \in Nat
                    /\ UintDigits(s, 1) =
                         IF \E q \in 1 .. (e - 1) : Overflows(r[q], DigitValue(s[q]))
                         THEN Refused ELSE Taken(r[e], e)
<1> DEFINE e == Skip(s, 1, Digits)
<1>0. e \in 1 .. (Len(s) + 1) /\ \A k \in 1 .. (e - 1) : s[k] \in Digits
  <2>1. 1 \in 1 .. (Len(s) + 1)
    OBVIOUS
  <2>2. e \in 1 .. (Len(s) + 1) /\ \A k \in 1 .. (e - 1) : At(s, k, Digits)
    BY <2>1, SkipStops, Zenon
  <2> HIDE DEF e
  <2> QED
    BY <2>2 DEF At
<1> HIDE DEF e
<1> DEFINE D(q) == DigitValue(s[q - 1])
           F == [x \in (2 .. e) \X Nat |-> (x[2] * 10 + D(x[1])) % (MaxUint + 1)]
           Rule(g) == [q \in 1 .. e |->
                         IF q = 1 THEN 0
                         ELSE (g[q - 1] * 10 + DigitValue(s[q - 1])) % (MaxUint + 1)]
<1>1. e \in Nat /\ 1 \in Nat /\ 1 <= e
  BY <1>0
<1>2. PICK f : f = [q \in 1 .. e |-> IF q = 1 THEN 0 ELSE F[<<q, f[q - 1]>>]]
  <2> HIDE DEF F
  <2>1. \E f : IsForward(f, 1, e, F)
    BY <1>1, RecursionForward, Zenon
  <2> QED
    BY <2>1, Zenon DEF IsForward
<1>3. \A q \in 2 .. e : D(q) \in 0 .. 9
  <2>1. \A q \in 2 .. e : q - 1 \in 1 .. (e - 1)
    BY <1>1
  <2> QED
    BY <1>0, <2>1, DigitIsNat
<1>4. \A q \in 2 .. e, m \in Nat : F[<<q, m>>] = (m * 10 + D(q)) % (MaxUint + 1)
  OBVIOUS
<1>5. ASSUME NEW q \in 2 .. e, NEW m \in Nat PROVE (m * 10 + D(q)) % (MaxUint + 1) \in Nat
  <2>1. m * 10 + D(q) \in Nat
    BY <1>3
  <2> HIDE DEF D
  <2> QED
    BY <2>1, Wraps
<1> HIDE DEF F
<1>6. ASSUME NEW g, g[1] = 0,
             \A q \in 2 .. e : g[q - 1] \in Nat => g[q] = (g[q - 1] * 10 + D(q)) % (MaxUint + 1)
      PROVE  \A q \in 1 .. e : g[q] \in Nat
  <2> DEFINE T == {q \in 1 .. e : g[q] \notin Nat}
  <2> SUFFICES ASSUME T # {} PROVE FALSE
    OBVIOUS
  <2>1. T \in SUBSET Nat
    BY <1>1
  <2>2. PICK q \in T : \A m \in T : q <= m
    BY <2>1, LeastElement
  <2>3. q # 1
    BY <1>6, <2>2
  <2>4. q - 1 \in 1 .. e /\ q \in 2 .. e /\ ~(q <= q - 1)
    BY <1>1, <2>2, <2>3
  <2>5. g[q - 1] \in Nat
    BY <2>2, <2>4
  <2>6. g[q] = (g[q - 1] * 10 + D(q)) % (MaxUint + 1)
    BY <1>6, <2>4, <2>5
  <2> HIDE DEF D
  <2> QED
    BY <1>5, <2>2, <2>4, <2>5, <2>6
<1>7. f[1] = 0 /\ \A q \in 2 .. e : f[q - 1] \in Nat => f[q] = (f[q - 1] * 10 + D(q)) % (MaxUint + 1)
  <2>1. f[1] = 0
    BY <1>1, <1>2
  <2>2. ASSUME NEW q \in 2 .. e, f[q - 1] \in Nat
        PROVE  f[q] = (f[q - 1] * 10 + D(q)) % (MaxUint + 1)
    <3> HIDE DEF D
    <3>1. f[q] = F[<<q, f[q - 1]>>]
      BY <1>1, <1>2
    <3> QED
      BY <1>4, <2>2, <3>1
  <2> QED
    BY <2>1, <2>2
<1>8. \A q \in 1 .. e : f[q] \in Nat
  BY <1>6, <1>7, Zenon
<1>9. \E g : g = Rule(g)
  <2>1. f = [q \in 1 .. e |-> f[q]]
    BY <1>2
  <2>2. \A q \in 1 .. e : f[q] = IF q = 1 THEN 0
                                ELSE (f[q - 1] * 10 + DigitValue(s[q - 1])) % (MaxUint + 1)
    <3>1. \A q \in 1 .. e : q # 1 => q \in 2 .. e /\ q - 1 \in 1 .. e
      BY <1>1
    <3> QED
      BY <1>7, <1>8, <3>1
  <2>3. f = Rule(f)
    BY <2>1, <2>2, Zenon
  <2> QED
    BY <2>3, Zenon
<1> DEFINE r == CHOOSE g : g = Rule(g)
<1>10. UintDigits(s, 1) = IF \E q \in 1 .. (e - 1) : Overflows(r[q], DigitValue(s[q]))
                          THEN Refused ELSE Taken(r[e], e)
  BY Zenon DEF UintDigits, e
<1>11. r = Rule(r)
  BY <1>9, Zenon
<1> HIDE DEF r
<1>12. /\ r[1] = 0
       /\ \A q \in 2 .. e : r[q] = (r[q - 1] * 10 + DigitValue(s[q - 1])) % (MaxUint + 1)
  BY <1>1, <1>11
<1>13. \A q \in 1 .. e : r[q] \in Nat
  BY <1>6, <1>12, Zenon
<1> QED
  BY <1>10, <1>12, <1>13, Zenon DEF e

\* The digits read one by one: as long as the test passes nothing wraps, and it fails
\* exactly when the number written is too large.
LEMMA ReadsTheValue ==
  ASSUME NEW C, NEW s \in Seq(C), MaxUint \in Nat, NEW n \in Nat, n <= Len(s),
         \A k \in 1 .. n : s[k] \in Digits,
         NEW r, r[1] = 0, \A q \in 1 .. (n + 1) : r[q] \in Nat,
         \A q \in 2 .. (n + 1) : r[q] = (r[q - 1] * 10 + DigitValue(s[q - 1])) % (MaxUint + 1),
         NEW v, v[0] = 0, \A k \in 0 .. n : v[k] \in Nat,
         \A k \in 1 .. n : v[k] = 10 * v[k - 1] + DigitValue(s[k])
  PROVE  /\ (\E q \in 1 .. n : Overflows(r[q], DigitValue(s[q]))) <=> v[n] > MaxUint
         /\ (\A q \in 1 .. n : ~Overflows(r[q], DigitValue(s[q]))) => r[n + 1] = v[n]
<1> DEFINE d(q) == DigitValue(s[q])
           Over(q) == Overflows(r[q], d(q))
<1>1. \A q \in 1 .. n : d(q) \in 0 .. 9
  BY DigitIsNat
<1> HIDE DEF d
<1>2. \A q \in 1 .. n : Over(q) <=> 10 * r[q] + d(q) > MaxUint
  <2> SUFFICES ASSUME NEW q \in 1 .. n PROVE Over(q) <=> 10 * r[q] + d(q) > MaxUint
    OBVIOUS
  <2>1. r[q] \in Nat /\ d(q) \in 0 .. 9
    BY <1>1
  <2> QED
    BY <2>1, OverflowsExactly
<1> HIDE DEF Over
<1>3. \A q \in 1 .. n : r[q + 1] = (r[q] * 10 + d(q)) % (MaxUint + 1)
  <2> SUFFICES ASSUME NEW q \in 1 .. n PROVE r[q + 1] = (r[q] * 10 + d(q)) % (MaxUint + 1)
    OBVIOUS
  <2>1. q + 1 \in 2 .. (n + 1) /\ q + 1 - 1 = q
    OBVIOUS
  <2> QED
    BY <2>1 DEF d
<1>4. ASSUME NEW q \in 1 .. (n + 1), \A i \in 1 .. (q - 1) : ~Over(i)
      PROVE  \A i \in 1 .. q : r[i] = v[i - 1]
  <2> DEFINE T == {i \in 1 .. q : r[i] # v[i - 1]}
  <2> SUFFICES ASSUME T # {} PROVE FALSE
    OBVIOUS
  <2>1. T \in SUBSET Nat
    OBVIOUS
  <2>2. PICK i \in T : \A m \in T : i <= m
    BY <2>1, LeastElement
  <2>3. i # 1
    BY <2>2
  <2> DEFINE j == i - 1
  <2>4. j \in 1 .. (q - 1) /\ j \in 1 .. n /\ j + 1 = i /\ ~(i <= j) /\ j \in 1 .. q
    BY <2>2, <2>3
  <2>5. r[j] = v[j - 1] /\ ~Over(j)
    BY <1>4, <2>2, <2>4
  <2>6. r[j] \in Nat /\ d(j) \in 0 .. 9
    BY <1>1, <2>4
  <2>7. r[i] = (r[j] * 10 + d(j)) % (MaxUint + 1)
    BY <1>3, <2>4
  <2>8. v[j] = 10 * v[j - 1] + d(j)
    BY <2>4 DEF d
  <2> HIDE DEF j
  <2>9. 10 * r[j] + d(j) <= MaxUint /\ 10 * r[j] + d(j) = r[j] * 10 + d(j) /\ r[j] * 10 + d(j) \in Nat
    <3>1. ~(10 * r[j] + d(j) > MaxUint)
      BY <1>2, <2>4, <2>5
    <3>2. r[j] \in Nat /\ d(j) \in Nat
      BY <2>6
    <3> HIDE DEF Over
    <3> QED
      BY <3>1, <3>2
  <2>10. r[i] = r[j] * 10 + d(j)
    BY <2>7, <2>9, Wraps
  <2>11. r[i] = v[j]
    BY <2>5, <2>8, <2>9, <2>10
  <2> QED
    BY <2>2, <2>11 DEF j
<1>5. ASSUME NEW k \in 0 .. n PROVE v[k] <= v[n]
  <2> DEFINE T == {i \in k .. n : ~(v[k] <= v[i])}
  <2>0. n \in k .. n
    OBVIOUS
  <2> SUFFICES ASSUME T # {} PROVE FALSE
    BY <2>0, Zenon
  <2>1. T \in SUBSET Nat
    OBVIOUS
  <2>2. PICK i \in T : \A m \in T : i <= m
    BY <2>1, LeastElement
  <2>3. i # k
    BY <2>2
  <2>4. i - 1 \in k .. n /\ i \in 1 .. n /\ ~(i <= i - 1) /\ i - 1 \in 0 .. n
    BY <2>2, <2>3
  <2>5. v[k] <= v[i - 1]
    BY <2>2, <2>4
  <2>6. v[i] = 10 * v[i - 1] + d(i) /\ d(i) \in 0 .. 9 /\ v[i - 1] \in Nat
    BY <1>1, <2>4 DEF d
  <2>7. d(i) \in Nat /\ v[k] \in Nat /\ ~(v[k] <= v[i])
    BY <2>2, <2>6
  <2> HIDE DEF T
  <2> QED
    BY <2>5, <2>6, <2>7
<1>6. CASE \A q \in 1 .. n : ~Over(q)
  <2>1. n + 1 \in 1 .. (n + 1) /\ (n + 1) - 1 = n
    OBVIOUS
  <2>0. \A i \in 1 .. (n + 1) : r[i] = v[i - 1]
    <3>1. \A i \in 1 .. ((n + 1) - 1) : ~Over(i)
      BY <1>6, <2>1
    <3> QED
      BY <1>4, <2>1, <3>1
  <2>2. r[n + 1] = v[n]
    BY <2>0, <2>1
  <2>3. ~(v[n] > MaxUint)
    <3>1. CASE n = 0
      BY <3>1
    <3>2. CASE n # 0
      <4>1. n \in 1 .. n /\ n - 1 \in 0 .. n
        BY <3>2
      <4>2. r[n] = v[n - 1] /\ v[n] = 10 * v[n - 1] + d(n)
        <5>1. n \in 1 .. (n + 1)
          BY <4>1
        <5> QED
          BY <2>0, <4>1, <5>1, Zenon DEF d
      <4>3. ~(10 * r[n] + d(n) > MaxUint)
        BY <1>2, <1>6, <4>1
      <4> QED
        BY <4>2, <4>3
    <3> QED
      BY <3>1, <3>2
  <2> QED
    BY <1>6, <2>2, <2>3 DEF Over, d
<1>7. CASE \E q \in 1 .. n : Over(q)
  <2> DEFINE T == {q \in 1 .. n : Over(q)}
  <2>1. T \in SUBSET Nat /\ T # {}
    <3>1. T # {}
      BY <1>7, Zenon
    <3> QED
      BY <3>1
  <2>2. PICK q \in T : \A m \in T : q <= m
    BY <2>1, LeastElement
  <2>3. \A i \in 1 .. (q - 1) : ~Over(i)
    BY <2>2
  <2>4. q \in 1 .. (n + 1) /\ q \in 1 .. q /\ q - 1 \in 0 .. n /\ q \in 0 .. n
    BY <2>2
  <2>5. r[q] = v[q - 1]
    BY <1>4, <2>3, <2>4
  <2>6. v[q] = 10 * v[q - 1] + d(q) /\ 10 * r[q] + d(q) > MaxUint
    BY <1>2, <2>2 DEF d
  <2>7. v[q] > MaxUint /\ v[q] <= v[n] /\ v[q] \in Nat /\ v[n] \in Nat
    BY <1>5, <2>4, <2>5, <2>6
  <2>8. v[n] > MaxUint
    BY <2>7
  <2> QED
    BY <1>7, <2>8 DEF Over, d
<1> QED
  BY <1>6, <1>7

\* command_parser.c takes a text of any length for an unsigned integer exactly when it
\* is one without a leading zero that fits, and reads the number written (ParseUint).
THEOREM UintsAreOfTheGrammar ==
  ASSUME NEW C, NEW s \in Seq(C), MaxUint \in Nat
  PROVE  LET u == ParseUint(s, 1)
         IN  /\ (u.ok /\ u.next = Len(s) + 1) <=> (IsInt(s) /\ IntValue(s) <= MaxUint)
             /\ (u.ok /\ u.next = Len(s) + 1) => u.value = IntValue(s)
<1> DEFINE n == Len(s)
           scanned == IF ~At(s, 1, Digits) THEN Refused
                      ELSE IF s[1] = "0"
                           THEN IF At(s, 1 + 1, Digits) THEN Refused ELSE Taken(0, 1 + 1)
                      ELSE UintDigits(s, 1)
           u == IF scanned.ok /\ At(s, scanned.next, {".", "e"}) THEN Refused ELSE scanned
<1>1. ParseUint(s, 1) = u
  BY Zenon DEF ParseUint
<1>2. n \in Nat
  OBVIOUS
<1>3. IsInt(s) <=> n # 0 /\ (\A i \in 1 .. n : s[i] \in Digits) /\ (s[1] = "0" => n = 1)
  <2>1. s # <<>> <=> n # 0
    OBVIOUS
  <2>2. DOMAIN s = 1 .. n
    OBVIOUS
  <2> QED
    BY <2>1, <2>2, Zenon DEF IsInt, IsDigits
<1>4. ~Refused.ok
  BY DEF Refused
<1>5. CASE ~At(s, 1, Digits)
  <2>1. u = Refused
    BY <1>4, <1>5
  <2>2. ~IsInt(s)
    BY <1>2, <1>3, <1>5 DEF At
  <2> QED
    BY <1>1, <1>4, <2>1, <2>2
<1>6. CASE At(s, 1, Digits) /\ s[1] = "0"
  <2>1. CASE n = 1
    <3>1. ~At(s, 1 + 1, Digits) /\ \A set : ~At(s, 2, set)
      BY <2>1 DEF At
    <3>2. scanned = Taken(0, 2) /\ Taken(0, 2).ok /\ Taken(0, 2).next = 2 /\ Taken(0, 2).value = 0
      BY <1>6, <3>1 DEF Taken
    <3>3. u = Taken(0, 2)
      BY <3>1, <3>2
    <3>4. s[1] \in Digits /\ IsInt(s) /\ \A k \in 1 .. n : s[k] \in Digits
      BY <1>3, <1>6, <2>1 DEF At
    <3>5. PICK v : v[0] = 0 /\ (\A k \in 1 .. n : v[k] = 10 * v[k - 1] + DigitValue(s[k])) /\ IntValue(s) = v[n]
      BY <3>4, ValueOfDigits, Zenon
    <3>6. DigitValue(s[1]) = 0
      BY <1>6, Zenon DEF DigitValue
    <3>7. IntValue(s) = 0
      BY <2>1, <3>5, <3>6
    <3> QED
      BY <1>1, <2>1, <3>2, <3>3, <3>4, <3>7
  <2>2. CASE n # 1
    <3>1. ~IsInt(s)
      BY <1>3, <1>6, <2>2
    <3>2. scanned = Refused \/ scanned = Taken(0, 2)
      BY <1>6
    <3>3. u = Refused \/ u = Taken(0, 2)
      <4> HIDE DEF scanned
      <4> QED
        BY <3>2
    <3>4. Taken(0, 2).next = 2
      BY DEF Taken
    <3> HIDE DEF u
    <3>5. ~(u.ok /\ u.next = n + 1)
      <4> HIDE DEF n
      <4>1. n + 1 # 2
        BY <1>2, <2>2
      <4> QED
        BY <1>4, <3>3, <3>4, <4>1
    <3> QED
      BY <1>1, <3>1, <3>5
  <2> QED
    BY <2>1, <2>2
<1>7. CASE At(s, 1, Digits) /\ s[1] # "0"
  <2> DEFINE e == Skip(s, 1, Digits)
  <2>1. n # 0
    BY <1>2, <1>7 DEF At
  <2>2. e \in 1 .. (n + 1) /\ ~At(s, e, Digits) /\ \A k \in 1 .. (e - 1) : At(s, k, Digits)
    <3>1. 1 \in 1 .. (n + 1)
      BY <1>2
    <3> QED
      BY <3>1, SkipStops, Zenon
  <2>3. PICK r : /\ r[1] = 0
                 /\ \A q \in 2 .. e : r[q] = (r[q - 1] * 10 + DigitValue(s[q - 1])) % (MaxUint + 1)
                 /\ \A q \in 1 .. e : r[q] \in Nat
                 /\ UintDigits(s, 1) =
                      IF \E q \in 1 .. (e - 1) : Overflows(r[q], DigitValue(s[q]))
                      THEN Refused ELSE Taken(r[e], e)
    BY UintDigitsRead, Zenon
  <2> HIDE DEF e
  <2>4. Taken(r[e], e).ok /\ Taken(r[e], e).next = e /\ Taken(r[e], e).value = r[e]
    BY DEF Taken
  <2>5. scanned = UintDigits(s, 1)
    BY <1>7
  <2>6. CASE e # n + 1
    <3>1. ~IsInt(s)
      BY <1>2, <1>3, <2>2, <2>6 DEF At
    <3>2. scanned = Refused \/ scanned = Taken(r[e], e)
      BY <2>3, <2>5, Zenon
    <3>3. u = Refused \/ u = Taken(r[e], e)
      <4> HIDE DEF scanned
      <4> QED
        BY <3>2
    <3> HIDE DEF u
    <3> QED
      BY <1>1, <1>4, <2>4, <2>6, <3>1, <3>3
  <2>7. CASE e = n + 1
    <3>1. \A k \in 1 .. n : s[k] \in Digits
      BY <1>2, <2>2, <2>7 DEF At
    <3>2. IsInt(s)
      BY <1>3, <1>7, <2>1, <3>1
    <3>3. PICK v : /\ v[0] = 0 /\ \A k \in 1 .. n : v[k] = 10 * v[k - 1] + DigitValue(s[k])
                   /\ \A k \in 0 .. n : v[k] \in Nat
                   /\ IntValue(s) = v[n]
      BY <3>1, ValueOfDigits, Zenon
    <3> DEFINE over == \E q \in 1 .. n : Overflows(r[q], DigitValue(s[q]))
    <3>4. /\ \A q \in 2 .. (n + 1) : r[q] = (r[q - 1] * 10 + DigitValue(s[q - 1])) % (MaxUint + 1)
          /\ \A q \in 1 .. (n + 1) : r[q] \in Nat
      BY <2>3, <2>7, Zenon
    <3>5. (over <=> v[n] > MaxUint) /\ (~over => r[n + 1] = v[n])
      <4>1. n <= Len(s)
        BY <1>2
      <4> HIDE DEF n
      <4>2. /\ (\E q \in 1 .. n : Overflows(r[q], DigitValue(s[q]))) <=> v[n] > MaxUint
            /\ (\A q \in 1 .. n : ~Overflows(r[q], DigitValue(s[q]))) => r[n + 1] = v[n]
        BY <1>2, <2>3, <3>1, <3>3, <3>4, <4>1, ReadsTheValue, Zenon
      <4> QED
        BY <4>2, Zenon
    <3>6. v[n] \in Nat
      BY <1>2, <3>3
    <3>7. UintDigits(s, 1) = IF over THEN Refused ELSE Taken(r[n + 1], n + 1)
      <4>1. e - 1 = n
        BY <1>2, <2>7
      <4> QED
        BY <2>3, <2>7, <4>1, Zenon
    <3>8. \A set : ~At(s, n + 1, set)
      BY <1>2 DEF At
    <3> HIDE DEF over
    <3>9. CASE over
      <4>1. scanned = Refused
        BY <2>5, <3>7, <3>9
      <4>2. u = Refused
        <5> HIDE DEF scanned
        <5> QED
          BY <1>4, <4>1
      <4>3. ~(IntValue(s) <= MaxUint)
        BY <3>3, <3>5, <3>6, <3>9
      <4> HIDE DEF u
      <4> QED
        BY <1>1, <1>4, <4>2, <4>3
    <3>10. CASE ~over
      <4> DEFINE t == Taken(r[n + 1], n + 1)
      <4>1. scanned = t /\ t.ok /\ t.next = n + 1 /\ t.value = r[n + 1]
        BY <2>4, <2>5, <2>7, <3>7, <3>10
      <4> HIDE DEF t
      <4>2. u = t
        <5> HIDE DEF scanned
        <5> QED
          BY <3>8, <4>1
      <4>3. IntValue(s) <= MaxUint /\ t.value = IntValue(s)
        BY <3>3, <3>5, <3>6, <3>10, <4>1
      <4> HIDE DEF u
      <4> QED
        BY <1>1, <3>2, <4>1, <4>2, <4>3
    <3> QED
      BY <3>9, <3>10
  <2> QED
    BY <2>6, <2>7
<1> QED
  BY <1>5, <1>6, <1>7

-----------------------------------------------------------------------------
(* Strings *)

\* Escapes, from left to right: a character is escaped when a backslash that is not
\* itself escaped comes before it.
LEMMA EscapesInTurn ==
  ASSUME NEW C, NEW s \in Seq(C)
  PROVE  /\ ~Escaped(s, 1)
         /\ \A i \in 1 .. Len(s) : Escaped(s, i + 1) <=> s[i] = "\\" /\ ~Escaped(s, i)
<1> DEFINE R(i) == {j \in 1 .. (i - 1) : \A k \in j .. (i - 1) : s[k] = "\\"}
           size(i) == Cardinality(R(i))
<1>1. \A i : Escaped(s, i) <=> size(i) % 2 = 1
  BY Zenon DEF Escaped
<1>2. ASSUME NEW i \in 1 .. (Len(s) + 1) PROVE IsFiniteSet(R(i)) /\ size(i) \in Nat
  <2>1. R(i) \in SUBSET (1 .. (i - 1))
    OBVIOUS
  <2>2. IsFiniteSet(1 .. (i - 1))
    BY FS_Interval
  <2> HIDE DEF R
  <2> QED
    BY <2>1, <2>2, FS_Subset, FS_CardinalityType
<1>3. ~Escaped(s, 1)
  <2>1. R(1) = {}
    OBVIOUS
  <2>2. size(1) = 0
    BY <2>1, FS_EmptySet
  <2> HIDE DEF size
  <2> QED
    BY <1>1, <2>2
<1>4. ASSUME NEW i \in 1 .. Len(s) PROVE Escaped(s, i + 1) <=> s[i] = "\\" /\ ~Escaped(s, i)
  <2>0. i + 1 - 1 = i /\ i \in 1 .. (Len(s) + 1)
    OBVIOUS
  <2>1. CASE s[i] # "\\"
    <3>1. R(i + 1) = {}
      BY <2>1
    <3>2. size(i + 1) = 0
      BY <3>1, FS_EmptySet
    <3> HIDE DEF size
    <3> QED
      BY <1>1, <2>1, <3>2
  <2>2. CASE s[i] = "\\"
    <3>1. R(i + 1) = R(i) \cup {i}
      <4>1. ASSUME NEW j \in R(i + 1) PROVE j \in R(i) \cup {i}
        BY <4>1
      <4>2. ASSUME NEW j \in R(i) PROVE j \in R(i + 1)
        BY <2>2, <4>2
      <4>3. i \in R(i + 1)
        BY <2>2
      <4> HIDE DEF R
      <4> QED
        BY <4>1, <4>2, <4>3
    <3>2. i \notin R(i)
      OBVIOUS
    <3>3. IsFiniteSet(R(i)) /\ size(i) \in Nat
      BY <1>2, <2>0
    <3> HIDE DEF R
    <3>4. size(i + 1) = size(i) + 1
      BY <3>1, <3>2, <3>3, FS_AddElement
    <3> HIDE DEF size
    <3>5. (size(i) + 1) % 2 = 1 <=> ~(size(i) % 2 = 1)
      BY <3>3
    <3> QED
      BY <1>1, <2>2, <3>4, <3>5
  <2> QED
    BY <2>1, <2>2
<1> QED
  BY <1>3, <1>4

\* What the grammar asks of a character, and the characters from q on, an escape
\* counting for one.
MayStand(s, i) ==
  s[i] # "ctl" /\ IF Escaped(s, i) THEN s[i] \in {"\"", "\\", "t"} ELSE s[i] # "\""
\* The characters from q to the closing quote, an escape counting for one.
Chars(s, q) == {i \in q .. (Len(s) - 1) : s[i] # "\\" \/ Escaped(s, i)}

\* From q on, s is the rest of a string.
IsRest(s, q) ==
  /\ q <= Len(s) /\ s[Len(s)] = "\"" /\ ~Escaped(s, Len(s))
  /\ \A i \in q .. (Len(s) - 1) : MayStand(s, i)
  /\ Cardinality(Chars(s, q)) < MaxString

\* A string is an opening quote and the rest of a string.
LEMMA StringIsRest ==
  ASSUME NEW C, NEW s \in Seq(C)
  PROVE  IsString(s) <=> Len(s) >= 1 /\ s[1] = "\"" /\ IsRest(s, 2)
<1>1. IsString(s) <=>
        /\ Len(s) >= 2 /\ s[1] = "\"" /\ s[Len(s)] = "\"" /\ ~Escaped(s, Len(s))
        /\ \A i \in 2 .. (Len(s) - 1) : MayStand(s, i)
        /\ Cardinality(Chars(s, 2)) < MaxString
  BY Zenon DEF IsString, MayStand, Chars
<1>2. IsRest(s, 2) <=>
        /\ 2 <= Len(s) /\ s[Len(s)] = "\"" /\ ~Escaped(s, Len(s))
        /\ \A i \in 2 .. (Len(s) - 1) : MayStand(s, i)
        /\ Cardinality(Chars(s, 2)) < MaxString
  BY Zenon DEF IsRest
<1>3. (Len(s) >= 2 <=> 2 <= Len(s)) /\ (2 <= Len(s) => Len(s) >= 1)
  OBVIOUS
<1> QED
  BY <1>1, <1>2, <1>3, Zenon

\* How the number of characters grows, place by place.
LEMMA CharsCounted ==
  ASSUME NEW C, NEW s \in Seq(C), NEW q \in 1 .. (Len(s) + 1)
  PROVE  /\ Cardinality(Chars(s, q)) \in Nat
         /\ q >= Len(s) => Cardinality(Chars(s, q)) = 0
         /\ q < Len(s) =>
              Cardinality(Chars(s, q)) =
                Cardinality(Chars(s, q + 1)) + (IF s[q] # "\\" \/ Escaped(s, q) THEN 1 ELSE 0)
<1>1. ASSUME NEW p \in 1 .. (Len(s) + 1)
      PROVE  IsFiniteSet(Chars(s, p)) /\ Cardinality(Chars(s, p)) \in Nat
  <2>1. Chars(s, p) \in SUBSET (p .. (Len(s) - 1))
    BY DEF Chars
  <2>2. IsFiniteSet(p .. (Len(s) - 1))
    BY FS_Interval
  <2> QED
    BY <2>1, <2>2, FS_Subset, FS_CardinalityType
<1>2. ASSUME q >= Len(s) PROVE Cardinality(Chars(s, q)) = 0
  <2>1. Chars(s, q) = {}
    BY <1>2 DEF Chars
  <2> QED
    BY <2>1, FS_EmptySet
<1>3. ASSUME q < Len(s)
      PROVE  Cardinality(Chars(s, q)) =
                Cardinality(Chars(s, q + 1)) + (IF s[q] # "\\" \/ Escaped(s, q) THEN 1 ELSE 0)
  <2>1. q + 1 \in 1 .. (Len(s) + 1)
    BY <1>3
  <2>2. IsFiniteSet(Chars(s, q + 1)) /\ Cardinality(Chars(s, q + 1)) \in Nat
    BY <1>1, <2>1
  <2>3. CASE s[q] # "\\" \/ Escaped(s, q)
    <3>1. Chars(s, q) = Chars(s, q + 1) \cup {q}
      BY <1>3, <2>3 DEF Chars
    <3>2. q \notin Chars(s, q + 1)
      BY DEF Chars
    <3> QED
      BY <2>2, <2>3, <3>1, <3>2, FS_AddElement
  <2>4. CASE ~(s[q] # "\\" \/ Escaped(s, q))
    <3>1. Chars(s, q) = Chars(s, q + 1)
      BY <1>3, <2>4 DEF Chars
    <3> QED
      BY <2>2, <2>4, <3>1
  <2> QED
    BY <2>3, <2>4
<1> QED
  BY <1>1, <1>2, <1>3

\* One step of ParseString, g being what the scan answers further on.
StringStep(s, q, g) ==
  LET escaped == At(s, q, {"\\"})
      c       == IF escaped THEN q + 1 ELSE q
      legal   == /\ c <= Len(s)
                 /\ escaped => s[c] \in {"\"", "\\", "t"}
                 /\ ~escaped => s[c] # "ctl"
      rest    == g[c + 1]
      char    == IF escaped /\ s[c] = "t" THEN "ctl" ELSE s[c]
  IN  IF At(s, q, {"\""}) THEN Taken(<<>>, q + 1)
      ELSE IF legal /\ rest.ok /\ Len(rest.value) < MaxString - 1
      THEN Taken(<<char>> \o rest.value, rest.next)
      ELSE Refused

\* A step looks at the answers further on only.
LEMMA StringStepLooksAhead ==
  ASSUME NEW C, NEW s \in Seq(C), NEW q \in 1 .. (Len(s) + 1), NEW g, NEW h,
         \A k \in (q + 1) .. (Len(s) + 1) : g[k] = h[k]
  PROVE  StringStep(s, q, g) = StringStep(s, q, h)
<1> DEFINE c == IF At(s, q, {"\\"}) THEN q + 1 ELSE q
<1>1. CASE c <= Len(s)
  <2>1. c + 1 \in (q + 1) .. (Len(s) + 1)
    BY <1>1
  <2>2. g[c + 1] = h[c + 1]
    BY <2>1
  <2> QED
    BY <2>2, Zenon DEF StringStep
<1>2. CASE ~(c <= Len(s))
  BY <1>2, Zenon DEF StringStep
<1> QED
  BY <1>1, <1>2

\* g is what the scan answers from every place after the first quote.
IsStringScan(s, g) == g = [q \in (1 + 1) .. (Len(s) + 1) |-> StringStep(s, q, g)]

\* There is such a function, however long the text.
LEMMA StringScanExists ==
  ASSUME NEW C, NEW s \in Seq(C)
  PROVE  \E g : IsStringScan(s, g)
<1> DEFINE n == Len(s) + 1
           Sol(m, g) == g = [q \in m .. n |-> StringStep(s, q, g)]
           T == {d \in Nat : d < n /\ ~ \E g : Sol(n + 1 - d, g)}
<1>1. n \in Nat /\ n >= 1
  OBVIOUS
<1>2. T = {}
  <2> SUFFICES ASSUME T # {} PROVE FALSE
    OBVIOUS
  <2>1. T \in SUBSET Nat
    OBVIOUS
  <2>2. PICK d \in T : \A e \in T : d <= e
    BY <2>1, LeastElement
  <2>3. d \in Nat /\ d < n /\ ~ \E g : Sol(n + 1 - d, g)
    BY <2>2
  <2> DEFINE m == n + 1 - d
  <2>4. CASE d = 0
    <3> DEFINE g == [q \in m .. n |-> 0]
    <3>1. m .. n = {}
      BY <1>1, <2>4
    <3> HIDE DEF m, n
    <3>2. g = [q \in m .. n |-> StringStep(s, q, g)]
      BY <3>1
    <3> QED
      BY <2>3, <3>2, Zenon DEF m
  <2>5. CASE d > 0
    <3>1. d - 1 \in Nat /\ d - 1 < n /\ ~(d <= d - 1) /\ n + 1 - (d - 1) = m + 1 /\ m \in 1 .. n
      BY <1>1, <2>3, <2>5
    <3>2. d - 1 \notin T
      BY <2>2, <3>1, Zenon
    <3>3. \E g : Sol(n + 1 - (d - 1), g)
      BY <3>1, <3>2, Zenon
    <3>4. PICK g : g = [q \in (m + 1) .. n |-> StringStep(s, q, g)]
      BY <3>1, <3>3, Zenon
    <3> DEFINE h == [q \in m .. n |-> IF q = m THEN StringStep(s, m, g) ELSE g[q]]
    <3> HIDE DEF m, n, T
    <3>5. \A k \in (m + 1) .. n : g[k] = h[k] /\ k \in m .. n
      BY <3>1
    <3>6. \A q \in m .. n : h[q] = StringStep(s, q, h)
      <4> SUFFICES ASSUME NEW q \in m .. n PROVE h[q] = StringStep(s, q, h)
        OBVIOUS
      <4>1. h[q] = StringStep(s, q, g)
        <5>1. CASE q = m
          BY <5>1
        <5>2. CASE q # m
          <6>1. q \in (m + 1) .. n
            BY <3>1, <5>2
          <6>2. g[q] = StringStep(s, q, g) /\ h[q] = g[q]
            BY <3>4, <3>5, <6>1
          <6> QED
            BY <6>2
        <5> QED
          BY <5>1, <5>2
      <4>2. q \in 1 .. (Len(s) + 1) /\ \A k \in (q + 1) .. (Len(s) + 1) : g[k] = h[k]
        <5>1. \A k \in (q + 1) .. n : k \in (m + 1) .. n
          BY <3>1
        <5>2. q \in 1 .. n
          BY <3>1
        <5> HIDE DEF h
        <5> QED
          BY <3>5, <5>1, <5>2, Zenon DEF n
      <4> HIDE DEF h
      <4> QED
        BY <4>1, <4>2, StringStepLooksAhead, Zenon
    <3>7. h = [q \in m .. n |-> h[q]]
      OBVIOUS
    <3> HIDE DEF h
    <3>8. h = [q \in m .. n |-> StringStep(s, q, h)]
      BY <3>6, <3>7
    <3> QED
      BY <2>3, <3>8, Zenon DEF m
  <2> QED
    BY <2>3, <2>4, <2>5
<1>3. n - 1 \in Nat /\ n - 1 < n /\ n + 1 - (n - 1) = 1 + 1
  BY <1>1
<1>4. n - 1 \notin T
  BY <1>2
<1>5. \E g : Sol(n + 1 - (n - 1), g)
  BY <1>3, <1>4, Zenon
<1> QED
  BY <1>3, <1>5, Zenon DEF IsStringScan

\* ParseString answers what the scan answers after the first quote.
LEMMA ParseStringIsScan ==
  ASSUME NEW C, NEW s \in Seq(C)
  PROVE  \E g : /\ \A q \in 2 .. (Len(s) + 1) : g[q] = StringStep(s, q, g)
                /\ ParseString(s, 1) = IF At(s, 1, {"\""}) THEN g[2] ELSE Refused
<1> DEFINE g == CHOOSE g : IsStringScan(s, g)
<1>1. IsStringScan(s, g)
  BY StringScanExists, Zenon
<1>2. ParseString(s, 1) = IF At(s, 1, {"\""}) THEN g[1 + 1] ELSE Refused
  BY Zenon DEF ParseString, IsStringScan, StringStep
<1> HIDE DEF g
<1>3. \A q \in (1 + 1) .. (Len(s) + 1) : g[q] = StringStep(s, q, g)
  BY <1>1, Zenon DEF IsStringScan
<1>4. 1 + 1 = 2
  OBVIOUS
<1> QED
  BY <1>2, <1>3, <1>4, Zenon

\* What a step answers, by the character it finds.
LEMMA StringStepCases ==
  ASSUME NEW C, NEW s \in Seq(C), NEW q \in 1 .. (Len(s) + 1), NEW g
  PROVE  /\ q = Len(s) + 1 => StringStep(s, q, g) = Refused
         /\ q <= Len(s) /\ s[q] = "\"" => StringStep(s, q, g) = Taken(<<>>, q + 1)
         /\ q <= Len(s) /\ s[q] = "\\" =>
              StringStep(s, q, g) =
                IF /\ q + 1 <= Len(s) /\ s[q + 1] \in {"\"", "\\", "t"}
                   /\ g[q + 2].ok /\ Len(g[q + 2].value) < MaxString - 1
                THEN Taken(<<IF s[q + 1] = "t" THEN "ctl" ELSE s[q + 1]>> \o g[q + 2].value, g[q + 2].next)
                ELSE Refused
         /\ q <= Len(s) /\ s[q] \notin {"\"", "\\"} =>
              StringStep(s, q, g) =
                IF /\ s[q] # "ctl" /\ g[q + 1].ok /\ Len(g[q + 1].value) < MaxString - 1
                THEN Taken(<<s[q]>> \o g[q + 1].value, g[q + 1].next)
                ELSE Refused
<1>1. ASSUME q = Len(s) + 1 PROVE StringStep(s, q, g) = Refused
  <2>1. ~(q <= Len(s))
    <3>1. Len(s) \in Nat
      OBVIOUS
    <3> QED
      BY <1>1, <3>1
  <2>2. ~At(s, q, {"\\"}) /\ ~At(s, q, {"\""})
    BY <2>1, Zenon DEF At
  <2> QED
    BY <2>1, <2>2, Zenon DEF StringStep
<1>2. ASSUME q <= Len(s), s[q] = "\"" PROVE StringStep(s, q, g) = Taken(<<>>, q + 1)
  <2>1. At(s, q, {"\""})
    BY <1>2 DEF At
  <2> QED
    BY <2>1, Zenon DEF StringStep
<1>3. ASSUME q <= Len(s), s[q] = "\\"
      PROVE  StringStep(s, q, g) =
                IF /\ q + 1 <= Len(s) /\ s[q + 1] \in {"\"", "\\", "t"}
                   /\ g[q + 2].ok /\ Len(g[q + 2].value) < MaxString - 1
                THEN Taken(<<IF s[q + 1] = "t" THEN "ctl" ELSE s[q + 1]>> \o g[q + 2].value, g[q + 2].next)
                ELSE Refused
  <2>1. At(s, q, {"\\"}) /\ ~At(s, q, {"\""}) /\ (q + 1) + 1 = q + 2
    BY <1>3 DEF At
  <2>2. StringStep(s, q, g) =
          IF /\ q + 1 <= Len(s) /\ s[q + 1] \in {"\"", "\\", "t"}
             /\ g[(q + 1) + 1].ok /\ Len(g[(q + 1) + 1].value) < MaxString - 1
          THEN Taken(<<IF s[q + 1] = "t" THEN "ctl" ELSE s[q + 1]>> \o g[(q + 1) + 1].value, g[(q + 1) + 1].next)
          ELSE Refused
    BY <2>1, Zenon DEF StringStep
  <2> QED
    BY <2>1, <2>2, Zenon
<1>4. ASSUME q <= Len(s), s[q] \notin {"\"", "\\"}
      PROVE  StringStep(s, q, g) =
                IF /\ s[q] # "ctl" /\ g[q + 1].ok /\ Len(g[q + 1].value) < MaxString - 1
                THEN Taken(<<s[q]>> \o g[q + 1].value, g[q + 1].next)
                ELSE Refused
  <2>1. ~At(s, q, {"\\"}) /\ ~At(s, q, {"\""})
    BY <1>4 DEF At
  <2> QED
    BY <1>4, <2>1, Zenon DEF StringStep
<1> QED
  BY <1>1, <1>2, <1>3, <1>4, Zenon

\* What g answers everywhere is a refusal, or characters and a place.
WellAnswered(C, s, g) ==
  \A q \in 2 .. (Len(s) + 1) :
     g[q] = Refused \/ \E w \in Seq(C \cup {"ctl"}), x \in Nat : g[q] = Taken(w, x)

\* The scan is well answered.
LEMMA StringAnswers ==
  ASSUME NEW C, NEW s \in Seq(C), NEW g,
         \A q \in 2 .. (Len(s) + 1) : g[q] = StringStep(s, q, g)
  PROVE  WellAnswered(C, s, g)
<1> DEFINE n == Len(s) + 1
           V == Seq(C \cup {"ctl"})
           A(q) == g[q] = Refused \/ \E w \in V, x \in Nat : g[q] = Taken(w, x)
           D == {q \in 2 .. n : ~A(q)}
<1> SUFFICES ASSUME D # {} PROVE FALSE
  BY Zenon DEF WellAnswered
<1>1. n \in Nat /\ D \in SUBSET (1 .. n)
  OBVIOUS
<1>2. PICK q \in D : \A j \in D : j <= q
  BY <1>1, GreatestElement
<1>3. q \in 2 .. n /\ ~A(q) /\ g[q] = StringStep(s, q, g)
  BY <1>2
<1>4. \A j \in (q + 1) .. n : A(j)
  <2> SUFFICES ASSUME NEW j \in (q + 1) .. n, ~A(j) PROVE FALSE
    OBVIOUS
  <2>1. j \in 2 .. n /\ ~(j <= q)
    BY <1>3
  <2>2. j \in D
    BY <2>1, Zenon
  <2> QED
    BY <1>2, <2>1, <2>2
<1>5. ASSUME NEW j \in (q + 1) .. n, NEW c \in C \cup {"ctl"}, g[j].ok
      PROVE  \E w \in V, x \in Nat : Taken(<<c>> \o g[j].value, g[j].next) = Taken(w, x)
  <2>1. g[j] # Refused
    <3>1. ~Refused.ok
      BY DEF Refused
    <3> QED
      BY <1>5, <3>1
  <2>2. PICK w \in V, x \in Nat : g[j] = Taken(w, x)
    BY <1>4, <2>1, Zenon
  <2>3. g[j].value = w /\ g[j].next = x
    BY <2>2 DEF Taken
  <2>4. <<c>> \o w \in V
    OBVIOUS
  <2> HIDE DEF V
  <2> QED
    BY <2>2, <2>3, <2>4, Zenon
<1>6. q \in 1 .. (Len(s) + 1) /\ Len(s) \in Nat /\ \A j \in 1 .. Len(s) : s[j] \in C
  BY <1>3
<1>a. q \in Nat /\ q >= 1 /\ q <= Len(s) + 1 /\ Len(s) \in Nat
  BY <1>6
<1> HIDE DEF A, D
<1>7. CASE q = Len(s) + 1
  <2>1. g[q] = Refused
    BY <1>3, <1>6, <1>7, StringStepCases, Zenon
  <2> QED
    BY <1>3, <2>1, Zenon DEF A
<1>8. CASE q <= Len(s) /\ s[q] = "\""
  <2>1. g[q] = Taken(<<>>, q + 1)
    BY <1>3, <1>6, <1>8, StringStepCases, Zenon
  <2>2. <<>> \in V /\ q + 1 \in Nat
    BY <1>6
  <2> HIDE DEF V
  <2> QED
    BY <1>3, <2>1, <2>2, Zenon DEF A
<1>9. CASE q <= Len(s) /\ s[q] = "\\"
  <2> DEFINE c == IF s[q + 1] = "t" THEN "ctl" ELSE s[q + 1]
             legal == q + 1 <= Len(s) /\ s[q + 1] \in {"\"", "\\", "t"}
             fits == Len(g[q + 2].value) < MaxString - 1
  <2>1. g[q] = IF legal /\ g[q + 2].ok /\ fits
               THEN Taken(<<c>> \o g[q + 2].value, g[q + 2].next) ELSE Refused
    BY <1>3, <1>6, <1>9, StringStepCases, Zenon
  <2>2. ASSUME legal PROVE c \in C \cup {"ctl"} /\ q + 2 \in (q + 1) .. n
    <3>1. q + 1 \in 1 .. Len(s) /\ q + 2 \in (q + 1) .. n
      <4>1. q + 1 <= Len(s)
        BY <2>2, Zenon
      <4> QED
        BY <1>a, <4>1
    <3>2. s[q + 1] \in C
      BY <1>6, <3>1, Zenon
    <3> QED
      BY <3>1, <3>2
  <2> HIDE DEF c, legal, fits
  <2>3. CASE legal /\ g[q + 2].ok /\ fits
    <3>1. \E w \in V, x \in Nat : Taken(<<c>> \o g[q + 2].value, g[q + 2].next) = Taken(w, x)
      BY <1>5, <2>2, <2>3, Zenon
    <3> QED
      BY <1>3, <2>1, <2>3, <3>1, Zenon DEF A
  <2>4. CASE ~(legal /\ g[q + 2].ok /\ fits)
    BY <1>3, <2>1, <2>4, Zenon DEF A
  <2> QED
    BY <2>3, <2>4, Zenon
<1>10. CASE q <= Len(s) /\ s[q] \notin {"\"", "\\"}
  <2> DEFINE c == s[q]
             fits == Len(g[q + 1].value) < MaxString - 1
  <2>1. g[q] = IF c # "ctl" /\ g[q + 1].ok /\ fits
               THEN Taken(<<c>> \o g[q + 1].value, g[q + 1].next) ELSE Refused
    BY <1>3, <1>6, <1>10, StringStepCases, Zenon
  <2>2. c \in C \cup {"ctl"} /\ q + 1 \in (q + 1) .. n
    <3>1. q \in 1 .. Len(s) /\ q + 1 \in (q + 1) .. n
      <4>1. q <= Len(s)
        BY <1>10, Zenon
      <4> QED
        BY <1>a, <4>1
    <3>2. c \in C
      BY <1>6, <3>1, Zenon
    <3> QED
      BY <3>1, <3>2
  <2> HIDE DEF c, fits
  <2>3. CASE c # "ctl" /\ g[q + 1].ok /\ fits
    <3>1. \E w \in V, x \in Nat : Taken(<<c>> \o g[q + 1].value, g[q + 1].next) = Taken(w, x)
      BY <1>5, <2>2, <2>3, Zenon
    <3> QED
      BY <1>3, <2>1, <2>3, <3>1, Zenon DEF A
  <2>4. CASE ~(c # "ctl" /\ g[q + 1].ok /\ fits)
    BY <1>3, <2>1, <2>4, Zenon DEF A
  <2> QED
    BY <2>3, <2>4, Zenon
<1>11. q = Len(s) + 1 \/ q <= Len(s)
  BY <1>6
<1> QED
  BY <1>7, <1>8, <1>9, <1>10, <1>11

\* The SMT solver cannot read a quote, so it gets a name.
Quote == "\""

\* A string from q on, by the character at q: a quote ends it,
LEMMA RestAtQuote ==
  ASSUME NEW C, NEW s \in Seq(C), NEW q \in 1 .. Len(s), ~Escaped(s, q), s[q] = Quote,
         MaxString \in Nat \ {0}
  PROVE  /\ IsRest(s, q) <=> q = Len(s)
         /\ q = Len(s) => Cardinality(Chars(s, q)) = 0
<1>1. ~MayStand(s, q)
  BY Zenon DEF MayStand, Quote
<1>2. q \in 1 .. (Len(s) + 1) /\ Len(s) \in Nat
  OBVIOUS
<1>3. CASE q = Len(s)
  <2>1. Cardinality(Chars(s, q)) = 0
    BY <1>2, <1>3, CharsCounted
  <2>2. \A i \in q .. (Len(s) - 1) : MayStand(s, i)
    BY <1>2, <1>3
  <2>3. 0 < MaxString /\ q <= Len(s)
    BY <1>2, <1>3
  <2> QED
    BY <1>3, <2>1, <2>2, <2>3, Zenon DEF IsRest, Quote
<1>4. CASE q # Len(s)
  <2>1. q \in q .. (Len(s) - 1)
    BY <1>2, <1>4
  <2> QED
    BY <1>1, <1>4, <2>1, Zenon DEF IsRest
<1> QED
  BY <1>3, <1>4

\* a backslash needs a character it may escape, and the string goes on after it,
LEMMA RestAtBackslash ==
  ASSUME NEW C, NEW s \in Seq(C), NEW q \in 1 .. Len(s), ~Escaped(s, q), s[q] = "\\",
         MaxString \in Nat \ {0}
  PROVE  /\ q + 1 <= Len(s) => ~Escaped(s, q + 2)
         /\ IsRest(s, q) <=> /\ q + 2 <= Len(s) /\ s[q + 1] \in {Quote, "\\", "t"}
                             /\ IsRest(s, q + 2) /\ Cardinality(Chars(s, q + 2)) + 1 < MaxString
         /\ q + 2 <= Len(s) => Cardinality(Chars(s, q)) = Cardinality(Chars(s, q + 2)) + 1
<1> DEFINE legal == s[q + 1] \in {Quote, "\\", "t"}
           count(i) == Cardinality(Chars(s, i))
           ended == s[Len(s)] = Quote /\ ~Escaped(s, Len(s))
<1>1. q \in 1 .. (Len(s) + 1) /\ Len(s) \in Nat /\ (q + 1) + 1 = q + 2
  OBVIOUS
<1>2. Escaped(s, q + 1)
  BY EscapesInTurn
<1>3. MayStand(s, q)
  <2>1. s[q] # "ctl" /\ s[q] # Quote
    BY Zenon DEF Quote
  <2> QED
    BY <2>1, Zenon DEF MayStand, Quote
<1>4. MayStand(s, q + 1) <=> legal
  BY <1>2, Zenon DEF MayStand, Quote
<1>5. \A i : IsRest(s, i) <=> /\ i <= Len(s) /\ ended
                              /\ \A k \in i .. (Len(s) - 1) : MayStand(s, k)
                              /\ count(i) < MaxString
  BY Zenon DEF IsRest, Quote
<1>6. q = Len(s) => ~ended
  BY Zenon DEF Quote
<1>7. q + 1 = Len(s) => ~ended
  BY <1>2
<1>8. ASSUME q + 1 <= Len(s) PROVE ~Escaped(s, q + 2)
  <2>1. q + 1 \in 1 .. Len(s)
    BY <1>1, <1>8
  <2> QED
    BY <1>1, <1>2, <2>1, EscapesInTurn
<1>9. ASSUME q + 2 <= Len(s)
      PROVE  count(q) = count(q + 2) + 1 /\ count(q + 2) \in Nat
  <2>1. q + 1 \in 1 .. (Len(s) + 1) /\ q + 2 \in 1 .. (Len(s) + 1) /\ q < Len(s) /\ q + 1 < Len(s)
    BY <1>1, <1>9
  <2>2. count(q) = count(q + 1) + (IF s[q] # "\\" \/ Escaped(s, q) THEN 1 ELSE 0)
    BY <1>1, <2>1, CharsCounted
  <2>3. count(q + 1) = count((q + 1) + 1) + (IF s[q + 1] # "\\" \/ Escaped(s, q + 1) THEN 1 ELSE 0)
    BY <2>1, CharsCounted, Zenon
  <2>4. count(q + 2) \in Nat /\ count(q + 1) \in Nat
    BY <2>1, CharsCounted
  <2> HIDE DEF count
  <2> QED
    BY <1>1, <1>2, <2>2, <2>3, <2>4
<1> HIDE DEF legal, ended, count
<1>10. CASE q + 2 <= Len(s)
  <2>1. (\A k \in q .. (Len(s) - 1) : MayStand(s, k)) <=>
          legal /\ \A k \in (q + 2) .. (Len(s) - 1) : MayStand(s, k)
    <3>1. \A k \in q .. (Len(s) - 1) : k = q \/ k = q + 1 \/ k \in (q + 2) .. (Len(s) - 1)
      BY <1>1
    <3>2. q + 1 \in q .. (Len(s) - 1) /\ \A k \in (q + 2) .. (Len(s) - 1) : k \in q .. (Len(s) - 1)
      BY <1>1, <1>10
    <3> QED
      BY <1>3, <1>4, <3>1, <3>2, Zenon
  <2>2. q <= Len(s)
    OBVIOUS
  <2>3. count(q) < MaxString <=> count(q + 2) + 1 < MaxString
    BY <1>9, <1>10
  <2>4. count(q + 2) + 1 < MaxString => count(q + 2) < MaxString
    BY <1>9, <1>10
  <2>5. IsRest(s, q) <=> q + 2 <= Len(s) /\ legal /\ IsRest(s, q + 2) /\ count(q + 2) + 1 < MaxString
    BY <1>5, <1>10, <2>1, <2>2, <2>3, <2>4, Zenon
  <2>6. q + 1 <= Len(s)
    BY <1>1, <1>10
  <2> QED
    BY <1>8, <1>9, <1>10, <2>5, <2>6, Zenon DEF legal, count
<1>11. CASE ~(q + 2 <= Len(s))
  <2>1. q = Len(s) \/ q + 1 = Len(s)
    BY <1>1, <1>11
  <2>2. ~IsRest(s, q)
    BY <1>5, <1>6, <1>7, <2>1, Zenon
  <2> QED
    BY <1>8, <1>11, <2>2, Zenon
<1> QED
  BY <1>10, <1>11, Zenon

\* and any other character but a control character is one of it.
LEMMA RestAtCharacter ==
  ASSUME NEW C, NEW s \in Seq(C), NEW q \in 1 .. Len(s), ~Escaped(s, q), s[q] \notin {Quote, "\\"},
         MaxString \in Nat \ {0}
  PROVE  /\ ~Escaped(s, q + 1)
         /\ IsRest(s, q) <=> /\ q + 1 <= Len(s) /\ s[q] # "ctl"
                             /\ IsRest(s, q + 1) /\ Cardinality(Chars(s, q + 1)) + 1 < MaxString
         /\ q + 1 <= Len(s) => Cardinality(Chars(s, q)) = Cardinality(Chars(s, q + 1)) + 1
<1> DEFINE count(i) == Cardinality(Chars(s, i))
           ended == s[Len(s)] = Quote /\ ~Escaped(s, Len(s))
           plain == s[q] # "ctl"
<1>0. s[q] # Quote /\ s[q] # "\\"
  BY Zenon
<1>1. q \in 1 .. (Len(s) + 1) /\ Len(s) \in Nat /\ q <= Len(s)
  <2>1. q \in 1 .. Len(s) /\ s \in Seq(C)
    BY Zenon
  <2> QED
    BY <2>1
<1>2. ~Escaped(s, q + 1)
  BY <1>0, EscapesInTurn, Zenon
<1>3. MayStand(s, q) <=> plain
  BY <1>0, Zenon DEF MayStand, Quote
<1>5. \A i : IsRest(s, i) <=> /\ i <= Len(s) /\ ended
                              /\ \A k \in i .. (Len(s) - 1) : MayStand(s, k)
                              /\ count(i) < MaxString
  BY Zenon DEF IsRest, Quote
<1>6. q = Len(s) => ~ended
  BY <1>0, Zenon
<1>9. ASSUME q + 1 <= Len(s)
      PROVE  count(q) = count(q + 1) + 1 /\ count(q + 1) \in Nat
  <2>1. q + 1 \in 1 .. (Len(s) + 1) /\ q < Len(s)
    <3> HIDE DEF ended
    <3> QED
      BY <1>1, <1>9
  <2>2. count(q) = count(q + 1) + (IF s[q] # "\\" \/ Escaped(s, q) THEN 1 ELSE 0)
    BY <1>1, <2>1, CharsCounted, Zenon
  <2>3. count(q) = count(q + 1) + 1
    BY <1>0, <2>2, Zenon
  <2>4. count(q + 1) \in Nat
    BY <2>1, CharsCounted, Zenon
  <2> QED
    BY <2>3, <2>4, Zenon
<1> HIDE DEF ended, count, plain
<1>10. CASE q + 1 <= Len(s)
  <2>1. (\A k \in q .. (Len(s) - 1) : MayStand(s, k)) <=>
          plain /\ \A k \in (q + 1) .. (Len(s) - 1) : MayStand(s, k)
    <3>1. \A k \in q .. (Len(s) - 1) : k = q \/ k \in (q + 1) .. (Len(s) - 1)
      BY <1>1
    <3>2. q \in q .. (Len(s) - 1) /\ \A k \in (q + 1) .. (Len(s) - 1) : k \in q .. (Len(s) - 1)
      BY <1>1, <1>10
    <3> QED
      BY <1>3, <3>1, <3>2, Zenon
  <2>3. (count(q) < MaxString <=> count(q + 1) + 1 < MaxString)
        /\ (count(q + 1) + 1 < MaxString => count(q + 1) < MaxString)
    BY <1>9, <1>10
  <2>5. IsRest(s, q) <=> q + 1 <= Len(s) /\ plain /\ IsRest(s, q + 1) /\ count(q + 1) + 1 < MaxString
    BY <1>1, <1>5, <1>10, <2>1, <2>3, Zenon
  <2> QED
    BY <1>2, <1>9, <1>10, <2>5, Zenon DEF plain, count
<1>11. CASE ~(q + 1 <= Len(s))
  <2>1. q = Len(s)
    BY <1>1, <1>11
  <2>2. ~IsRest(s, q)
    BY <1>5, <1>6, <2>1, Zenon
  <2> QED
    BY <1>2, <1>11, <2>2, Zenon
<1> QED
  BY <1>10, <1>11, Zenon

\* From every place that is not escaped the scan takes the rest of a string, counting
\* its characters, or none.
LEMMA StringScanAgrees ==
  ASSUME NEW C, NEW s \in Seq(C), MaxString \in Nat \ {0}, NEW g,
         \A q \in 2 .. (Len(s) + 1) : g[q] = StringStep(s, q, g)
  PROVE  \A q \in 2 .. (Len(s) + 1) : ~Escaped(s, q) =>
            ((g[q].ok /\ g[q].next = Len(s) + 1) <=> IsRest(s, q))
<1>0. \A j \in 2 .. (Len(s) + 1) :
         g[j] = Refused \/ \E w \in Seq(C \cup {"ctl"}), x \in Nat : g[j] = Taken(w, x)
  <2>1. WellAnswered(C, s, g)
    BY StringAnswers, Zenon
  <2> QED
    BY <2>1, Zenon DEF WellAnswered
<1> DEFINE n == Len(s) + 1
           count(q) == Cardinality(Chars(s, q))
           Whole(q) == g[q].ok /\ g[q].next = n
           Agrees(q) == (Whole(q) <=> IsRest(s, q)) /\ (Whole(q) => Len(g[q].value) = count(q))
           D == {q \in 2 .. n : ~Escaped(s, q) /\ ~Agrees(q)}
<1>1. D = {}
  <2> SUFFICES ASSUME D # {} PROVE FALSE
    OBVIOUS
  <2>1. n \in Nat /\ D \in SUBSET (1 .. n) /\ Len(s) \in Nat
    OBVIOUS
  <2>2. PICK q \in D : \A j \in D : j <= q
    BY <2>1, GreatestElement
  <2>3. q \in 2 .. n /\ ~Escaped(s, q) /\ ~Agrees(q)
    BY <2>2
  <2>4. q \in 1 .. n /\ q \in Nat /\ g[q] = StringStep(s, q, g)
    BY <2>1, <2>3
  <2>5. \A j \in (q + 1) .. n : ~Escaped(s, j) => Agrees(j)
    <3> SUFFICES ASSUME NEW j \in (q + 1) .. n, ~Escaped(s, j), ~Agrees(j) PROVE FALSE
      BY Zenon
    <3>1. j \in 2 .. n /\ ~(j <= q)
      BY <2>3
    <3> QED
      BY <2>2, <3>1, Zenon
  <2>6. \A j \in 2 .. n : g[j] = Refused \/ \E w \in Seq(C \cup {"ctl"}), x \in Nat : g[j] = Taken(w, x)
    BY <1>0
  <2>7. \A w, x : Taken(w, x).ok /\ Taken(w, x).value = w /\ Taken(w, x).next = x
    BY DEF Taken
  <2>8. ~Refused.ok
    BY DEF Refused
  <2> HIDE DEF D
  <2>9. ASSUME NEW j \in (q + 1) .. n, NEW c, NEW legal \in BOOLEAN,
               legal => ~Escaped(s, j) /\ c \in C \cup {"ctl"},
               g[q] = IF legal /\ g[j].ok /\ Len(g[j].value) < MaxString - 1
                      THEN Taken(<<c>> \o g[j].value, g[j].next) ELSE Refused,
               IsRest(s, q) <=> legal /\ IsRest(s, j) /\ count(j) + 1 < MaxString,
               legal /\ IsRest(s, j) => count(q) = count(j) + 1
        PROVE  Agrees(q)
    <3>1. j \in 2 .. n
      BY <2>3
    <3> HIDE DEF n, Agrees
    <3>2. CASE ~legal
      <4>1. ~IsRest(s, q) /\ ~g[q].ok
        BY <2>8, <2>9, <3>2, Zenon
      <4> QED
        BY <4>1, Zenon DEF Agrees
    <3>3. CASE legal /\ ~IsRest(s, j)
      <4>1. Agrees(j)
        BY <2>5, <2>9, <3>3, Zenon
      <4>2. ~Whole(j) /\ ~IsRest(s, q)
        BY <2>9, <3>3, <4>1, Zenon DEF Agrees
      <4>3. g[q] = Refused \/ (g[j].ok /\ g[q] = Taken(<<c>> \o g[j].value, g[j].next))
        BY <2>9, Zenon
      <4>4. ~Whole(q)
        BY <2>7, <2>8, <4>2, <4>3
      <4> QED
        BY <4>2, <4>4, Zenon DEF Agrees
    <3>4. CASE legal /\ IsRest(s, j)
      <4>1. Agrees(j)
        BY <2>5, <2>9, <3>4, Zenon
      <4>2. Whole(j) /\ Len(g[j].value) = count(j)
        BY <3>4, <4>1, Zenon DEF Agrees
      <4>3. PICK w \in Seq(C \cup {"ctl"}), x \in Nat : g[j] = Taken(w, x)
        BY <2>6, <2>8, <3>1, <4>2, Zenon
      <4>4. g[j].value = w /\ g[j].next = x /\ Len(w) = count(j) /\ x = n
        BY <2>7, <4>2, <4>3
      <4>5. c \in C \cup {"ctl"}
        BY <2>9, <3>4
      <4>6. Len(w) \in Nat /\ Len(<<c>> \o w) = Len(w) + 1
        BY <4>5
      <4>7. Len(w) < MaxString - 1 <=> count(j) + 1 < MaxString
        <5> HIDE DEF count
        <5> QED
          BY <4>4, <4>6
      <4>8. g[q] = IF count(j) + 1 < MaxString THEN Taken(<<c>> \o w, n) ELSE Refused
        BY <2>9, <3>4, <4>2, <4>4, <4>7, Zenon
      <4>9. IsRest(s, q) <=> count(j) + 1 < MaxString
        BY <2>9, <3>4, Zenon
      <4>10. count(q) = count(j) + 1
        BY <2>9, <3>4, Zenon
      <4>11. Len(<<c>> \o w) = count(q)
        <5> HIDE DEF count
        <5> QED
          BY <4>4, <4>6, <4>10
      <4>12. CASE count(j) + 1 < MaxString
        <5>1. Whole(q) /\ Len(g[q].value) = count(q)
          <6> DEFINE t == Taken(<<c>> \o w, n)
          <6>1. t.ok /\ t.next = n /\ t.value = <<c>> \o w
            BY <2>7, Zenon
          <6>2. g[q] = t
            BY <4>8, <4>12, Zenon
          <6> HIDE DEF t
          <6> QED
            BY <4>11, <6>1, <6>2
        <5> QED
          BY <4>9, <4>12, <5>1, Zenon DEF Agrees
      <4>13. CASE ~(count(j) + 1 < MaxString)
        <5>1. ~Whole(q)
          BY <2>8, <4>8, <4>13, Zenon
        <5> QED
          BY <4>9, <4>13, <5>1, Zenon DEF Agrees
      <4> QED
        BY <4>12, <4>13, Zenon
    <3> QED
      BY <3>2, <3>3, <3>4, Zenon
  <2>10. CASE q = Len(s) + 1
    <3>1. g[q] = Refused
      BY <2>4, <2>10, StringStepCases, Zenon
    <3>2. ~(q <= Len(s))
      BY <2>1, <2>10
    <3>3. ~IsRest(s, q)
      BY <3>2, Zenon DEF IsRest
    <3> QED
      BY <2>3, <2>8, <3>1, <3>3, Zenon
  <2>11. CASE q <= Len(s) /\ s[q] = Quote
    <3>1. g[q] = Taken(<<>>, q + 1)
      BY <2>4, <2>11, StringStepCases, Zenon DEF Quote
    <3>2. q \in 1 .. Len(s)
      BY <2>1, <2>4, <2>11
    <3>3. (IsRest(s, q) <=> q = Len(s)) /\ (q = Len(s) => count(q) = 0)
      BY <2>3, <2>11, <3>2, RestAtQuote, Zenon
    <3>4. q + 1 = n <=> q = Len(s)
      BY <2>1, <2>4
    <3>5. Len(<<>>) = 0
      OBVIOUS
    <3> HIDE DEF n, count
    <3>6. Agrees(q)
      BY <2>7, <3>1, <3>3, <3>4, <3>5
    <3> QED
      BY <2>3, <3>6, Zenon
  <2>12. CASE q <= Len(s) /\ s[q] = "\\"
    <3> DEFINE c == IF s[q + 1] = "t" THEN "ctl" ELSE s[q + 1]
               legal == q + 1 <= Len(s) /\ s[q + 1] \in {Quote, "\\", "t"}
    <3>1. g[q] = IF legal /\ g[q + 2].ok /\ Len(g[q + 2].value) < MaxString - 1
                 THEN Taken(<<c>> \o g[q + 2].value, g[q + 2].next) ELSE Refused
      <4>1. g[q] = IF /\ q + 1 <= Len(s) /\ s[q + 1] \in {Quote, "\\", "t"}
                   /\ g[q + 2].ok /\ Len(g[q + 2].value) < MaxString - 1
                   THEN Taken(<<c>> \o g[q + 2].value, g[q + 2].next) ELSE Refused
        BY <2>4, <2>12, StringStepCases, Zenon DEF Quote
      <4> QED
        BY <4>1, Zenon
    <3>2. q \in 1 .. Len(s)
      BY <2>1, <2>4, <2>12
    <3>3. /\ q + 1 <= Len(s) => ~Escaped(s, q + 2)
          /\ IsRest(s, q) <=> /\ q + 2 <= Len(s) /\ s[q + 1] \in {Quote, "\\", "t"}
                              /\ IsRest(s, q + 2) /\ count(q + 2) + 1 < MaxString
          /\ q + 2 <= Len(s) => count(q) = count(q + 2) + 1
      BY <2>3, <2>12, <3>2, RestAtBackslash, Zenon
    <3>4. IsRest(s, q + 2) => q + 2 <= Len(s)
      BY Zenon DEF IsRest
    <3>5. q + 2 <= Len(s) => q + 1 <= Len(s)
      BY <2>1, <2>4
    <3>6. IsRest(s, q) <=> legal /\ IsRest(s, q + 2) /\ count(q + 2) + 1 < MaxString
      BY <3>3, <3>4, <3>5, Zenon
    <3>7. q + 1 <= Len(s) => q + 2 \in (q + 1) .. n /\ c \in C \cup {"ctl"}
      <4> SUFFICES ASSUME q + 1 <= Len(s) PROVE q + 2 \in (q + 1) .. n /\ c \in C \cup {"ctl"}
        BY Zenon
      <4>1. q + 1 \in 1 .. Len(s) /\ q + 2 \in (q + 1) .. n
        BY <2>1, <2>4
      <4>2. s[q + 1] \in C
        BY <4>1
      <4> QED
        BY <4>1, <4>2
    <3>8. CASE q + 1 <= Len(s)
      <4>1. q + 2 \in (q + 1) .. n /\ (legal => ~Escaped(s, q + 2) /\ c \in C \cup {"ctl"})
        BY <3>3, <3>7, <3>8, Zenon
      <4>2. legal /\ IsRest(s, q + 2) => count(q) = count(q + 2) + 1
        BY <3>3, <3>4, Zenon
      <4>3. legal \in BOOLEAN
        BY Zenon
      <4> HIDE DEF legal, c, n, count, Agrees
      <4>4. Agrees(q)
        BY <2>9, <3>1, <3>6, <4>1, <4>2, <4>3, Zenon
      <4> QED
        BY <2>3, <4>4, Zenon
    <3>9. CASE ~(q + 1 <= Len(s))
      <4>1. g[q] = Refused /\ ~IsRest(s, q)
        BY <3>1, <3>6, <3>9, Zenon
      <4> QED
        BY <2>3, <2>8, <4>1, Zenon
    <3> QED
      BY <3>8, <3>9, Zenon
  <2>13. CASE q <= Len(s) /\ s[q] \notin {Quote, "\\"}
    <3> DEFINE legal == s[q] # "ctl"
    <3>1. g[q] = IF legal /\ g[q + 1].ok /\ Len(g[q + 1].value) < MaxString - 1
                 THEN Taken(<<s[q]>> \o g[q + 1].value, g[q + 1].next) ELSE Refused
      BY <2>4, <2>13, StringStepCases, Zenon DEF Quote
    <3>2. q \in 1 .. Len(s)
      BY <2>1, <2>4, <2>13
    <3>3. /\ ~Escaped(s, q + 1)
          /\ IsRest(s, q) <=> /\ q + 1 <= Len(s) /\ legal
                              /\ IsRest(s, q + 1) /\ count(q + 1) + 1 < MaxString
          /\ q + 1 <= Len(s) => count(q) = count(q + 1) + 1
      BY <2>3, <2>13, <3>2, RestAtCharacter, Zenon
    <3>4. IsRest(s, q + 1) => q + 1 <= Len(s)
      BY Zenon DEF IsRest
    <3>6. IsRest(s, q) <=> legal /\ IsRest(s, q + 1) /\ count(q + 1) + 1 < MaxString
      BY <3>3, <3>4, Zenon
    <3>7. q + 1 \in (q + 1) .. n /\ s[q] \in C
      BY <2>1, <2>4, <3>2
    <3>8. legal => ~Escaped(s, q + 1) /\ s[q] \in C \cup {"ctl"}
      BY <3>3, <3>7, Zenon
    <3>9. legal /\ IsRest(s, q + 1) => count(q) = count(q + 1) + 1
      BY <3>3, <3>4, Zenon
    <3>10. legal \in BOOLEAN
      BY Zenon
    <3> HIDE DEF legal, n, count, Agrees
    <3>11. Agrees(q)
      BY <2>9, <3>1, <3>6, <3>7, <3>8, <3>9, <3>10, Zenon
    <3> QED
      BY <2>3, <3>11, Zenon
  <2>14. q = Len(s) + 1 \/ q <= Len(s)
    BY <2>1, <2>4
  <2> QED
    BY <2>10, <2>11, <2>12, <2>13, <2>14, Zenon
<1>2. \A q \in 2 .. n : ~Escaped(s, q) => Agrees(q)
  BY <1>1, Zenon
<1> QED
  BY <1>2, Zenon

\* command_parser.c takes a text of any length for a string exactly when its quotes,
\* its escapes and its length are those of the grammar (ParseString).
THEOREM StringsAreOfTheGrammar ==
  ASSUME NEW C, NEW s \in Seq(C), MaxString \in Nat \ {0}
  PROVE  (ParseString(s, 1).ok /\ ParseString(s, 1).next = Len(s) + 1) <=> IsString(s)
<1>1. PICK g : /\ \A q \in 2 .. (Len(s) + 1) : g[q] = StringStep(s, q, g)
               /\ ParseString(s, 1) = IF At(s, 1, {"\""}) THEN g[2] ELSE Refused
  BY ParseStringIsScan, Zenon
<1>2. Len(s) \in Nat
  OBVIOUS
<1>3. IsString(s) <=> Len(s) >= 1 /\ s[1] = Quote /\ IsRest(s, 2)
  BY StringIsRest, Zenon DEF Quote
<1>4. At(s, 1, {"\""}) <=> Len(s) >= 1 /\ s[1] = Quote
  <2>1. At(s, 1, {Quote}) <=> Len(s) >= 1 /\ s[1] = Quote
    BY <1>2 DEF At
  <2> QED
    BY <2>1, Zenon DEF Quote
<1>5. CASE Len(s) >= 1 /\ s[1] = Quote
  <2>1. ParseString(s, 1) = g[2]
    BY <1>1, <1>4, <1>5, Zenon
  <2>2. 2 \in 2 .. (Len(s) + 1) /\ 1 \in 1 .. Len(s)
    BY <1>2, <1>5
  <2>3. ~Escaped(s, 2)
    <3>1. s[1] # "\\"
      BY <1>5, Zenon DEF Quote
    <3>2. 1 + 1 = 2
      OBVIOUS
    <3> QED
      BY <2>2, <3>1, <3>2, EscapesInTurn, Zenon
  <2>4. (g[2].ok /\ g[2].next = Len(s) + 1) <=> IsRest(s, 2)
    BY <1>1, <2>2, <2>3, StringScanAgrees, Zenon
  <2> QED
    BY <1>3, <1>5, <2>1, <2>4, Zenon
<1>6. CASE ~(Len(s) >= 1 /\ s[1] = Quote)
  <2>1. ParseString(s, 1) = Refused
    BY <1>1, <1>4, <1>6, Zenon
  <2>2. ~Refused.ok
    BY DEF Refused
  <2> QED
    BY <1>3, <1>6, <2>1, <2>2, Zenon
<1> QED
  BY <1>5, <1>6, Zenon

-----------------------------------------------------------------------------
(* Messages *)

\* One step of Object, g being what it answers further on.
ObjectStep(s, p, g) ==
  LET field  == s[p]
      expect == s[p - 1] = ","
      well   == /\ At(s, p, NameStrings) /\ At(s, p + 1, {":"})
                /\ field \in Fields /\ At(s, p + 2, Accepted(field))
                /\ At(s, p + 3, {",", "}"})
      rest   == g[IF s[p + 3] = "," THEN p + 4 ELSE p + 3]
      given  == [f \in DOMAIN rest.value \cup {field} |->
                   IF f = field THEN s[p + 2] ELSE rest.value[f]]
  IN  IF At(s, p, {"}"})
      THEN IF expect THEN Refused ELSE Taken(<<>>, p + 1)
      ELSE IF well /\ rest.ok /\ field \notin DOMAIN rest.value
      THEN Taken(given, rest.next)
      ELSE Refused

\* A step looks at the answers further on only.
LEMMA ObjectStepLooksAhead ==
  ASSUME NEW C, NEW s \in Seq(C), NEW p \in 2 .. (Len(s) + 1), NEW g, NEW h,
         \A k \in (p + 1) .. (Len(s) + 1) : g[k] = h[k]
  PROVE  ObjectStep(s, p, g) = ObjectStep(s, p, h)
<1>1. CASE p + 3 <= Len(s)
  <2>1. p + 4 \in (p + 1) .. (Len(s) + 1) /\ p + 3 \in (p + 1) .. (Len(s) + 1)
    BY <1>1
  <2>2. g[p + 4] = h[p + 4] /\ g[p + 3] = h[p + 3]
    BY <2>1
  <2>3. g[IF s[p + 3] = "," THEN p + 4 ELSE p + 3] = h[IF s[p + 3] = "," THEN p + 4 ELSE p + 3]
    BY <2>2, Zenon
  <2> QED
    BY <2>3, Zenon DEF ObjectStep
<1>2. CASE ~(p + 3 <= Len(s))
  <2>1. ~At(s, p + 3, {",", "}"})
    BY <1>2, Zenon DEF At
  <2> QED
    BY <2>1, Zenon DEF ObjectStep
<1> QED
  BY <1>1, <1>2

\* g is what the object's loop answers from every place after the brace.
IsObjectScan(s, g) == g = [p \in 2 .. (Len(s) + 1) |-> ObjectStep(s, p, g)]

\* There is such a function, however long the message.
LEMMA ObjectScanExists ==
  ASSUME NEW C, NEW s \in Seq(C)
  PROVE  \E g : IsObjectScan(s, g)
<1> DEFINE n == Len(s) + 1
           Sol(m, g) == g = [q \in m .. n |-> ObjectStep(s, q, g)]
           T == {d \in Nat : d < n /\ ~ \E g : Sol(n + 1 - d, g)}
<1>1. n \in Nat /\ n >= 1
  OBVIOUS
<1>2. T = {}
  <2> SUFFICES ASSUME T # {} PROVE FALSE
    OBVIOUS
  <2>1. T \in SUBSET Nat
    OBVIOUS
  <2>2. PICK d \in T : \A e \in T : d <= e
    BY <2>1, LeastElement
  <2>3. d \in Nat /\ d < n /\ ~ \E g : Sol(n + 1 - d, g)
    BY <2>2
  <2> DEFINE m == n + 1 - d
  <2>4. CASE d = 0
    <3> DEFINE g == [q \in m .. n |-> 0]
    <3>1. m .. n = {}
      BY <1>1, <2>4
    <3> HIDE DEF m, n
    <3>2. g = [q \in m .. n |-> ObjectStep(s, q, g)]
      BY <3>1
    <3> QED
      BY <2>3, <3>2, Zenon DEF m
  <2>5. CASE d > 0
    <3>1. d - 1 \in Nat /\ d - 1 < n /\ ~(d <= d - 1) /\ n + 1 - (d - 1) = m + 1 /\ m \in 2 .. n
      BY <1>1, <2>3, <2>5
    <3>2. d - 1 \notin T
      BY <2>2, <3>1, Zenon
    <3>3. \E g : Sol(n + 1 - (d - 1), g)
      BY <3>1, <3>2, Zenon
    <3>4. PICK g : g = [q \in (m + 1) .. n |-> ObjectStep(s, q, g)]
      BY <3>1, <3>3, Zenon
    <3> DEFINE h == [q \in m .. n |-> IF q = m THEN ObjectStep(s, m, g) ELSE g[q]]
    <3> HIDE DEF m, n, T
    <3>5. \A k \in (m + 1) .. n : g[k] = h[k] /\ k \in m .. n
      BY <3>1
    <3>6. \A q \in m .. n : h[q] = ObjectStep(s, q, h)
      <4> SUFFICES ASSUME NEW q \in m .. n PROVE h[q] = ObjectStep(s, q, h)
        OBVIOUS
      <4>1. h[q] = ObjectStep(s, q, g)
        <5>1. CASE q = m
          BY <5>1
        <5>2. CASE q # m
          <6>1. q \in (m + 1) .. n
            BY <3>1, <5>2
          <6>2. g[q] = ObjectStep(s, q, g) /\ h[q] = g[q]
            BY <3>4, <3>5, <6>1
          <6> QED
            BY <6>2
        <5> QED
          BY <5>1, <5>2
      <4>2. q \in 2 .. (Len(s) + 1) /\ \A k \in (q + 1) .. (Len(s) + 1) : g[k] = h[k]
        <5>1. \A k \in (q + 1) .. n : k \in (m + 1) .. n
          BY <3>1
        <5>2. q \in 2 .. n
          BY <3>1
        <5> HIDE DEF h
        <5> QED
          BY <3>5, <5>1, <5>2, Zenon DEF n
      <4> HIDE DEF h
      <4> QED
        BY <4>1, <4>2, ObjectStepLooksAhead, Zenon
    <3>7. h = [q \in m .. n |-> h[q]]
      OBVIOUS
    <3> HIDE DEF h
    <3>8. h = [q \in m .. n |-> ObjectStep(s, q, h)]
      BY <3>6, <3>7
    <3> QED
      BY <2>3, <3>8, Zenon DEF m
  <2> QED
    BY <2>3, <2>4, <2>5
<1>3. n - 1 \in Nat /\ n - 1 < n /\ n + 1 - (n - 1) = 2
  BY <1>1
<1>4. n - 1 \notin T
  BY <1>2
<1>5. \E g : Sol(n + 1 - (n - 1), g)
  BY <1>3, <1>4, Zenon
<1> QED
  BY <1>3, <1>5, Zenon DEF IsObjectScan

\* Object answers what its loop answers after the brace.
LEMMA ObjectIsScan ==
  ASSUME NEW C, NEW s \in Seq(C)
  PROVE  \E g : /\ \A p \in 2 .. (Len(s) + 1) : g[p] = ObjectStep(s, p, g)
                /\ Object(s) = g[2]
<1> DEFINE g == CHOOSE g : IsObjectScan(s, g)
<1>1. IsObjectScan(s, g)
  BY ObjectScanExists, Zenon
<1>2. Object(s) = g[2]
  BY Zenon DEF Object, IsObjectScan, ObjectStep
<1> HIDE DEF g
<1>3. \A p \in 2 .. (Len(s) + 1) : g[p] = ObjectStep(s, p, g)
  BY <1>1, Zenon DEF IsObjectScan
<1> QED
  BY <1>2, <1>3, Zenon

\* The tokens that are neither a name nor a value.
Punctuation == {"{", "}", ",", ":"}

\* What each field takes, guard by guard.
LEMMA AcceptedIs ==
  ASSUME NEW f \in Fields
  PROVE  /\ f \in {"id"} \cup Periods => Accepted(f) = {"7"}
         /\ f = "light_calibration" => Accepted(f) = {"7", "1.5"}
         /\ f \in Entities => Accepted(f) = {"entity"}
         /\ f = "command" => Accepted(f) = ShortStrings
<1>1. CASE f \in {"id"} \cup Periods
  <2>1. f # "light_calibration" /\ f \notin Entities /\ f # "command"
    BY <1>1 DEF Periods, Entities
  <2> QED
    BY <1>1, <2>1, Zenon DEF Accepted
<1>2. CASE f = "light_calibration"
  <2>1. f \notin {"id"} \cup Periods /\ f \notin Entities /\ f # "command"
    BY <1>2 DEF Periods, Entities
  <2> QED
    BY <1>2, <2>1, Zenon DEF Accepted
<1>3. CASE f \in Entities
  <2>1. f \notin {"id"} \cup Periods /\ f # "light_calibration" /\ f # "command"
    BY <1>3 DEF Periods, Entities
  <2> QED
    BY <1>3, <2>1, Zenon DEF Accepted
<1>4. CASE f = "command"
  <2>1. f \notin {"id"} \cup Periods /\ f # "light_calibration" /\ f \notin Entities
    BY <1>4 DEF Periods, Entities
  <2> QED
    BY <1>4, <2>1, Zenon DEF Accepted
<1>5. f \in {"id"} \cup Periods \/ f = "light_calibration" \/ f \in Entities \/ f = "command"
  BY DEF Fields, Settings
<1> QED
  BY <1>1, <1>2, <1>3, <1>4, <1>5, Zenon

\* No field and no value is punctuation; every field is a name.
LEMMA NoPunctuation ==
  ASSUME NEW f \in Fields
  PROVE  f \in NameStrings /\ f \notin Punctuation /\ Accepted(f) \cap Punctuation = {}
<1>1. f \in NameStrings
  BY DEF NameStrings, ShortStrings
<1>2. f \notin Punctuation
  BY DEF Punctuation, Fields, Settings, Periods, Entities
<1>3. ShortStrings \cap Punctuation = {}
  BY DEF Punctuation, ShortStrings, Fields, Settings, Periods, Entities, CommandTypes
<1>4. /\ {"7"} \cap Punctuation = {} /\ {"7", "1.5"} \cap Punctuation = {}
      /\ {"entity"} \cap Punctuation = {}
  BY DEF Punctuation
<1>5. f \in {"id"} \cup Periods \/ f = "light_calibration" \/ f \in Entities \/ f = "command"
  BY DEF Fields, Settings
<1> QED
  BY <1>1, <1>2, <1>3, <1>4, <1>5, AcceptedIs, Zenon

\* The i-th name of a message, its value, the token between and the one after it.
NameOf(s, i)  == s[4 * i - 2]
ColonOf(s, i) == s[4 * i - 1]
ValueOf(s, i) == s[4 * i]
AfterOf(s, i) == s[4 * i + 1]

\* How many pairs a message has, if it is one.
Pairs(s) == Len(s) \div 4

\* The i-th pair is one a command may have.
IsPair(s, i) ==
  NameOf(s, i) \in Fields /\ ColonOf(s, i) = ":" /\ ValueOf(s, i) \in Accepted(NameOf(s, i))

\* The pairs from the i-th on are the rest of a message, no name twice.
Closes(s, i) ==
  /\ Len(s) = 4 * Pairs(s) + 1 /\ i <= Pairs(s)
  /\ \A k \in i .. Pairs(s) :
       IsPair(s, k) /\ AfterOf(s, k) = IF k < Pairs(s) THEN "," ELSE "}"
  /\ \A k, l \in i .. Pairs(s) : k < l => NameOf(s, k) # NameOf(s, l)

\* The names of the pairs from the i-th on.
NamesFrom(s, i) == {NameOf(s, k) : k \in i .. Pairs(s)}

\* One more pair in front of a rest.
LEMMA ClosesFrom ==
  ASSUME NEW C, NEW s \in Seq(C), NEW i \in Nat
  PROVE  /\ Closes(s, i) <=>
              /\ 4 * i + 1 <= Len(s) /\ IsPair(s, i)
              /\ \/ AfterOf(s, i) = "," /\ Closes(s, i + 1) /\ NameOf(s, i) \notin NamesFrom(s, i + 1)
                 \/ AfterOf(s, i) = "}" /\ Len(s) = 4 * i + 1
         /\ i <= Pairs(s) => NamesFrom(s, i) = {NameOf(s, i)} \cup NamesFrom(s, i + 1)
         /\ Len(s) = 4 * i + 1 => NamesFrom(s, i + 1) = {}
<1> DEFINE n == Pairs(s)
<1>1. n \in Nat /\ 4 * n <= Len(s) /\ Len(s) < 4 * n + 4 /\ Len(s) \in Nat
  BY DEF Pairs
<1> HIDE DEF n
<1>2. Len(s) = 4 * i + 1 => n = i
  BY <1>1
<1>3. NamesFrom(s, i) = {NameOf(s, k) : k \in i .. n} /\ NamesFrom(s, i + 1) = {NameOf(s, k) : k \in (i + 1) .. n}
  BY Zenon DEF NamesFrom, n
<1>4. i <= n => i .. n = {i} \cup ((i + 1) .. n)
  BY <1>1
<1>5. i <= Pairs(s) => NamesFrom(s, i) = {NameOf(s, i)} \cup NamesFrom(s, i + 1)
  <2> HAVE i <= Pairs(s)
  <2>1. i .. n = {i} \cup ((i + 1) .. n)
    BY <1>4 DEF n
  <2> QED
    BY <1>3, <2>1
<1>6. Len(s) = 4 * i + 1 => NamesFrom(s, i + 1) = {}
  <2> HAVE Len(s) = 4 * i + 1
  <2>1. (i + 1) .. n = {}
    BY <1>1, <1>2
  <2> QED
    BY <1>3, <2>1
<1> DEFINE After(k) == AfterOf(s, k) = IF k < n THEN "," ELSE "}"
           Distinct(j) == \A k, l \in j .. n : k < l => NameOf(s, k) # NameOf(s, l)
<1>7. \A j : Closes(s, j) <=> /\ Len(s) = 4 * n + 1 /\ j <= n
                              /\ \A k \in j .. n : IsPair(s, k) /\ After(k)
                              /\ Distinct(j)
  BY Zenon DEF Closes, n
<1> HIDE DEF Distinct
<1>8. ASSUME Closes(s, i)
      PROVE  /\ 4 * i + 1 <= Len(s) /\ IsPair(s, i)
             /\ \/ AfterOf(s, i) = "," /\ Closes(s, i + 1) /\ NameOf(s, i) \notin NamesFrom(s, i + 1)
                \/ AfterOf(s, i) = "}" /\ Len(s) = 4 * i + 1
  <2>1. /\ Len(s) = 4 * n + 1 /\ i <= n
        /\ \A k \in i .. n : IsPair(s, k) /\ After(k)
        /\ Distinct(i)
    BY <1>7, <1>8, Zenon
  <2>a. Len(s) = 4 * n + 1 /\ i <= n
    BY <2>1
  <2>2. i \in i .. n /\ 4 * i + 1 <= Len(s)
    BY <1>1, <2>a
  <2>3. IsPair(s, i) /\ After(i)
    BY <2>1, <2>2, Zenon
  <2>4. CASE i < n
    <3>1. AfterOf(s, i) = ","
      BY <2>3, <2>4
    <3>2. i + 1 <= n /\ (i + 1) .. n \subseteq i .. n
      BY <1>1, <2>4
    <3>3. Closes(s, i + 1)
      BY <1>7, <2>1, <3>2, Zenon DEF Distinct
    <3>4. \A k \in (i + 1) .. n : NameOf(s, i) # NameOf(s, k)
      <4>1. \A k \in (i + 1) .. n : i < k
        OBVIOUS
      <4> QED
        BY <2>1, <2>2, <3>2, <4>1, Zenon DEF Distinct
    <3> QED
      BY <1>3, <2>2, <2>3, <3>1, <3>3, <3>4, Zenon
  <2>5. CASE ~(i < n)
    <3>1. i = n
      BY <1>1, <2>a, <2>5
    <3> QED
      BY <2>1, <2>2, <2>3, <2>5, <3>1, Zenon
  <2> QED
    BY <2>4, <2>5, Zenon
<1>9. ASSUME 4 * i + 1 <= Len(s), IsPair(s, i), AfterOf(s, i) = ",", Closes(s, i + 1),
             NameOf(s, i) \notin NamesFrom(s, i + 1)
      PROVE  Closes(s, i)
  <2>1. /\ Len(s) = 4 * n + 1 /\ i + 1 <= n
        /\ \A k \in (i + 1) .. n : IsPair(s, k) /\ After(k)
        /\ Distinct(i + 1)
    BY <1>7, <1>9, Zenon
  <2>a. i + 1 <= n
    BY <2>1
  <2>2. i < n /\ i <= n /\ i .. n = {i} \cup ((i + 1) .. n)
    BY <1>1, <2>a
  <2>3. After(i)
    BY <1>9, <2>2
  <2>4. \A k \in i .. n : IsPair(s, k) /\ After(k)
    BY <1>9, <2>1, <2>2, <2>3, Zenon
  <2>5. Distinct(i)
    <3> USE DEF Distinct
    <3> SUFFICES ASSUME NEW k \in i .. n, NEW l \in i .. n, k < l PROVE NameOf(s, k) # NameOf(s, l)
      BY Zenon
    <3>1. l \in (i + 1) .. n
      BY <1>1
    <3>2. CASE k = i
      <4>1. NameOf(s, l) \in NamesFrom(s, i + 1)
        BY <1>3, <3>1, Zenon
      <4> QED
        BY <1>9, <3>2, <4>1, Zenon
    <3>3. CASE k # i
      <4>1. k \in (i + 1) .. n
        BY <1>1, <3>3
      <4> QED
        BY <2>1, <3>1, <4>1, Zenon
    <3> QED
      BY <3>2, <3>3, Zenon
  <2> QED
    BY <1>7, <2>1, <2>2, <2>4, <2>5, Zenon
<1>10. ASSUME IsPair(s, i), AfterOf(s, i) = "}", Len(s) = 4 * i + 1
       PROVE  Closes(s, i)
  <2>a. i = n
    BY <1>2, <1>10, Zenon
  <2>d. Len(s) = 4 * i + 1
    BY <1>10, Zenon
  <2>b. i <= n /\ ~(i < n) /\ Len(s) = 4 * n + 1
    BY <1>1, <2>a, <2>d
  <2>c. i .. n = {i}
    <3>1. i .. i = {i}
      OBVIOUS
    <3> QED
      BY <2>a, <3>1, Zenon
  <2>1. i = n /\ i <= n /\ ~(i < n) /\ i .. n = {i} /\ Len(s) = 4 * n + 1
    BY <2>a, <2>b, <2>c, Zenon
  <2>2. \A k \in i .. n : IsPair(s, k) /\ After(k)
    BY <1>10, <2>1, Zenon
  <2>3. \A k, l \in i .. n : ~(k < l)
    BY <1>1, <2>1
  <2>4. Distinct(i)
    BY <2>3, Zenon DEF Distinct
  <2> QED
    BY <1>7, <2>1, <2>2, <2>4, Zenon
<1> QED
  BY <1>5, <1>6, <1>8, <1>9, <1>10, Zenon

\* The value of the message that ends with the pairs from the i-th on: it has their
\* names, each with its value.
HasPairs(v, s, i) ==
  /\ DOMAIN v = NamesFrom(s, i)
  /\ \A k \in i .. Pairs(s) : v[NameOf(s, k)] = ValueOf(s, k)

\* A name that is a closing brace stands after a comma.
NotClosed(s, i) == NameOf(s, i) = "}" => s[4 * i - 3] = ","

\* One step of the object's loop at the i-th name, by the pair that stands there.
LEMMA ObjectStepCases ==
  ASSUME NEW C, NEW s \in Seq(C), NEW i \in Nat \ {0}, 4 * i - 2 <= Len(s) + 1, NEW g,
         \A p \in 2 .. (Len(s) + 1) : g[p] = ObjectStep(s, p, g),
         NotClosed(s, i)
  PROVE  LET more == g[4 * i + 2]
             one  == [f \in {NameOf(s, i)} |-> IF f = NameOf(s, i) THEN ValueOf(s, i) ELSE <<>>[f]]
             both == [f \in DOMAIN more.value \cup {NameOf(s, i)} |->
                        IF f = NameOf(s, i) THEN ValueOf(s, i) ELSE more.value[f]]
         IN  g[4 * i - 2] =
               IF 4 * i + 1 <= Len(s) /\ IsPair(s, i)
               THEN IF AfterOf(s, i) = ","
                    THEN IF more.ok /\ NameOf(s, i) \notin DOMAIN more.value
                         THEN Taken(both, more.next) ELSE Refused
                    ELSE IF AfterOf(s, i) = "}" THEN Taken(one, 4 * i + 2)
                    ELSE Refused
               ELSE Refused
<1> DEFINE p == 4 * i - 2
           field == s[p]
           more == g[4 * i + 2]
           one  == [f \in {NameOf(s, i)} |-> IF f = NameOf(s, i) THEN ValueOf(s, i) ELSE <<>>[f]]
           both == [f \in DOMAIN more.value \cup {NameOf(s, i)} |->
                      IF f = NameOf(s, i) THEN ValueOf(s, i) ELSE more.value[f]]
           well == /\ At(s, p, NameStrings) /\ At(s, p + 1, {":"})
                   /\ field \in Fields /\ At(s, p + 2, Accepted(field))
                   /\ At(s, p + 3, {",", "}"})
           rest == g[IF s[p + 3] = "," THEN p + 4 ELSE p + 3]
           given == [f \in DOMAIN rest.value \cup {field} |->
                      IF f = field THEN s[p + 2] ELSE rest.value[f]]
<1>1. /\ p \in Nat /\ p >= 2 /\ p \in 2 .. (Len(s) + 1) /\ Len(s) \in Nat
      /\ p + 1 = 4 * i - 1 /\ p + 2 = 4 * i /\ p + 3 = 4 * i + 1 /\ p + 4 = 4 * i + 2 /\ p - 1 = 4 * i - 3
  OBVIOUS
<1>2. /\ NameOf(s, i) = s[p] /\ ColonOf(s, i) = s[p + 1] /\ ValueOf(s, i) = s[p + 2]
      /\ AfterOf(s, i) = s[p + 3]
  BY <1>1, Zenon DEF NameOf, ColonOf, ValueOf, AfterOf
<1>3. g[p] = ObjectStep(s, p, g)
  BY <1>1, Zenon
<1>4. g[p] = IF At(s, p, {"}"})
             THEN IF s[p - 1] = "," THEN Refused ELSE Taken(<<>>, p + 1)
             ELSE IF well /\ rest.ok /\ field \notin DOMAIN rest.value
             THEN Taken(given, rest.next)
             ELSE Refused
  BY <1>3, Zenon DEF ObjectStep
<1> HIDE DEF p
<1>5. well <=> 4 * i + 1 <= Len(s) /\ IsPair(s, i) /\ AfterOf(s, i) \in {",", "}"}
  <2>1. \A q, S : At(s, q, S) <=> q <= Len(s) /\ s[q] \in S
    BY Zenon DEF At
  <2>2. p + 3 <= Len(s) => p <= Len(s) /\ p + 1 <= Len(s) /\ p + 2 <= Len(s)
    BY <1>1
  <2>3. field \in Fields => field \in NameStrings
    BY NoPunctuation, Zenon
  <2>4. IsPair(s, i) <=> field \in Fields /\ s[p + 1] = ":" /\ s[p + 2] \in Accepted(field)
    BY <1>2, Zenon DEF IsPair
  <2>5. ASSUME well
        PROVE  4 * i + 1 <= Len(s) /\ IsPair(s, i) /\ AfterOf(s, i) \in {",", "}"}
    <3>1. s[p + 1] \in {":"} /\ p + 3 <= Len(s)
      BY <2>1, <2>5, Zenon
    <3> QED
      BY <1>1, <1>2, <2>1, <2>4, <2>5, <3>1, Zenon
  <2>6. ASSUME 4 * i + 1 <= Len(s), IsPair(s, i), AfterOf(s, i) \in {",", "}"}
        PROVE  well
    <3>1. p + 3 <= Len(s) /\ s[p + 1] \in {":"}
      BY <1>1, <2>4, <2>6, Zenon
    <3>2. p <= Len(s) /\ p + 1 <= Len(s) /\ p + 2 <= Len(s)
      BY <2>2, <3>1, Zenon
    <3> QED
      BY <1>1, <1>2, <2>1, <2>3, <2>4, <2>6, <3>1, <3>2, Zenon
  <2> QED
    BY <2>5, <2>6, Zenon
<1>6. CASE At(s, p, {"}"})
  <2>1. NameOf(s, i) = "}" /\ s[p - 1] = ","
    <3>1. s[p] \in {"}"} /\ s[p - 1] = s[4 * i - 3]
      BY <1>1, <1>6, Zenon DEF At
    <3>2. NameOf(s, i) = "}"
      BY <1>2, <3>1, Zenon
    <3> QED
      BY <3>1, <3>2, Zenon DEF NotClosed
  <2>2. ~IsPair(s, i)
    BY <2>1, NoPunctuation DEF IsPair, Punctuation
  <2>3. g[p] = Refused
    BY <1>4, <1>6, <2>1, Zenon
  <2> QED
    BY <2>2, <2>3, Zenon DEF p
<1>7. CASE ~At(s, p, {"}"}) /\ ~(4 * i + 1 <= Len(s) /\ IsPair(s, i) /\ AfterOf(s, i) \in {",", "}"})
  <2>1. g[p] = Refused
    <3> HIDE DEF well, rest, given
    <3> QED
      BY <1>4, <1>5, <1>7, Zenon
  <2> QED
    BY <1>7, <2>1, Zenon DEF p
<1>8. CASE ~At(s, p, {"}"}) /\ 4 * i + 1 <= Len(s) /\ IsPair(s, i) /\ AfterOf(s, i) = ","
  <2>1. well /\ rest = more
    BY <1>1, <1>2, <1>5, <1>8, Zenon
  <2>2. given = both
    BY <1>2, <2>1, Zenon
  <2>3. g[p] = IF more.ok /\ NameOf(s, i) \notin DOMAIN more.value
               THEN Taken(both, more.next) ELSE Refused
    <3>1. field = NameOf(s, i)
      BY <1>2, Zenon
    <3> HIDE DEF well, rest, given, field, more, both
    <3> QED
      BY <1>4, <1>8, <2>1, <2>2, <3>1, Zenon
  <2> QED
    BY <1>8, <2>3, Zenon DEF p
<1>9. CASE ~At(s, p, {"}"}) /\ 4 * i + 1 <= Len(s) /\ IsPair(s, i) /\ AfterOf(s, i) = "}"
  <2>1. AfterOf(s, i) # ","
    BY <1>9
  <2>2. well /\ rest = g[p + 3]
    BY <1>2, <1>5, <1>9, <2>1, Zenon
  <2>a. 4 * i + 1 <= Len(s)
    BY <1>9, Zenon
  <2>3. p + 3 \in 2 .. (Len(s) + 1) /\ (p + 3) - 1 = p + 2 /\ (p + 3) + 1 = 4 * i + 2 /\ p + 3 <= Len(s)
    BY <1>1, <2>a
  <2>4. g[p + 3] = ObjectStep(s, p + 3, g)
    BY <2>3, Zenon
  <2>5. At(s, p + 3, {"}"})
    BY <1>2, <1>9, <2>3, Zenon DEF At
  <2>6. s[(p + 3) - 1] # ","
    <3>1. ValueOf(s, i) # ","
      BY <1>9, NoPunctuation DEF IsPair, Punctuation
    <3> QED
      BY <1>2, <2>3, <3>1, Zenon
  <2>7. g[p + 3] = Taken(<<>>, (p + 3) + 1)
    BY <2>4, <2>5, <2>6, Zenon DEF ObjectStep
  <2>8. rest = Taken(<<>>, 4 * i + 2)
    BY <2>2, <2>3, <2>7, Zenon
  <2>9. rest.ok /\ rest.value = <<>> /\ rest.next = 4 * i + 2
    <3> HIDE DEF rest
    <3> QED
      BY <2>8 DEF Taken
  <2>10. DOMAIN rest.value = {}
    <3> HIDE DEF rest
    <3>1. DOMAIN <<>> = {}
      OBVIOUS
    <3> QED
      BY <2>9, <3>1, Zenon
  <2>11. {} \cup {NameOf(s, i)} = {NameOf(s, i)}
    OBVIOUS
  <2>12. given = one
    <3>1. given = [f \in {} \cup {NameOf(s, i)} |-> IF f = NameOf(s, i) THEN ValueOf(s, i) ELSE <<>>[f]]
      <4> HIDE DEF rest
      <4> QED
        BY <1>2, <2>9, <2>10, Zenon
    <3> QED
      BY <2>11, <3>1, Zenon
  <2>13. g[p] = Taken(one, 4 * i + 2)
    <3> HIDE DEF well, rest, given, field, one
    <3> QED
      BY <1>4, <1>9, <2>2, <2>9, <2>10, <2>12, Zenon
  <2> QED
    BY <1>9, <2>1, <2>13, Zenon DEF p
<1>10. AfterOf(s, i) \in {",", "}"} <=> AfterOf(s, i) = "," \/ AfterOf(s, i) = "}"
  OBVIOUS
<1> QED
  BY <1>6, <1>7, <1>8, <1>9, <1>10, Zenon

\* A pair put in front of the pairs that follow it.
LEMMA PairInFront ==
  ASSUME NEW C, NEW s \in Seq(C), NEW i \in Nat \ {0}, i <= Pairs(s), NEW v,
         HasPairs(v, s, i + 1), NameOf(s, i) \notin NamesFrom(s, i + 1)
  PROVE  HasPairs([f \in DOMAIN v \cup {NameOf(s, i)} |->
                     IF f = NameOf(s, i) THEN ValueOf(s, i) ELSE v[f]], s, i)
<1> DEFINE n == Pairs(s)
           w == [f \in DOMAIN v \cup {NameOf(s, i)} |->
                   IF f = NameOf(s, i) THEN ValueOf(s, i) ELSE v[f]]
<1>1. n \in Nat /\ i <= n
  BY DEF Pairs
<1>2. DOMAIN v = NamesFrom(s, i + 1) /\ \A k \in (i + 1) .. n : v[NameOf(s, k)] = ValueOf(s, k)
  BY Zenon DEF HasPairs
<1>3. NamesFrom(s, i) = {NameOf(s, i)} \cup NamesFrom(s, i + 1)
  BY ClosesFrom, Zenon
<1>4. DOMAIN w = NamesFrom(s, i)
  BY <1>2, <1>3
<1>5. ASSUME NEW k \in i .. n PROVE w[NameOf(s, k)] = ValueOf(s, k)
  <2>1. CASE k = i
    BY <2>1
  <2>2. CASE k # i
    <3>1. k \in (i + 1) .. n
      BY <1>1, <2>2
    <3>2. NameOf(s, k) \in NamesFrom(s, i + 1)
      BY <3>1, Zenon DEF NamesFrom
    <3>3. NameOf(s, k) # NameOf(s, i) /\ NameOf(s, k) \in DOMAIN v
      BY <1>2, <3>2, Zenon
    <3>4. w[NameOf(s, k)] = v[NameOf(s, k)]
      BY <3>3
    <3> QED
      BY <1>2, <3>1, <3>4, Zenon
  <2> QED
    BY <2>1, <2>2, Zenon
<1> HIDE DEF w
<1>6. HasPairs(w, s, i)
  BY <1>4, <1>5, Zenon DEF HasPairs
<1> QED
  BY <1>6, Zenon DEF w

\* The last pair on its own.
LEMMA LastPair ==
  ASSUME NEW C, NEW s \in Seq(C), NEW i \in Nat \ {0}, Len(s) = 4 * i + 1
  PROVE  HasPairs([f \in {NameOf(s, i)} |->
                     IF f = NameOf(s, i) THEN ValueOf(s, i) ELSE <<>>[f]], s, i)
<1> DEFINE w == [f \in {NameOf(s, i)} |->
                   IF f = NameOf(s, i) THEN ValueOf(s, i) ELSE <<>>[f]]
<1>1. Pairs(s) = i
  BY DEF Pairs
<1>2. NamesFrom(s, i) = {NameOf(s, i)}
  <2>1. NamesFrom(s, i) = {NameOf(s, i)} \cup NamesFrom(s, i + 1) /\ NamesFrom(s, i + 1) = {}
    <3>1. i <= Pairs(s)
      BY <1>1
    <3> QED
      BY <3>1, ClosesFrom, Zenon
  <2> QED
    BY <2>1
<1>3. DOMAIN w = {NameOf(s, i)} /\ w[NameOf(s, i)] = ValueOf(s, i)
  OBVIOUS
<1>4. \A k \in i .. Pairs(s) : k = i
  BY <1>1
<1> HIDE DEF w
<1>5. HasPairs(w, s, i)
  BY <1>2, <1>3, <1>4, Zenon DEF HasPairs
<1> QED
  BY <1>5, Zenon DEF w

\* What the object's loop answers at the i-th name.
ObjectAgrees(s, i, answer) ==
  /\ answer.ok /\ answer.next = Len(s) + 1 <=> Closes(s, i)
  /\ answer.ok /\ answer.next = Len(s) + 1 => HasPairs(answer.value, s, i)

\* The object's loop takes the rest of a message from its i-th name on exactly when it
\* is one, and answers its pairs.
LEMMA ObjectScanAgrees ==
  ASSUME NEW C, NEW s \in Seq(C), NEW g,
         \A p \in 2 .. (Len(s) + 1) : g[p] = ObjectStep(s, p, g)
  PROVE  \A i \in 1 .. (Len(s) + 1) : 4 * i - 2 <= Len(s) + 1 /\ NotClosed(s, i)
            => ObjectAgrees(s, i, g[4 * i - 2])
<1> DEFINE D == {i \in 1 .. (Len(s) + 1) : /\ 4 * i - 2 <= Len(s) + 1 /\ NotClosed(s, i)
                                           /\ ~ObjectAgrees(s, i, g[4 * i - 2])}
<1>0. Len(s) \in Nat
  OBVIOUS
<1>1. D = {}
  <2> SUFFICES ASSUME D # {} PROVE FALSE
    OBVIOUS
  <2>1. Len(s) + 1 \in Nat /\ D \in SUBSET (1 .. (Len(s) + 1))
    BY <1>0
  <2>2. PICK i \in D : \A j \in D : j <= i
    BY <2>1, GreatestElement
  <2>3. i \in 1 .. (Len(s) + 1) /\ 4 * i - 2 <= Len(s) + 1 /\ NotClosed(s, i) /\ ~ObjectAgrees(s, i, g[4 * i - 2])
    BY <2>2, Zenon
  <2>4. i \in Nat \ {0}
    BY <1>0, <2>3
  <2>5. ASSUME 4 * i + 1 <= Len(s), NotClosed(s, i + 1)
        PROVE  ObjectAgrees(s, i + 1, g[4 * i + 2])
    <3>1. i + 1 \in 1 .. (Len(s) + 1) /\ 4 * (i + 1) - 2 <= Len(s) + 1 /\ 4 * (i + 1) - 2 = 4 * i + 2 /\ ~(i + 1 <= i)
      BY <1>0, <2>4, <2>5
    <3>2. i + 1 \notin D
      BY <2>2, <3>1, Zenon
    <3> QED
      BY <2>5, <3>1, <3>2, Zenon
  <2> HIDE DEF D
  <2> DEFINE more == g[4 * i + 2]
             one  == [f \in {NameOf(s, i)} |-> IF f = NameOf(s, i) THEN ValueOf(s, i) ELSE <<>>[f]]
             both == [f \in DOMAIN more.value \cup {NameOf(s, i)} |->
                        IF f = NameOf(s, i) THEN ValueOf(s, i) ELSE more.value[f]]
             a == g[4 * i - 2]
  <2>6. a = IF 4 * i + 1 <= Len(s) /\ IsPair(s, i)
            THEN IF AfterOf(s, i) = ","
                 THEN IF more.ok /\ NameOf(s, i) \notin DOMAIN more.value
                      THEN Taken(both, more.next) ELSE Refused
                 ELSE IF AfterOf(s, i) = "}" THEN Taken(one, 4 * i + 2)
                 ELSE Refused
            ELSE Refused
    BY <2>3, <2>4, ObjectStepCases, Zenon
  <2>7. Closes(s, i) <=>
              /\ 4 * i + 1 <= Len(s) /\ IsPair(s, i)
              /\ \/ AfterOf(s, i) = "," /\ Closes(s, i + 1) /\ NameOf(s, i) \notin NamesFrom(s, i + 1)
                 \/ AfterOf(s, i) = "}" /\ Len(s) = 4 * i + 1
    BY <2>4, ClosesFrom, Zenon
  <2>8. \A w, x : Taken(w, x).ok /\ Taken(w, x).value = w /\ Taken(w, x).next = x
    BY DEF Taken
  <2>9. ~Refused.ok
    BY DEF Refused
  <2> HIDE DEF more, one, both, a
  <2>10. ASSUME a = Refused, ~Closes(s, i) PROVE FALSE
    <3>1. ObjectAgrees(s, i, a)
      BY <2>9, <2>10, Zenon DEF ObjectAgrees
    <3> QED
      BY <2>3, <3>1, Zenon DEF a
  <2>11. CASE ~(4 * i + 1 <= Len(s) /\ IsPair(s, i) /\ (AfterOf(s, i) = "," \/ AfterOf(s, i) = "}"))
    BY <2>6, <2>7, <2>10, <2>11, Zenon
  <2>12. CASE 4 * i + 1 <= Len(s) /\ IsPair(s, i) /\ AfterOf(s, i) = "}"
    <3>1. AfterOf(s, i) # ","
      BY <2>12, Zenon
    <3>2. a = Taken(one, 4 * i + 2)
      BY <2>6, <2>12, <3>1, Zenon
    <3>3. a.ok /\ a.value = one /\ a.next = 4 * i + 2
      BY <2>8, <3>2, Zenon
    <3>4. 4 * i + 2 = Len(s) + 1 <=> Len(s) = 4 * i + 1
      BY <1>0, <2>4
    <3>5. Closes(s, i) <=> Len(s) = 4 * i + 1
      BY <2>7, <2>12, <3>1, Zenon
    <3>6. Len(s) = 4 * i + 1 => HasPairs(one, s, i)
      BY <2>4, LastPair, Zenon DEF one
    <3>7. ObjectAgrees(s, i, a)
      BY <3>3, <3>4, <3>5, <3>6, Zenon DEF ObjectAgrees
    <3> QED
      BY <2>3, <3>7, Zenon DEF a
  <2>13. CASE 4 * i + 1 <= Len(s) /\ IsPair(s, i) /\ AfterOf(s, i) = ","
    <3>1. AfterOf(s, i) # "}"
      BY <2>13, Zenon
    <3>2. a = IF more.ok /\ NameOf(s, i) \notin DOMAIN more.value
              THEN Taken(both, more.next) ELSE Refused
      BY <2>6, <2>13, Zenon
    <3>3. Closes(s, i) <=> Closes(s, i + 1) /\ NameOf(s, i) \notin NamesFrom(s, i + 1)
      BY <2>7, <2>13, <3>1, Zenon
    <3>4. NotClosed(s, i + 1)
      <4>1. 4 * (i + 1) - 3 = 4 * i + 1
        BY <2>4
      <4> QED
        BY <2>13, <4>1, Zenon DEF NotClosed, AfterOf
    <3>5. ObjectAgrees(s, i + 1, more)
      BY <2>5, <2>13, <3>4, Zenon DEF more
    <3>6. /\ more.ok /\ more.next = Len(s) + 1 <=> Closes(s, i + 1)
          /\ more.ok /\ more.next = Len(s) + 1 => HasPairs(more.value, s, i + 1)
      BY <3>5, Zenon DEF ObjectAgrees
    <3>7. i <= Pairs(s)
      <4>1. 4 * i + 1 <= Len(s)
        BY <2>13, Zenon
      <4> QED
        BY <1>0, <2>4, <4>1 DEF Pairs
    <3>8. CASE Closes(s, i + 1) /\ NameOf(s, i) \notin NamesFrom(s, i + 1)
      <4>1. more.ok /\ more.next = Len(s) + 1 /\ HasPairs(more.value, s, i + 1)
        BY <3>6, <3>8, Zenon
      <4>2. NameOf(s, i) \notin DOMAIN more.value
        BY <3>8, <4>1, Zenon DEF HasPairs
      <4>3. a = Taken(both, more.next)
        BY <3>2, <4>1, <4>2, Zenon
      <4>4. a.ok /\ a.value = both /\ a.next = Len(s) + 1
        BY <2>8, <4>1, <4>3, Zenon
      <4>5. HasPairs(both, s, i)
        BY <2>4, <3>7, <3>8, <4>1, PairInFront, Zenon DEF both
      <4>6. ObjectAgrees(s, i, a)
        BY <3>3, <3>8, <4>4, <4>5, Zenon DEF ObjectAgrees
      <4> QED
        BY <2>3, <4>6, Zenon DEF a
    <3>9. CASE Closes(s, i + 1) /\ NameOf(s, i) \in NamesFrom(s, i + 1)
      <4>1. HasPairs(more.value, s, i + 1)
        BY <3>6, <3>9, Zenon
      <4>2. NameOf(s, i) \in DOMAIN more.value
        BY <3>9, <4>1, Zenon DEF HasPairs
      <4>3. a = Refused
        BY <3>2, <4>2, Zenon
      <4> QED
        BY <2>10, <3>3, <3>9, <4>3, Zenon
    <3>10. CASE ~Closes(s, i + 1)
      <4>1. ~(more.ok /\ more.next = Len(s) + 1)
        BY <3>6, <3>10, Zenon
      <4>2. a = Refused \/ (more.ok /\ a = Taken(both, more.next))
        BY <3>2, Zenon
      <4>3. ~Closes(s, i)
        BY <3>3, <3>10, Zenon
      <4>4. CASE a = Refused
        BY <2>10, <4>3, <4>4, Zenon
      <4>5. CASE more.ok /\ a = Taken(both, more.next)
        <5>1. a.next = more.next /\ a.next # Len(s) + 1
          BY <2>8, <4>1, <4>5, Zenon
        <5>2. ObjectAgrees(s, i, a)
          BY <4>3, <5>1, Zenon DEF ObjectAgrees
        <5> QED
          BY <2>3, <5>2, Zenon DEF a
      <4> QED
        BY <4>2, <4>4, <4>5, Zenon
    <3> QED
      BY <3>8, <3>9, <3>10, Zenon
  <2> QED
    BY <2>11, <2>12, <2>13, Zenon
<1>2. ASSUME NEW i \in 1 .. (Len(s) + 1), 4 * i - 2 <= Len(s) + 1, NotClosed(s, i)
      PROVE  ObjectAgrees(s, i, g[4 * i - 2])
  <2>1. i \notin D
    BY <1>1, Zenon
  <2> QED
    BY <1>2, <2>1, Zenon
<1> QED
  BY <1>2, Zenon

\* The contract of a command is what its handler needs and may find.
LEMMA ContractIsHandlers ==
  ASSUME NEW type, NEW args \in SUBSET (Settings \cup Entities)
  PROVE  ValidateArgs(type, args) <=>
           Needs(type) \subseteq args /\ args \subseteq MayFind(type) /\ (type = "SET_CONFIG" => args # {})
<1>0. Settings \cap Entities = {} /\ "installation_id" \in Entities
  BY DEF Settings, Periods, Entities
<1>1. CASE type = "SET_CONFIG"
  <2>1. type # "REGISTER_DEVICE" /\ type # "ASSIGN_LOCATION" /\ type # "UNKNOWN"
    BY <1>1
  <2>2. /\ ValidateArgs(type, args) <=> args # {} /\ args \cap Entities = {}
    BY <1>1, <2>1, Zenon DEF ValidateArgs
  <2>3. Needs(type) = {} /\ MayFind(type) = Settings
    BY <1>1, <2>1, Zenon DEF Needs, MayFind
  <2>4. args \cap Entities = {} <=> args \subseteq Settings
    BY <1>0
  <2> QED
    BY <1>1, <2>2, <2>3, <2>4
<1>2. CASE type = "REGISTER_DEVICE"
  <2>1. type # "SET_CONFIG" /\ type # "ASSIGN_LOCATION" /\ type # "UNKNOWN"
    BY <1>2
  <2>2. ValidateArgs(type, args) <=> args = {"installation_id"}
    BY <1>2, <2>1, Zenon DEF ValidateArgs
  <2>3. Needs(type) = {"installation_id"} /\ MayFind(type) = Needs(type)
    BY <1>2, <2>1, Zenon DEF Needs, MayFind
  <2> QED
    BY <2>1, <2>2, <2>3
<1>3. CASE type = "ASSIGN_LOCATION"
  <2>1. type # "SET_CONFIG" /\ type # "REGISTER_DEVICE" /\ type # "UNKNOWN"
    BY <1>3
  <2>2. ValidateArgs(type, args) <=> args = Entities
    BY <1>3, <2>1, Zenon DEF ValidateArgs
  <2>3. Needs(type) = Entities /\ MayFind(type) = Needs(type)
    BY <1>3, <2>1, Zenon DEF Needs, MayFind
  <2> QED
    BY <2>1, <2>2, <2>3
<1>4. CASE type = "UNKNOWN"
  <2>1. type # "SET_CONFIG" /\ type # "REGISTER_DEVICE" /\ type # "ASSIGN_LOCATION"
    BY <1>4
  <2>2. ValidateArgs(type, args)
    BY <1>4, <2>1, Zenon DEF ValidateArgs
  <2>3. Needs(type) = {} /\ MayFind(type) = Settings \cup Entities
    BY <1>4, <2>1, Zenon DEF Needs, MayFind
  <2> QED
    BY <2>1, <2>2, <2>3
<1>5. CASE type \notin {"SET_CONFIG", "REGISTER_DEVICE", "ASSIGN_LOCATION", "UNKNOWN"}
  <2>1. type # "SET_CONFIG" /\ type # "REGISTER_DEVICE" /\ type # "ASSIGN_LOCATION" /\ type # "UNKNOWN"
    BY <1>5
  <2>2. ValidateArgs(type, args) <=> args = {}
    BY <2>1, Zenon DEF ValidateArgs
  <2>3. Needs(type) = {} /\ MayFind(type) = Needs(type)
    BY <2>1, Zenon DEF Needs, MayFind
  <2> QED
    BY <2>1, <2>2, <2>3
<1> QED
  BY <1>1, <1>2, <1>3, <1>4, <1>5

\* The names of n pairs are n names exactly when no two are the same.
LEMMA AsManyNames ==
  ASSUME NEW C, NEW s \in Seq(C)
  PROVE  Cardinality(NamesFrom(s, 1)) = Pairs(s) <=>
           \A k, l \in 1 .. Pairs(s) : k < l => NameOf(s, k) # NameOf(s, l)
<1> DEFINE n == Pairs(s)
           S == 1 .. n
           T == NamesFrom(s, 1)
           f == [k \in S |-> NameOf(s, k)]
<1>1. n \in Nat
  BY DEF Pairs
<1> HIDE DEF n
<1>2. IsFiniteSet(S) /\ Cardinality(S) = n
  BY <1>1, FS_Interval
<1>3. T = {NameOf(s, k) : k \in S}
  BY Zenon DEF NamesFrom, n
<1>4. f \in Surjection(S, T)
  <2>1. f \in [S -> T]
    BY <1>3
  <2>2. \A y \in T : \E x \in S : f[x] = y
    BY <1>3
  <2> QED
    BY <2>1, <2>2 DEF Surjection
<1>5. Cardinality(T) = Cardinality(S) <=> f \in Injection(S, T)
  <2> HIDE DEF S, T, f
  <2> QED
    BY <1>2, <1>4, FS_Surjection, Zenon
<1>6. f \in Injection(S, T) <=> \A k, l \in S : f[k] = f[l] => k = l
  <2>1. f \in [S -> T]
    BY <1>3
  <2>2. DOMAIN f = S
    OBVIOUS
  <2> HIDE DEF S, T, f
  <2> QED
    BY <2>1, <2>2, Zenon DEF Injection, IsInjective
<1>7. (\A k, l \in S : f[k] = f[l] => k = l) <=> \A k, l \in S : k < l => NameOf(s, k) # NameOf(s, l)
  <2>1. ASSUME \A k, l \in S : f[k] = f[l] => k = l
        PROVE  \A k, l \in S : k < l => NameOf(s, k) # NameOf(s, l)
    BY <2>1, <1>1
  <2>2. ASSUME \A k, l \in S : k < l => NameOf(s, k) # NameOf(s, l)
        PROVE  \A k, l \in S : f[k] = f[l] => k = l
    <3> SUFFICES ASSUME NEW k \in S, NEW l \in S, f[k] = f[l], k # l PROVE FALSE
      BY Zenon
    <3>1. k < l \/ l < k
      BY <1>1
    <3>2. NameOf(s, k) = NameOf(s, l)
      OBVIOUS
    <3> QED
      BY <2>2, <3>1, <3>2, Zenon
  <2> QED
    BY <2>1, <2>2, Zenon
<1> QED
  BY <1>2, <1>5, <1>6, <1>7, Zenon DEF n

\* The i-th name is "command", and the contract of the command it names is kept by the
\* arguments.
KeepsContract(s, i) ==
  LET type == StrToType(ValueOf(s, i))
      args == NamesFrom(s, 1) \ {"id", "command"}
  IN  /\ NameOf(s, i) = "command"
      /\ Needs(type) \subseteq args /\ args \subseteq MayFind(type)
      /\ type = "SET_CONFIG" => args # {}

\* A command message, pair by pair.
LEMMA CommandIsPairs ==
  ASSUME NEW C, NEW s \in Seq(C)
  PROVE  IsCommand(s) <=>
           /\ s[1] = "{" /\ Closes(s, 1)
           /\ {"id", "command"} \subseteq NamesFrom(s, 1)
           /\ \E i \in 1 .. Pairs(s) : KeepsContract(s, i)
<1> DEFINE n == Len(s) \div 4
           names == NamesFrom(s, 1)
           args == names \ {"id", "command"}
           Contract(i) ==
             /\ NameOf(s, i) = "command"
             /\ LET type == StrToType(ValueOf(s, i))
                IN  /\ Needs(type) \subseteq args /\ args \subseteq MayFind(type)
                    /\ type = "SET_CONFIG" => args # {}
           Distinct == \A k, l \in 1 .. n : k < l => NameOf(s, k) # NameOf(s, l)
<1>1. n \in Nat /\ Len(s) \in Nat /\ Pairs(s) = n
  BY DEF Pairs
<1>2. names = {s[4 * i - 2] : i \in 1 .. n}
  BY <1>1, Zenon DEF NamesFrom, NameOf
<1>3. IsCommand(s) <=>
        /\ Len(s) = 4 * n + 1 /\ s[1] = "{" /\ s[Len(s)] = "}"
        /\ \A i \in 1 .. n : s[4 * i - 1] = ":" /\ (i < n => s[4 * i + 1] = ",")
        /\ names \subseteq Fields /\ Cardinality(names) = n
        /\ {"id", "command"} \subseteq names
        /\ \A i \in 1 .. n : s[4 * i] \in Accepted(s[4 * i - 2])
        /\ \E i \in 1 .. n : Contract(i)
  BY <1>2, Zenon DEF IsCommand, NameOf, ValueOf
<1>4. Cardinality(names) = n <=> Distinct
  BY <1>1, AsManyNames, Zenon
<1>5. \A i : KeepsContract(s, i) <=> Contract(i)
  BY Zenon DEF KeepsContract
<1> HIDE DEF n, Contract, Distinct
<1>6. (\A i \in 1 .. n : s[4 * i - 1] = ":" /\ (i < n => s[4 * i + 1] = ","))
        <=> \A i \in 1 .. n : ColonOf(s, i) = ":" /\ (i < n => AfterOf(s, i) = ",")
  BY Zenon DEF ColonOf, AfterOf
<1>7. names \subseteq Fields <=> \A i \in 1 .. n : NameOf(s, i) \in Fields
  BY <1>2, Zenon DEF NameOf
<1>8. (\A i \in 1 .. n : s[4 * i] \in Accepted(s[4 * i - 2]))
        <=> \A i \in 1 .. n : ValueOf(s, i) \in Accepted(NameOf(s, i))
  BY Zenon DEF NameOf, ValueOf
<1>9. Closes(s, 1) <=>
        /\ Len(s) = 4 * n + 1 /\ 1 <= n
        /\ \A k \in 1 .. n : IsPair(s, k) /\ AfterOf(s, k) = IF k < n THEN "," ELSE "}"
        /\ Distinct
  BY <1>1, Zenon DEF Closes, Distinct
<1>10. (\A k \in 1 .. n : IsPair(s, k)) <=>
         /\ \A i \in 1 .. n : NameOf(s, i) \in Fields
         /\ \A i \in 1 .. n : ColonOf(s, i) = ":"
         /\ \A i \in 1 .. n : ValueOf(s, i) \in Accepted(NameOf(s, i))
  BY Zenon DEF IsPair
<1>11. ASSUME Len(s) = 4 * n + 1, 1 <= n
       PROVE  (\A k \in 1 .. n : AfterOf(s, k) = IF k < n THEN "," ELSE "}") <=>
                s[Len(s)] = "}" /\ \A i \in 1 .. n : i < n => AfterOf(s, i) = ","
  <2>1. n \in 1 .. n /\ ~(n < n) /\ \A k \in 1 .. n : ~(k < n) => k = n
    BY <1>1, <1>11
  <2>2. s[Len(s)] = AfterOf(s, n)
    BY <1>11, Zenon DEF AfterOf
  <2> QED
    BY <2>1, <2>2, Zenon
<1>12. "id" \in names => 1 <= n
  <2> SUFFICES ASSUME "id" \in names PROVE 1 <= n
    OBVIOUS
  <2>1. PICK i \in 1 .. n : TRUE
    BY <1>2, Zenon
  <2> QED
    BY <1>1, <2>1
<1> HIDE DEF names
<1>13. ASSUME IsCommand(s)
       PROVE  /\ s[1] = "{" /\ Closes(s, 1)
              /\ {"id", "command"} \subseteq names
              /\ \E i \in 1 .. Pairs(s) : KeepsContract(s, i)
  <2>1. "id" \in names
    <3>1. {"id", "command"} \subseteq names
      BY <1>3, <1>13, Zenon
    <3> QED
      BY <3>1
  <2>2. 1 <= n
    BY <1>12, <2>1
  <2>3. Closes(s, 1)
    <3>1. Len(s) = 4 * n + 1
      BY <1>3, <1>13, Zenon
    <3>2. \A k \in 1 .. n : IsPair(s, k)
      BY <1>3, <1>6, <1>7, <1>8, <1>10, <1>13, Zenon
    <3>3. \A k \in 1 .. n : AfterOf(s, k) = IF k < n THEN "," ELSE "}"
      BY <1>3, <1>6, <1>11, <1>13, <2>2, <3>1, Zenon
    <3>4. Distinct
      BY <1>3, <1>4, <1>13, Zenon
    <3> QED
      BY <1>9, <2>2, <3>1, <3>2, <3>3, <3>4, Zenon
  <2> QED
    BY <1>1, <1>3, <1>5, <1>13, <2>3, Zenon
<1>14. ASSUME s[1] = "{", Closes(s, 1), {"id", "command"} \subseteq names,
              \E i \in 1 .. Pairs(s) : KeepsContract(s, i)
       PROVE  IsCommand(s)
  <2>1. /\ Len(s) = 4 * n + 1 /\ 1 <= n
        /\ \A k \in 1 .. n : IsPair(s, k)
        /\ \A k \in 1 .. n : AfterOf(s, k) = IF k < n THEN "," ELSE "}"
        /\ Distinct
    BY <1>9, <1>14, Zenon
  <2>2. s[Len(s)] = "}" /\ \A i \in 1 .. n : i < n => AfterOf(s, i) = ","
    BY <1>11, <2>1, Zenon
  <2>3. \A i \in 1 .. n : s[4 * i - 1] = ":" /\ (i < n => s[4 * i + 1] = ",")
    BY <1>6, <1>10, <2>1, <2>2, Zenon
  <2>4. names \subseteq Fields /\ \A i \in 1 .. n : s[4 * i] \in Accepted(s[4 * i - 2])
    BY <1>7, <1>8, <1>10, <2>1, Zenon
  <2>5. Cardinality(names) = n
    BY <1>4, <2>1, Zenon
  <2>6. \E i \in 1 .. n : Contract(i)
    BY <1>1, <1>5, <1>14, Zenon
  <2> QED
    BY <1>3, <1>14, <2>1, <2>2, <2>3, <2>4, <2>5, <2>6, Zenon
<1> QED
  BY <1>13, <1>14, Zenon DEF names

\* The request that is made of the pairs of a message.
RequestOf(v) ==
  [ok |-> TRUE, type |-> StrToType(v["command"]), requestId |-> v["id"],
   given |-> [a \in DOMAIN v \ {"id", "command"} |-> v[a]]]

\* What becomes of an object whose pairs are v.
RequestIfGood(v) ==
  IF {"id", "command"} \subseteq DOMAIN v
     /\ ValidateArgs(StrToType(v["command"]), DOMAIN v \ {"id", "command"})
  THEN RequestOf(v) ELSE Refused

\* The contract of the command the pairs name is kept by one of the pairs.
LEMMA ContractOfPairs ==
  ASSUME NEW C, NEW s \in Seq(C), Closes(s, 1), NEW v, HasPairs(v, s, 1),
         "command" \in NamesFrom(s, 1)
  PROVE  ValidateArgs(StrToType(v["command"]), DOMAIN v \ {"id", "command"}) <=>
           \E i \in 1 .. Pairs(s) : KeepsContract(s, i)
<1> DEFINE names == NamesFrom(s, 1)
           args == names \ {"id", "command"}
           Keeps(type) == /\ Needs(type) \subseteq args /\ args \subseteq MayFind(type)
                          /\ type = "SET_CONFIG" => args # {}
<1>1. DOMAIN v = names /\ \A k \in 1 .. Pairs(s) : v[NameOf(s, k)] = ValueOf(s, k)
  BY Zenon DEF HasPairs
<1>2. names \subseteq Fields
  BY Zenon DEF Closes, IsPair, NamesFrom
<1>3. args \in SUBSET (Settings \cup Entities)
  BY <1>2, Zenon DEF Fields
<1>4. PICK i \in 1 .. Pairs(s) : NameOf(s, i) = "command"
  BY Zenon DEF NamesFrom
<1> HIDE DEF args
<1>5. v["command"] = ValueOf(s, i)
  BY <1>1, <1>4, Zenon
<1>6. ValidateArgs(StrToType(v["command"]), args) <=> Keeps(StrToType(v["command"]))
  BY <1>3, ContractIsHandlers, Zenon
<1>7. ASSUME NEW j \in 1 .. Pairs(s)
      PROVE  KeepsContract(s, j) <=> NameOf(s, j) = "command" /\ Keeps(StrToType(ValueOf(s, j)))
  BY Zenon DEF KeepsContract, args
<1>8. ASSUME NEW j \in 1 .. Pairs(s), NameOf(s, j) = "command"
      PROVE  v["command"] = ValueOf(s, j)
  BY <1>1, <1>8, Zenon
<1> HIDE DEF Keeps
<1>9. Keeps(StrToType(v["command"])) <=> \E j \in 1 .. Pairs(s) : KeepsContract(s, j)
  <2>1. ASSUME Keeps(StrToType(v["command"])) PROVE KeepsContract(s, i)
    BY <1>4, <1>5, <1>7, <2>1, Zenon
  <2>2. ASSUME NEW j \in 1 .. Pairs(s), KeepsContract(s, j) PROVE Keeps(StrToType(v["command"]))
    BY <1>7, <1>8, <2>2, Zenon
  <2> QED
    BY <2>1, <2>2, Zenon
<1> QED
  BY <1>1, <1>6, <1>9, Zenon DEF args

\* A message starts with a brace.
Opens(s) == At(s, 1, {"{"})

\* The object of a message whose brace opens with it.
LEMMA ObjectOfMessage ==
  ASSUME NEW C, NEW s \in Seq(C), Opens(s)
  PROVE  \/ Object(s) = Taken(<<>>, 3) /\ ~Closes(s, 1)
         \/ ObjectAgrees(s, 1, Object(s))
<1>1. PICK g : /\ \A p \in 2 .. (Len(s) + 1) : g[p] = ObjectStep(s, p, g)
               /\ Object(s) = g[2]
  BY ObjectIsScan, Zenon
<1>2. 1 <= Len(s) /\ s[1] \in {"{"}
  BY Zenon DEF Opens, At
<1>3. s[1] = "{" /\ s[1] # ","
  BY <1>2, Zenon
<1>4. 2 - 1 = 1 /\ 2 + 1 = 3 /\ 4 * 1 - 2 = 2 /\ 4 * 1 - 3 = 1 /\ 4 * 1 + 1 = 5 /\ 2 + 3 = 5
  OBVIOUS
<1>5. 2 \in 2 .. (Len(s) + 1) /\ 1 \in 1 .. (Len(s) + 1) /\ 2 <= Len(s) + 1 /\ Len(s) \in Nat
  <2>1. 1 <= Len(s)
    BY <1>2, Zenon
  <2>2. Len(s) \in Nat
    OBVIOUS
  <2> QED
    BY <2>1, <2>2
<1>6. g[2] = ObjectStep(s, 2, g)
  BY <1>1, <1>5, Zenon
<1>7. NameOf(s, 1) = s[2]
  BY <1>4, Zenon DEF NameOf
<1>8. Closes(s, 1) => 5 <= Len(s) /\ IsPair(s, 1)
  <2>1. 1 \in Nat
    OBVIOUS
  <2>2. Closes(s, 1) => 4 * 1 + 1 <= Len(s) /\ IsPair(s, 1)
    BY <2>1, ClosesFrom, Zenon
  <2> QED
    BY <1>4, <2>2
<1>9. CASE At(s, 2, {"}"})
  <2>1. g[2] = Taken(<<>>, 3)
    BY <1>3, <1>4, <1>6, <1>9, Zenon DEF ObjectStep
  <2>2. NameOf(s, 1) = "}"
    BY <1>7, <1>9, Zenon DEF At
  <2>3. ~IsPair(s, 1)
    BY <2>2, NoPunctuation, Zenon DEF IsPair, Punctuation
  <2> QED
    BY <1>1, <1>8, <2>1, <2>3, Zenon
<1>10. CASE ~At(s, 2, {"}"}) /\ 2 <= Len(s)
  <2>1. NotClosed(s, 1)
    BY <1>7, <1>10, Zenon DEF At, NotClosed
  <2>2. ObjectAgrees(s, 1, g[4 * 1 - 2])
    BY <1>1, <1>4, <1>5, <2>1, ObjectScanAgrees, Zenon
  <2> QED
    BY <1>1, <1>4, <2>2, Zenon
<1>11. CASE ~(2 <= Len(s))
  <2>1. ~At(s, 2, {"}"}) /\ ~At(s, 2, NameStrings)
    BY <1>11, Zenon DEF At
  <2>2. g[2] = Refused
    BY <1>6, <2>1, Zenon DEF ObjectStep
  <2>3. ~(5 <= Len(s))
    BY <1>5, <1>11
  <2>4. ~Refused.ok
    BY DEF Refused
  <2>5. ~Closes(s, 1) /\ ~g[2].ok
    BY <1>8, <2>2, <2>3, <2>4, Zenon
  <2> QED
    BY <1>1, <2>5, Zenon DEF ObjectAgrees
<1> QED
  BY <1>9, <1>10, <1>11, Zenon

\* A message is taken exactly when it is a command message, for the request of its pairs.
LEMMA ParseIsCommand ==
  ASSUME NEW C, NEW s \in Seq(C)
  PROVE  \/ Parse(s) = Refused /\ ~IsCommand(s)
         \/ IsCommand(s) /\ \E v : HasPairs(v, s, 1) /\ Parse(s) = RequestOf(v)
<1> DEFINE object == IF At(s, 1, {"{"}) THEN Object(s) ELSE Refused
<1>1. Parse(s) = IF ~object.ok \/ object.next # Len(s) + 1 THEN Refused
                 ELSE RequestIfGood(object.value)
  BY Zenon DEF Parse, RequestIfGood, RequestOf
<1>2. IsCommand(s) <=>
           /\ s[1] = "{" /\ Closes(s, 1)
           /\ {"id", "command"} \subseteq NamesFrom(s, 1)
           /\ \E i \in 1 .. Pairs(s) : KeepsContract(s, i)
  BY CommandIsPairs, Zenon
<1>3. Closes(s, 1) => 1 <= Len(s)
  <2>1. 1 \in Nat /\ (4 * 1 + 1 <= Len(s) => 1 <= Len(s))
    OBVIOUS
  <2> QED
    BY <2>1, ClosesFrom, Zenon
<1>4. At(s, 1, {"{"}) <=> 1 <= Len(s) /\ s[1] = "{"
  BY Zenon DEF At
<1>5. ~Refused.ok
  BY DEF Refused
<1>6. CASE ~At(s, 1, {"{"})
  <2>1. Parse(s) = Refused
    BY <1>1, <1>5, <1>6, Zenon
  <2> QED
    BY <1>2, <1>3, <1>4, <1>6, <2>1, Zenon
<1>7. CASE At(s, 1, {"{"}) /\ Object(s) = Taken(<<>>, 3) /\ ~Closes(s, 1)
  <2>1. object = Taken(<<>>, 3)
    BY <1>7, Zenon
  <2>2. object.value = <<>>
    <3> HIDE DEF object
    <3> QED
      BY <2>1 DEF Taken
  <2>3. DOMAIN object.value = {}
    <3>1. DOMAIN <<>> = {}
      OBVIOUS
    <3> QED
      BY <2>2, <3>1, Zenon
  <2>4. RequestIfGood(object.value) = Refused
    <3> HIDE DEF object
    <3>1. ~({"id", "command"} \subseteq DOMAIN object.value)
      BY <2>3
    <3> QED
      BY <3>1, Zenon DEF RequestIfGood
  <2>5. Parse(s) = Refused
    <3> HIDE DEF object
    <3> QED
      BY <1>1, <2>4, Zenon
  <2> QED
    BY <1>2, <1>7, <2>5, Zenon
<1>8. CASE At(s, 1, {"{"}) /\ ObjectAgrees(s, 1, Object(s))
  <2>1. object = Object(s)
    BY <1>8, Zenon
  <2> HIDE DEF object
  <2>2. /\ object.ok /\ object.next = Len(s) + 1 <=> Closes(s, 1)
        /\ object.ok /\ object.next = Len(s) + 1 => HasPairs(object.value, s, 1)
    BY <1>8, <2>1, Zenon DEF ObjectAgrees
  <2>3. CASE ~Closes(s, 1)
    <3>1. Parse(s) = Refused
      BY <1>1, <2>2, <2>3, Zenon
    <3> QED
      BY <1>2, <2>3, <3>1, Zenon
  <2>4. CASE Closes(s, 1)
    <3> DEFINE v == object.value
    <3>1. HasPairs(v, s, 1) /\ Parse(s) = RequestIfGood(v)
      BY <1>1, <2>2, <2>4, Zenon
    <3>2. DOMAIN v = NamesFrom(s, 1)
      BY <3>1, Zenon DEF HasPairs
    <3>3. s[1] = "{"
      BY <1>4, <1>8, Zenon
    <3> HIDE DEF v
    <3>4. CASE {"id", "command"} \subseteq NamesFrom(s, 1)
      <4>1. "command" \in NamesFrom(s, 1)
        BY <3>4
      <4>2. ValidateArgs(StrToType(v["command"]), DOMAIN v \ {"id", "command"}) <=>
              \E i \in 1 .. Pairs(s) : KeepsContract(s, i)
        BY <2>4, <3>1, <4>1, ContractOfPairs, Zenon
      <4> QED
        BY <1>2, <2>4, <3>1, <3>2, <3>3, <3>4, <4>2, Zenon DEF RequestIfGood
    <3>5. CASE ~({"id", "command"} \subseteq NamesFrom(s, 1))
      BY <1>2, <3>1, <3>2, <3>5, Zenon DEF RequestIfGood
    <3> QED
      BY <3>4, <3>5, Zenon
  <2> QED
    BY <2>3, <2>4, Zenon
<1> QED
  BY <1>6, <1>7, <1>8, ObjectOfMessage, Zenon DEF Opens

\* A place of a message but the first is in one of its pairs or just after it.
LEMMA PlaceInPair ==
  ASSUME NEW n \in Nat, NEW i \in 2 .. (4 * n + 1)
  PROVE  \E k \in 1 .. n : i = 4 * k - 2 \/ i = 4 * k - 1 \/ i = 4 * k \/ i = 4 * k + 1
<1> DEFINE k == (i + 2) \div 4
<1>1. k \in Int /\ 4 * k <= i + 2 /\ i + 2 < 4 * k + 4 /\ i \in Nat
  OBVIOUS
<1> HIDE DEF k
<1>2. k \in 1 .. n
  BY <1>1
<1>3. i = 4 * k - 2 \/ i = 4 * k - 1 \/ i = 4 * k \/ i = 4 * k + 1
  BY <1>1
<1> QED
  BY <1>2, <1>3

\* In a command message a colon stands between a name and its value, nowhere else.
LEMMA ColonsInPairs ==
  ASSUME NEW C, NEW s \in Seq(C), IsCommand(s), NEW i \in DOMAIN s, s[i] = ":"
  PROVE  \E k \in 1 .. Pairs(s) : i = 4 * k - 1 /\ s[i - 1] = NameOf(s, k) /\ s[i + 1] = ValueOf(s, k)
<1> DEFINE n == Pairs(s)
<1>1. s[1] = "{" /\ Closes(s, 1)
  BY CommandIsPairs, Zenon
<1>2. Len(s) = 4 * n + 1 /\ \A k \in 1 .. n : IsPair(s, k) /\ AfterOf(s, k) = IF k < n THEN "," ELSE "}"
  BY <1>1, Zenon DEF Closes
<1>3. n \in Nat
  BY DEF Pairs
<1> HIDE DEF n
<1>4. i # 1
  <2>1. s[1] # ":"
    BY <1>1, Zenon
  <2> QED
    BY <2>1, Zenon
<1>5. i \in 1 .. Len(s)
  BY Zenon, LenProperties
<1>6. i \in 2 .. (4 * n + 1)
  <2>1. Len(s) = 4 * n + 1
    BY <1>2, Zenon
  <2> QED
    BY <1>4, <1>5, <2>1
<1>7. PICK k \in 1 .. n : i = 4 * k - 2 \/ i = 4 * k - 1 \/ i = 4 * k \/ i = 4 * k + 1
  BY <1>3, <1>6, PlaceInPair, Zenon
<1>8. IsPair(s, k) /\ (AfterOf(s, k) = "," \/ AfterOf(s, k) = "}")
  BY <1>2, Zenon
<1>9. i # 4 * k - 2
  <2>1. NameOf(s, k) # ":"
    BY <1>8, NoPunctuation, Zenon DEF IsPair, Punctuation
  <2> QED
    BY <2>1, Zenon DEF NameOf
<1>10. i # 4 * k
  <2>1. ValueOf(s, k) # ":"
    BY <1>8, NoPunctuation, Zenon DEF IsPair, Punctuation
  <2> QED
    BY <2>1, Zenon DEF ValueOf
<1>11. i # 4 * k + 1
  <2>1. AfterOf(s, k) # ":"
    BY <1>8, Zenon
  <2> QED
    BY <2>1, Zenon DEF AfterOf
<1>12. i = 4 * k - 1
  BY <1>7, <1>9, <1>10, <1>11, Zenon
<1>13. i - 1 = 4 * k - 2 /\ i + 1 = 4 * k
  BY <1>3, <1>12
<1> QED
  BY <1>12, <1>13, Zenon DEF NameOf, ValueOf, n

\* command_parser.c takes a message of any length, with any number of fields, exactly
\* when it is a command message, and the request it makes says what the message says,
\* argument by argument (CommandParser_Parse).
THEOREM MessagesAreOfTheGrammar ==
  ASSUME NEW C, NEW s \in Seq(C)
  PROVE  /\ Parse(s).ok <=> IsCommand(s)
         /\ Parse(s).ok => SaysSo(Parse(s), s)
<1>1. ~Refused.ok
  BY DEF Refused
<1>2. CASE Parse(s) = Refused /\ ~IsCommand(s)
  BY <1>1, <1>2, Zenon
<1>3. CASE IsCommand(s) /\ \E v : HasPairs(v, s, 1) /\ Parse(s) = RequestOf(v)
  <2>1. PICK v : HasPairs(v, s, 1) /\ Parse(s) = RequestOf(v)
    BY <1>3, Zenon
  <2> DEFINE r == Parse(s)
             args == DOMAIN v \ {"id", "command"}
  <2>2. r = RequestOf(v)
    BY <2>1, Zenon
  <2> HIDE DEF r
  <2>3. /\ r.ok /\ r.type = StrToType(v["command"]) /\ r.requestId = v["id"]
        /\ r.given = [a \in args |-> v[a]]
    BY <2>2 DEF RequestOf
  <2>4. DOMAIN v = NamesFrom(s, 1) /\ \A k \in 1 .. Pairs(s) : v[NameOf(s, k)] = ValueOf(s, k)
    BY <2>1, Zenon DEF HasPairs
  <2>5. ASSUME NEW i \in DOMAIN s, s[i] = ":"
        PROVE  /\ s[i - 1] = "id" => r.requestId = s[i + 1]
               /\ s[i - 1] = "command" => r.type = StrToType(s[i + 1])
               /\ s[i - 1] \notin {"id", "command"} => r.given[s[i - 1]] = s[i + 1]
    <3>1. PICK k \in 1 .. Pairs(s) : i = 4 * k - 1 /\ s[i - 1] = NameOf(s, k) /\ s[i + 1] = ValueOf(s, k)
      BY <1>3, <2>5, ColonsInPairs, Zenon
    <3>2. v[s[i - 1]] = s[i + 1] /\ s[i - 1] \in DOMAIN v
      BY <2>4, <3>1, Zenon DEF NamesFrom
    <3>3. s[i - 1] \notin {"id", "command"} => r.given[s[i - 1]] = v[s[i - 1]]
      <4> DEFINE a == s[i - 1]
      <4>1. a \in DOMAIN v
        BY <3>2, Zenon
      <4>2. r.given = [x \in args |-> v[x]]
        BY <2>3, Zenon
      <4> HIDE DEF a
      <4>3. a \notin {"id", "command"} => r.given[a] = v[a]
        BY <4>1, <4>2
      <4> QED
        BY <4>3, Zenon DEF a
    <3> QED
      BY <2>3, <3>2, <3>3, Zenon
  <2>6. ASSUME NEW i \in DOMAIN s, s[i] = ":"
        PROVE  CASE s[i - 1] = "id"      -> r.requestId = s[i + 1]
                 [] s[i - 1] = "command" -> r.type = StrToType(s[i + 1])
                 [] OTHER                -> r.given[s[i - 1]] = s[i + 1]
    <3>1. CASE s[i - 1] = "id"
      <4>1. s[i - 1] # "command"
        BY <3>1
      <4> QED
        BY <2>5, <2>6, <3>1, <4>1, Zenon
    <3>2. CASE s[i - 1] = "command"
      <4>1. s[i - 1] # "id"
        BY <3>2
      <4> QED
        BY <2>5, <2>6, <3>2, <4>1, Zenon
    <3>3. CASE s[i - 1] # "id" /\ s[i - 1] # "command"
      BY <2>5, <2>6, <3>3, Zenon
    <3> QED
      BY <3>1, <3>2, <3>3, Zenon
  <2>7. SaysSo(r, s)
    BY <2>6, Zenon DEF SaysSo
  <2> QED
    BY <1>3, <2>3, <2>7, Zenon DEF r
<1> QED
  BY <1>2, <1>3, ParseIsCommand, Zenon

-----------------------------------------------------------------------------
(* Commands *)

\* What the assumption says of characters and tokens.
LEMMA AlphabetsAndTokens ==
  /\ DOMAIN Alphabet = {"utf8", "filter", "header", "body", "number", "string"}
  /\ \A t \in Contracts \cup Seeds : t \in Seq(Tokens)
  /\ EditTokens \subseteq Tokens
  /\ MaxUint \in Nat /\ MaxString \in Nat \ {0}
BY WireAssumption DEF WireAssumption

\* What else the buffer holds: characters of its alphabet, or tokens.
Spelled ==
  /\ kind \in {"number", "string"} => text \in Seq(Alphabet[kind])
  /\ kind \in {"contract", "command"} => text \in Seq(Tokens)

\* At first the buffer is empty, or a message of tokens.
LEMMA SpelledInit == WireInit => Spelled
<1> SUFFICES ASSUME WireInit PROVE Spelled
  OBVIOUS
<1>1. CASE kind \in DOMAIN Alphabet \cup {"packet"} /\ text = <<>>
  <2>1. <<>> \in Seq(Alphabet[kind])
    OBVIOUS
  <2>2. kind \notin {"contract", "command"}
    BY <1>1, AlphabetsAndTokens
  <2> QED
    BY <1>1, <2>1, <2>2, Zenon DEF Spelled
<1>2. CASE kind \in {"contract", "command"} /\ text \in Contracts \cup Seeds
  <2>1. kind \notin {"number", "string"}
    BY <1>2
  <2> QED
    BY <1>2, <2>1, AlphabetsAndTokens, Zenon DEF Spelled
<1>3. \/ kind \in DOMAIN Alphabet \cup {"packet"} /\ text = <<>>
      \/ kind = "contract" /\ text \in Contracts
      \/ kind = "command" /\ text \in Seeds
  BY Zenon DEF WireInit
<1> QED
  BY <1>1, <1>2, <1>3

\* Characters come in one at a time.
LEMMA SpelledReceive == Spelled /\ Receive => Spelled'
<1> SUFFICES ASSUME Spelled, Receive PROVE Spelled'
  OBVIOUS
<1>1. kind \in DOMAIN Alphabet /\ kind' = kind
  BY Zenon DEF Receive
<1>2. PICK c \in Alphabet[kind] : text' = Append(text, c)
  BY Zenon DEF Receive
<1>3. kind' \notin {"contract", "command"}
  BY <1>1, AlphabetsAndTokens
<1>4. ASSUME kind' \in {"number", "string"} PROVE text' \in Seq(Alphabet[kind'])
  <2>1. text \in Seq(Alphabet[kind])
    BY <1>1, <1>4, Zenon DEF Spelled
  <2> QED
    BY <1>1, <1>2, <2>1
<1> QED
  BY <1>3, <1>4, Zenon DEF Spelled

\* An edit of a message leaves a message of tokens.
LEMMA EditedIsOfTokens ==
  ASSUME NEW s \in Seq(Tokens)
  PROVE  /\ \A i \in DOMAIN s : RemoveAt(s, i) \in Seq(Tokens)
         /\ \A i \in DOMAIN s, t \in Tokens : ReplaceAt(s, i, t) \in Seq(Tokens)
         /\ \A i \in 1 .. (Len(s) + 1), t \in Tokens : InsertAt(s, i, t) \in Seq(Tokens)
<1> DEFINE T == Tokens
<1> HIDE DEF T
<1>1. \A a \in 1 .. (Len(s) + 1), b \in 0 .. Len(s) : SubSeq(s, a, b) \in Seq(T)
  BY SubSeqProperties DEF T
<1>2. Len(s) \in Nat /\ DOMAIN s = 1 .. Len(s)
  BY DEF T
<1>3. \A i \in DOMAIN s : RemoveAt(s, i) \in Seq(T)
  <2> SUFFICES ASSUME NEW i \in 1 .. Len(s) PROVE RemoveAt(s, i) \in Seq(T)
    BY <1>2
  <2>1. 1 \in 1 .. (Len(s) + 1) /\ i - 1 \in 0 .. Len(s) /\ i + 1 \in 1 .. (Len(s) + 1) /\ Len(s) \in 0 .. Len(s)
    BY <1>2
  <2>2. SubSeq(s, 1, i - 1) \in Seq(T) /\ SubSeq(s, i + 1, Len(s)) \in Seq(T)
    BY <1>1, <2>1, Zenon
  <2> QED
    BY <2>2, ConcatProperties, Zenon DEF RemoveAt
<1>4. \A i \in DOMAIN s, t \in T : ReplaceAt(s, i, t) \in Seq(T)
  <2> SUFFICES ASSUME NEW i \in 1 .. Len(s), NEW t \in T PROVE ReplaceAt(s, i, t) \in Seq(T)
    BY <1>2
  <2>1. s \in Seq(T)
    BY DEF T
  <2>2. [s EXCEPT ![i] = t] \in Seq(T)
    BY <2>1, ExceptSeq
  <2> QED
    BY <2>2, Zenon DEF ReplaceAt
<1>5. \A i \in 1 .. (Len(s) + 1), t \in T : InsertAt(s, i, t) \in Seq(T)
  <2> SUFFICES ASSUME NEW i \in 1 .. (Len(s) + 1), NEW t \in T PROVE InsertAt(s, i, t) \in Seq(T)
    BY Zenon
  <2>1. 1 \in 1 .. (Len(s) + 1) /\ i - 1 \in 0 .. Len(s) /\ Len(s) \in 0 .. Len(s)
    BY <1>2
  <2>2. SubSeq(s, 1, i - 1) \in Seq(T) /\ SubSeq(s, i, Len(s)) \in Seq(T)
    BY <1>1, <2>1, Zenon
  <2>3. <<t>> \in Seq(T)
    OBVIOUS
  <2>4. SubSeq(s, 1, i - 1) \o <<t>> \in Seq(T)
    BY <2>2, <2>3, ConcatProperties, Zenon
  <2>5. (SubSeq(s, 1, i - 1) \o <<t>>) \o SubSeq(s, i, Len(s)) \in Seq(T)
    BY <2>2, <2>4, ConcatProperties, Zenon
  <2> QED
    BY <2>5, Zenon DEF InsertAt
<1> QED
  BY <1>3, <1>4, <1>5, Zenon DEF T

\* An edit brings in tokens only.
LEMMA SpelledEdit == Spelled /\ Edit => Spelled'
<1> SUFFICES ASSUME Spelled, Edit PROVE Spelled'
  OBVIOUS
<1>1. kind = "command" /\ kind' = "command"
  BY Zenon DEF Edit
<1>2. text \in Seq(Tokens)
  <2>1. kind \in {"contract", "command"}
    BY <1>1
  <2> QED
    BY <2>1, Zenon DEF Spelled
<1>3. \/ \E i \in DOMAIN text : text' = RemoveAt(text, i)
      \/ \E i \in DOMAIN text, t \in EditTokens : text' = ReplaceAt(text, i, t)
      \/ \E i \in 1..(Len(text) + 1), t \in EditTokens : text' = InsertAt(text, i, t)
  BY Zenon DEF Edit
<1>4. text' \in Seq(Tokens)
  <2>1. EditTokens \subseteq Tokens
    BY AlphabetsAndTokens, Zenon
  <2> QED
    BY <1>2, <1>3, <2>1, EditedIsOfTokens, Zenon
<1>5. kind' \notin {"number", "string"}
  BY <1>1
<1> QED
  BY <1>4, <1>5, Zenon DEF Spelled

\* The buffer holds characters of its alphabet, or tokens, in every state of
\* WireSpec: the inductive invariant of the theorem that follows.
THEOREM BufferSpelled == WireSpec => []Spelled
<1>1. WireInit => Spelled
  BY SpelledInit, Zenon
<1>2. Spelled /\ [WireNext]_wireVars => Spelled'
  <2> SUFFICES ASSUME Spelled, [WireNext]_wireVars PROVE Spelled'
    OBVIOUS
  <2>1. CASE Receive
    BY <2>1, SpelledReceive, Zenon
  <2>2. CASE Send
    <3>1. kind' = kind /\ kind = "packet"
      BY <2>2, Zenon DEF Send
    <3> QED
      BY <3>1 DEF Spelled
  <2>3. CASE Arrive
    <3>1. kind' = kind /\ kind = "packet"
      BY <2>3, Zenon DEF Arrive
    <3> QED
      BY <3>1 DEF Spelled
  <2>4. CASE Edit
    BY <2>4, SpelledEdit, Zenon
  <2>5. CASE UNCHANGED wireVars
    <3>1. kind' = kind /\ text' = text
      BY <2>5 DEF wireVars
    <3> QED
      BY <3>1, Zenon DEF Spelled
  <2> QED
    BY <2>1, <2>2, <2>3, <2>4, <2>5, Zenon DEF WireNext
<1> QED
  BY <1>1, <1>2, PTL DEF WireSpec

\* On every text of the grammar's alphabets and every message of tokens, whatever its
\* length, the scanners and the object's loop of command_parser.c accept what the
\* grammar accepts, with the values written there.
THEOREM CommandsAlwaysAgree == WireSpec => []CommandsAgree
<1>1. Spelled => CommandsAgree
  <2> SUFFICES ASSUME Spelled PROVE CommandsAgree
    OBVIOUS
  <2>1. ASSUME kind = "number"
        PROVE  LET u == ParseUint(text, 1)
               IN  /\ ScanNumberRegion(text, 1) = Len(text) + 1 <=> IsNumber(text)
                   /\ (u.ok /\ u.next = Len(text) + 1) <=>
                         (IsInt(text) /\ IntValue(text) <= MaxUint)
                   /\ (u.ok /\ u.next = Len(text) + 1) => u.value = IntValue(text)
    <3>1. text \in Seq(Alphabet["number"])
      BY <2>1, Zenon DEF Spelled
    <3> QED
      BY <3>1, AlphabetsAndTokens, NumbersAreOfTheGrammar, UintsAreOfTheGrammar, Zenon
  <2>2. ASSUME kind = "string"
        PROVE  LET string == ParseString(text, 1)
               IN  (string.ok /\ string.next = Len(text) + 1) <=> IsString(text)
    <3>1. text \in Seq(Alphabet["string"])
      BY <2>2, Zenon DEF Spelled
    <3> QED
      BY <3>1, AlphabetsAndTokens, StringsAreOfTheGrammar, Zenon
  <2>3. ASSUME kind \in {"contract", "command"}
        PROVE  LET request == Parse(text)
               IN  /\ request.ok <=> IsCommand(text)
                   /\ request.ok => SaysSo(request, text)
    <3>1. text \in Seq(Tokens)
      BY <2>3, Zenon DEF Spelled
    <3> QED
      BY <3>1, MessagesAreOfTheGrammar, Zenon
  <2> QED
    BY <2>1, <2>2, <2>3, Zenon DEF CommandsAgree
<1> QED
  BY <1>1, BufferSpelled, PTL

=============================================================================
