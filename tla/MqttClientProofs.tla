-------------------------- MODULE MqttClientProofs --------------------------
(***************************************************************************)
(* Proofs about MqttClient, for any packet sizes, ring capacity and        *)
(* timeouts: a connection leaves nothing behind, packets follow one        *)
(* another whole on the wire, pings are sent and given up in time, and the *)
(* client does what MqttSession promises its user.                         *)
(***************************************************************************)
EXTENDS MqttClient, SequenceTheorems, TLAPS

\* EpochClean is not inductive: a packet is taken only by a client that has
\* a session or waits for one.
EpochInv ==
  /\ EpochClean
  /\ at = "ingest" => state \in {"WAIT_CONNACK", "CONNECTED"}

\* What a failed Run leaves.
LEMMA FailClean == ASSUME Fail PROVE EpochInv'
  BY DEF Fail, ResetConnectionEpoch, CloseTransport, EpochInv, EpochClean, EpochEnded

\* An open connection is never reported as one still being opened.
LEMMA NetRunOpen ==
  ASSUME net \in {"CONNECTED", "CLOSING", "ERROR"}, NEW r \in NetRun
  PROVE  r.net \in {"CONNECTED", "CLOSING", "ERROR"}
  BY DEF NetRun, Answer

\* A connection is open when the transport says so.
LEMMA NetRunOpened ==
  ASSUME net = "CONNECTING", NEW r \in NetRun, r.status = "OK"
  PROVE  r.net = "CONNECTED"
  BY DEF NetRun, Answer

\* The calls of the application.
LEMMA CallClean == ASSUME EpochInv, Call PROVE EpochInv'
  <1>1. ASSUME Connect PROVE EpochInv'
    BY <1>1 DEF EpochInv, EpochClean, EpochEnded, Connect, conn, slots
  <1>2. ASSUME Disconnect PROVE EpochInv'
    BY <1>2 DEF EpochInv, EpochClean, EpochEnded, Disconnect, link, slots, CloseTransport,
                ResetConnectionEpoch
  <1>3. ASSUME PublishQos0 \/ PublishQos1 \/ Subscribe PROVE EpochInv'
    BY <1>3 DEF EpochInv, EpochClean, PublishQos0, PublishQos1, Subscribe, CanSend, link
  <1> QED BY <1>1, <1>2, <1>3 DEF Call

\* The first half of MqttClient_Run.
LEMMA RunBeginClean == ASSUME EpochInv, RunBegin PROVE EpochInv'
  <1>1. ASSUME RunFails PROVE EpochInv'
    BY <1>1, FailClean DEF RunFails
  <1>2. ASSUME RunWaits \/ RunIdle PROVE EpochInv'
    BY <1>2 DEF EpochInv, EpochClean, EpochEnded, RunWaits, RunIdle, link, conn, slots
  <1>3. ASSUME RunStartsSession PROVE EpochInv'
    BY <1>3, NetRunOpened DEF EpochInv, EpochClean, RunStartsSession, Drains
  <1>4. ASSUME RunAwaitsConnack PROVE EpochInv'
    <2>1. PICK r \in NetRun :
            /\ state = "WAIT_CONNACK"
            /\ Fail \/ (Drains(r, tx) /\ at' = "ingest" /\ UNCHANGED state)
      BY <1>4 DEF RunAwaitsConnack
    <2>2. CASE Fail
      BY <2>2, FailClean
    <2>3. CASE Drains(r, tx) /\ at' = "ingest" /\ UNCHANGED state
      BY <2>1, <2>3, NetRunOpen DEF EpochInv, EpochClean, Drains
    <2> QED BY <2>1, <2>2, <2>3
  <1>5. ASSUME RunServes PROVE EpochInv'
    BY <1>5, NetRunOpen DEF EpochInv, EpochClean, RunServes, Drains
  <1>6. ASSUME RunDisconnects PROVE EpochInv'
    BY <1>6 DEF EpochInv, EpochClean, EpochEnded, RunDisconnects, CloseTransport,
                ResetConnectionEpoch
  <1> QED BY <1>1, <1>2, <1>3, <1>4, <1>5, <1>6 DEF RunBegin

\* One inbound packet.
LEMMA ReceiveClean == ASSUME EpochInv, Receive PROVE EpochInv'
  <1>1. ASSUME Refused PROVE EpochInv'
    BY <1>1, FailClean DEF Refused
  <1>2. ASSUME at = "ingest", Handled, state' \in {state, "CONNECTED"} PROVE EpochInv'
    BY <1>2 DEF EpochInv, EpochClean, Handled, link
  <1> QED
    BY <1>1, <1>2 DEF Receive, Reads, ReceiveConnack, ReceivePublish, ReceivePublishQos1,
       ReceivePuback, ReceiveSuback, ReceivePingresp, ReceiveBad, ReceiveEnd

\* Keepalive.
LEMMA RunEndClean == ASSUME EpochInv, RunEnd PROVE EpochInv'
  <1>1. CASE PingOverdue
    BY <1>1, FailClean DEF RunEnd
  <1>2. CASE ~PingOverdue
    BY <1>2 DEF EpochInv, EpochClean, RunEnd, link
  <1> QED BY <1>1, <1>2

\* Every step.
LEMMA EpochStep == ASSUME EpochInv, [Next]_vars PROVE EpochInv'
  <1>1. CASE Tick
    BY <1>1 DEF EpochInv, EpochClean, EpochEnded, Tick, link, conn, slots
  <1>2. CASE UNCHANGED vars
    BY <1>2 DEF EpochInv, EpochClean, EpochEnded, vars, link, conn, slots
  <1> QED BY <1>1, <1>2, CallClean, RunBeginClean, ReceiveClean, RunEndClean DEF Next, Run

\* Nothing of a connection is left when it has ended, in whatever way, and
\* MqttClient_Connect never finds the transport open (mqtt_client.c:43-78).
THEOREM NothingIsLeftBehind == Spec => []EpochClean
  <1>1. Init => EpochInv
    BY DEF Init, EpochInv, EpochClean, EpochEnded
  <1>2. EpochInv /\ [Next]_vars => EpochInv'
    BY EpochStep
  <1>3. EpochInv => EpochClean
    BY DEF EpochInv
  <1> QED BY <1>1, <1>2, <1>3, PTL DEF Spec

-----------------------------------------------------------------------------
\* A part, or the whole packet the wire may end with.
AnyPart == [kind : Kinds \cup {"NONE"}, rest : Nat]
Outgoing == {t \in [kind : Kinds \cup {"NONE"}, off : Nat] :
               IF t.kind = "NONE" THEN t.off = 0 ELSE t.off < Size[t.kind]}
\* The parts of packet t accepted so far are the last ones in q.
Trailing(q, t) ==
  IF t.off = 0 THEN q[Len(q)].rest = 0
  ELSE q[Len(q)].kind = t.kind /\ q[Len(q)].rest = Size[t.kind] - t.off

\* The next n parts of a packet, one by one.
LEMMA PartsOfFacts ==
  ASSUME ClientAssumption, NEW t \in Outgoing, t.kind # "NONE",
         NEW n \in Nat, t.off + n <= Size[t.kind]
  PROVE  /\ PartsOf(t, n) \in Seq(AnyPart)
         /\ Len(PartsOf(t, n)) = n
         /\ \A i \in 1 .. n : PartsOf(t, n)[i] = [kind |-> t.kind, rest |-> Size[t.kind] - (t.off + i)]
  <1>1. t.kind \in Kinds /\ t.off \in Nat /\ Size[t.kind] \in Nat
    BY DEF Outgoing, ClientAssumption
  <1>2. \A i \in 1 .. n : [kind |-> t.kind, rest |-> Size[t.kind] - (t.off + i)] \in AnyPart
    BY <1>1 DEF AnyPart
  <1>3. PartsOf(t, n) \in [1 .. n -> AnyPart]
    BY <1>2 DEF PartsOf
  <1>4. \A i \in 1 .. n : PartsOf(t, n)[i] = [kind |-> t.kind, rest |-> Size[t.kind] - (t.off + i)]
    BY DEF PartsOf
  <1>5. PartsOf(t, n) \in Seq(AnyPart) /\ Len(PartsOf(t, n)) = n
    BY <1>3
  <1> QED BY <1>4, <1>5

\* Appending the next parts of packet t to a sequence that ends with the part
\* before them keeps it framed, and tells what it ends with.
LEMMA Continued ==
  ASSUME ClientAssumption, NEW q \in Seq(AnyPart), Len(q) > 0, Framed(q),
         NEW t \in Outgoing, t.kind # "NONE", Trailing(q, t),
         NEW n \in Nat, t.off + n <= Size[t.kind]
  PROVE  /\ q \o PartsOf(t, n) \in Seq(AnyPart)
         /\ Len(q \o PartsOf(t, n)) = Len(q) + n
         /\ Framed(q \o PartsOf(t, n))
         /\ n = 0 => (q \o PartsOf(t, n))[Len(q) + n] = q[Len(q)]
         /\ n > 0 => (q \o PartsOf(t, n))[Len(q) + n]
                       = [kind |-> t.kind, rest |-> Size[t.kind] - (t.off + n)]
  <1> DEFINE more == PartsOf(t, n)
             k == t.kind
             off == t.off
  <1>1. /\ t.kind \in Kinds /\ t.off \in Nat /\ t.off < Size[t.kind] /\ Size[t.kind] \in Nat
    BY DEF Outgoing, ClientAssumption
  <1>2. more \in Seq(AnyPart) /\ Len(more) = n
        /\ \A i \in 1 .. n : more[i] = [kind |-> k, rest |-> Size[k] - (off + i)]
    BY PartsOfFacts
  <1> HIDE DEF more
  <1>3. /\ q \o more \in Seq(AnyPart) /\ Len(q \o more) = Len(q) + n
        /\ \A i \in 1 .. Len(q) + n : (q \o more)[i] = IF i <= Len(q) THEN q[i] ELSE more[i - Len(q)]
    BY ZenonT(60), <1>2, ConcatProperties
  <1>4. Len(q) \in Nat
    BY LenProperties
  <1>5. Framed(q \o more)
    <2> SUFFICES ASSUME NEW i \in 1 .. Len(q \o more) - 1
                 PROVE  Follows((q \o more)[i], (q \o more)[i + 1])
      BY DEF Framed
    <2>0. i \in 1 .. Len(q) + n - 1
      BY <1>3, <1>4
    <2>1. CASE i < Len(q)
      <3>1. (q \o more)[i] = q[i] /\ (q \o more)[i + 1] = q[i + 1]
        BY <1>3, <1>4, <2>0, <2>1
      <3> QED BY <1>4, <2>1, <3>1 DEF Framed
    <2>2. CASE i = Len(q)
      <3>1. (q \o more)[i] = q[Len(q)] /\ (q \o more)[i + 1] = more[1]
        BY <1>3, <1>4, <2>0, <2>2
      <3>2. more[1] = [kind |-> k, rest |-> Size[k] - (off + 1)]
        BY <1>2, <1>4, <2>0, <2>2
      <3> QED BY <1>1, <1>4, <2>2, <3>1, <3>2 DEF Trailing, Follows
    <2>3. CASE i > Len(q)
      <3>1. (q \o more)[i] = more[i - Len(q)] /\ (q \o more)[i + 1] = more[i + 1 - Len(q)]
        BY <1>3, <1>4, <2>0, <2>3
      <3>2. /\ more[i - Len(q)] = [kind |-> k, rest |-> Size[k] - (off + (i - Len(q)))]
            /\ more[i + 1 - Len(q)] = [kind |-> k, rest |-> Size[k] - (off + (i + 1 - Len(q)))]
        BY <1>2, <1>4, <2>0, <2>3
      <3>3. /\ Size[k] - (off + (i - Len(q))) # 0
            /\ Size[k] - (off + (i + 1 - Len(q))) = Size[k] - (off + (i - Len(q))) - 1
        BY <1>1, <1>4, <2>0, <2>3
      <3> QED BY <3>1, <3>2, <3>3 DEF Follows
    <2> QED BY <1>4, <2>0, <2>1, <2>2, <2>3
  <1>6. n = 0 => (q \o more)[Len(q) + n] = q[Len(q)]
    BY <1>3, <1>4
  <1>7. n > 0 => (q \o more)[Len(q) + n] = [kind |-> k, rest |-> Size[k] - (off + n)]
    BY <1>2, <1>3, <1>4
  <1> QED BY <1>3, <1>5, <1>6, <1>7 DEF more

\* A sequence with one more part in front.
LEMMA Cons ==
  ASSUME NEW v \in AnyPart, NEW s \in Seq(AnyPart)
  PROVE  /\ <<v>> \o s \in Seq(AnyPart) /\ Len(<<v>> \o s) = Len(s) + 1
         /\ (<<v>> \o s)[1] = v
         /\ \A i \in 2 .. Len(s) + 1 : (<<v>> \o s)[i] = s[i - 1]
  <1>1. <<v>> \in Seq(AnyPart) /\ Len(<<v>>) = 1 /\ <<v>>[1] = v
    OBVIOUS
  <1>2. Len(s) \in Nat
    BY LenProperties
  <1> QED BY <1>1, <1>2, ConcatProperties

\* Dropping the first n parts of a framed sequence, all but the last of them,
\* leaves a framed sequence with the same end.
LEMMA Shifted ==
  ASSUME NEW q \in Seq(AnyPart), NEW z \in Seq(AnyPart), Framed(q),
         NEW n \in Nat, Len(z) > 0, Len(q) = n + Len(z),
         z[1].rest = q[n + 1].rest, q[n + 1].rest # 0 => z[1] = q[n + 1],
         \A i \in 2 .. Len(z) : z[i] = q[n + i]
  PROVE  /\ Framed(z)
         /\ z[Len(z)].rest = q[Len(q)].rest
         /\ q[Len(q)].rest # 0 => z[Len(z)] = q[Len(q)]
  <1>0. Len(z) \in Nat /\ Len(q) \in Nat
    BY LenProperties
  <1>1. Framed(z)
    <2> SUFFICES ASSUME NEW i \in 1 .. Len(z) - 1 PROVE Follows(z[i], z[i + 1])
      BY DEF Framed
    <2>1. n + i \in 1 .. Len(q) - 1
      BY <1>0
    <2>2. Follows(q[n + i], q[n + i + 1])
      BY <2>1 DEF Framed
    <2>3. z[i + 1] = q[n + (i + 1)] /\ n + (i + 1) = n + i + 1
      BY <1>0
    <2>4. CASE i = 1
      BY <2>2, <2>3, <2>4 DEF Follows
    <2>5. CASE i # 1
      <3>1. z[i] = q[n + i]
        BY <1>0, <2>5
      <3> QED BY <2>2, <2>3, <3>1
    <2> QED BY <2>4, <2>5
  <1>2. z[Len(z)].rest = q[Len(q)].rest /\ (q[Len(q)].rest # 0 => z[Len(z)] = q[Len(q)])
    <2>1. CASE Len(z) = 1
      BY <1>0, <2>1
    <2>2. CASE Len(z) # 1
      <3>0. \A m \in Nat : m > 0 /\ m # 1 => m \in 2 .. m
        OBVIOUS
      <3>1. Len(z) \in 2 .. Len(z)
        BY <1>0, <2>2, <3>0, Zenon
      <3> QED BY <1>0, <3>1
    <2> QED BY <2>1, <2>2
  <1> QED BY <1>1, <1>2

\* WireFramed is not inductive: it must tell where in its packet the last part
\* is, so that the transmit buffer may go on after it.
FrameInv ==
  /\ ring \in Seq(AnyPart) /\ Len(ring) <= RingCap
  /\ wire \in AnyPart /\ tx \in Outgoing
  /\ Framed(Queued)
  /\ state # "DISCONNECTING" /\ net # "ERROR" => Trailing(Queued, tx)

\* A packet just started.
LEMMA StartIsOutgoing ==
  ASSUME ClientAssumption, NEW kind \in Kinds
  PROVE  Start(kind) \in Outgoing /\ Start(kind).off = 0 /\ Pending(Start(kind))
  BY DEF ClientAssumption, Start, Outgoing, Pending, Kinds

\* There is one way to be sending nothing.
LEMMA NotPending == ASSUME NEW t \in Outgoing, ~Pending(t) PROVE t = NoTx
  BY DEF Outgoing, Pending, NoTx

\* A wire with nothing queued is framed.
LEMMA OnePart ==
  ASSUME NEW v \in AnyPart
  PROVE  /\ <<v>> \o <<>> \in Seq(AnyPart) /\ Len(<<v>> \o <<>>) = 1 /\ (<<v>> \o <<>>)[1] = v
         /\ Framed(<<v>> \o <<>>)
  <1>1. <<v>> \in Seq(AnyPart) /\ Len(<<v>>) = 1 /\ <<v>>[1] = v
    OBVIOUS
  <1>2. <<v>> \o <<>> = <<v>>
    BY <1>1, ConcatEmptySeq
  <1> QED BY <1>1, <1>2 DEF Framed

\* NetworkTransport_Run hands the adapter any number of queued parts, and the
\* rest still follows what is on the wire.
LEMMA AnsweredFrame ==
  ASSUME ClientAssumption, FrameInv, NEW r \in NetRun
  PROVE  /\ r.ring \in Seq(AnyPart) /\ Len(r.ring) <= RingCap /\ r.wire \in AnyPart
         /\ Framed(<<r.wire>> \o r.ring)
         /\ state # "DISCONNECTING" /\ r.net # "ERROR" => Trailing(<<r.wire>> \o r.ring, tx)
  <1> DEFINE Goal(q, w) ==
        /\ q \in Seq(AnyPart) /\ Len(q) <= RingCap /\ w \in AnyPart
        /\ Framed(<<w>> \o q)
  <1>0. RingCap \in Nat /\ Len(ring) \in Nat
    BY LenProperties DEF ClientAssumption, FrameInv
  <1>1. Goal(ring, wire)
    BY DEF FrameInv, Queued
  <1>2. \A n \in 0 .. Len(ring) : Sent(n) \in AnyPart
    <2>1. \A n \in 1 .. Len(ring) : ring[n] \in AnyPart
      BY ElementOfSeq DEF FrameInv
    <2>2. Whole \in AnyPart
      BY DEF Whole, AnyPart
    <2> QED BY <1>0, <2>1, <2>2 DEF Sent, FrameInv
  <1>3. ASSUME NEW n \in 0 .. Len(ring)
        PROVE  /\ Goal(Unsent(n), Sent(n)) /\ Goal(<<>>, Sent(n))
               /\ Trailing(Queued, tx) => Trailing(<<Sent(n)>> \o Unsent(n), tx)
    <2> DEFINE z == <<Sent(n)>> \o Unsent(n)
    <2>2. /\ Unsent(n) \in Seq(AnyPart) /\ Len(Unsent(n)) <= RingCap
          /\ Len(Unsent(n)) = Len(ring) - n
          /\ \A i \in 1 .. Len(ring) - n : Unsent(n)[i] = ring[n + i]
      <3>1. \A i \in n + 1 .. Len(ring) : ring[i] \in AnyPart
        BY <1>0, ElementOfSeq DEF FrameInv
      <3>2. /\ SubSeq(ring, n + 1, Len(ring)) \in Seq(AnyPart)
            /\ Len(SubSeq(ring, n + 1, Len(ring)))
                 = IF n + 1 <= Len(ring) THEN Len(ring) - (n + 1) + 1 ELSE 0
            /\ \A i \in 1 .. Len(ring) - (n + 1) + 1 :
                 SubSeq(ring, n + 1, Len(ring))[i] = ring[(n + 1) + i - 1]
        BY <1>0, <3>1, SubSeqProperties
      <3> QED BY <1>0, <3>2 DEF Unsent, FrameInv
    <2>1. /\ z \in Seq(AnyPart) /\ Len(z) > 0 /\ Framed(z)
          /\ Queued \in Seq(AnyPart) /\ Len(Queued) > 0
          /\ z[Len(z)].rest = Queued[Len(Queued)].rest
          /\ Queued[Len(Queued)].rest # 0 => z[Len(z)] = Queued[Len(Queued)]
      <3>1. /\ z \in Seq(AnyPart) /\ Len(z) = Len(ring) - n + 1 /\ z[1] = Sent(n)
            /\ \A i \in 2 .. Len(ring) - n + 1 : z[i] = Unsent(n)[i - 1]
        BY <1>2, <2>2, Cons
      <3>2. /\ Queued \in Seq(AnyPart) /\ Len(Queued) = Len(ring) + 1 /\ Queued[1] = wire
            /\ \A i \in 2 .. Len(ring) + 1 : Queued[i] = ring[i - 1]
        BY Cons DEF FrameInv, Queued
      <3> HIDE DEF z
      <3>3. Sent(n).rest = Queued[n + 1].rest /\ (Queued[n + 1].rest # 0 => Sent(n) = Queued[n + 1])
        BY SMTT(40), <1>0, <3>2 DEF Sent, Whole
      <3>4. ASSUME NEW i \in 2 .. Len(ring) - n + 1 PROVE z[i] = Queued[n + i]
        <4>1. z[i] = ring[n + i - 1]
          BY <1>0, <2>2, <3>1
        <4>2. n + i \in 2 .. Len(ring) + 1
          BY <1>0
        <4> QED BY <1>0, <3>2, <4>1, <4>2
      <3>5. Framed(Queued)
        BY DEF FrameInv
      <3>6. /\ n \in Nat /\ Len(z) > 0 /\ Len(Queued) = n + Len(z) /\ Len(Queued) > 0
            /\ z[1].rest = Queued[n + 1].rest
            /\ Queued[n + 1].rest # 0 => z[1] = Queued[n + 1]
        BY <1>0, <3>1, <3>2, <3>3
      <3>7. \A i \in 2 .. Len(z) : z[i] = Queued[n + i]
        BY <3>1, <3>4
      <3>8. z \in Seq(AnyPart) /\ Queued \in Seq(AnyPart)
        BY <3>1, <3>2
      <3> HIDE DEF Goal
      <3> QED BY <3>5, <3>6, <3>7, <3>8, Shifted
    <2>3. Trailing(Queued, tx) => Trailing(z, tx)
      <3> SUFFICES ASSUME Trailing(Queued, tx) PROVE Trailing(z, tx)
        OBVIOUS
      <3>1. CASE tx.off = 0
        BY <2>1, <3>1 DEF Trailing
      <3>2. CASE tx.off # 0
        <4>1. /\ Queued[Len(Queued)].kind = tx.kind
              /\ Queued[Len(Queued)].rest = Size[tx.kind] - tx.off
          BY <3>2 DEF Trailing
        <4>2. Size[tx.kind] - tx.off # 0
          BY <3>2 DEF FrameInv, Outgoing, ClientAssumption
        <4> QED BY <2>1, <3>2, <4>1, <4>2 DEF Trailing
      <3> QED BY <3>1, <3>2
    <2>4. Goal(<<>>, Sent(n))
      BY <1>0, <1>2, OnePart, EmptySeq
    <2> QED BY <1>2, <2>1, <2>2, <2>3, <2>4
  <1> HIDE DEF Goal
  <1>4. \/ r.ring = ring /\ r.wire = wire /\ (net = "ERROR" => r.net = "ERROR")
        \/ \E n \in 0 .. Len(ring) :
             /\ r.wire = Sent(n) /\ net # "ERROR"
             /\ r.ring = Unsent(n) \/ (r.ring = <<>> /\ r.net = "ERROR")
    <2>1. CASE net \in {"DISCONNECTED", "CONNECTING", "CLOSING", "ERROR"}
      BY <2>1 DEF NetRun, Answer
    <2>2. CASE net \notin {"DISCONNECTED", "CONNECTING", "CLOSING", "ERROR"}
      <3>1. \/ \E n \in 0 .. Len(ring) : r = Answer("OK", net, Unsent(n), Sent(n))
            \/ \E n \in 0 .. Len(ring) : r = Answer("REMOTE_CLOSED", "CLOSING", Unsent(n), Sent(n))
            \/ \E s \in {"TRANSPORT_ERROR", "REMOTE_CLOSED"}, n \in 0 .. Len(ring) :
                  r = Answer(s, "ERROR", <<>>, Sent(n))
        BY <2>2 DEF NetRun
      <3> QED BY <2>2, <3>1 DEF Answer
    <2> QED BY <2>1, <2>2
  <1>5. CASE r.ring = ring /\ r.wire = wire /\ (net = "ERROR" => r.net = "ERROR")
    BY <1>1, <1>5 DEF FrameInv, Queued, Goal
  <1>6. ASSUME NEW n \in 0 .. Len(ring), r.wire = Sent(n), net # "ERROR",
               r.ring = Unsent(n) \/ (r.ring = <<>> /\ r.net = "ERROR")
        PROVE  /\ Goal(r.ring, r.wire)
               /\ state # "DISCONNECTING" /\ r.net # "ERROR" => Trailing(<<r.wire>> \o r.ring, tx)
    BY <1>3, <1>6 DEF FrameInv
  <1> QED BY <1>4, <1>5, <1>6 DEF Goal

\* DrainTx continues the packet where it stopped.
LEMMA DrainedFrame ==
  ASSUME ClientAssumption, NEW w \in AnyPart, NEW q \in Seq(AnyPart), Len(q) <= RingCap,
         NEW t \in Outgoing, Pending(t), Framed(<<w>> \o q), Trailing(<<w>> \o q, t)
  PROVE  /\ RingAfter(t, q) \in Seq(AnyPart) /\ Len(RingAfter(t, q)) <= RingCap
         /\ TxAfter(t, q) \in Outgoing
         /\ Framed(<<w>> \o RingAfter(t, q))
         /\ Trailing(<<w>> \o RingAfter(t, q), TxAfter(t, q))
  <1> DEFINE n == Accepted(t, q)
             z == <<w>> \o q
             y == z \o PartsOf(t, n)
  <1>0. /\ t.kind # "NONE" /\ t.kind \in Kinds /\ t.off \in Nat /\ Size[t.kind] \in Nat
        /\ t.off < Size[t.kind] /\ RingCap \in Nat /\ Len(q) \in Nat
    BY LenProperties DEF Pending, Outgoing, ClientAssumption
  <1>1. n \in Nat /\ t.off + n <= Size[t.kind] /\ Len(q) + n <= RingCap
    BY <1>0 DEF Accepted
  <1>2. /\ PartsOf(t, n) \in Seq(AnyPart) /\ Len(PartsOf(t, n)) = n
    BY <1>0, <1>1, PartsOfFacts
  <1> HIDE DEF n
  <1>3. /\ <<w>> \in Seq(AnyPart) /\ Len(<<w>>) = 1
    OBVIOUS
  <1>4. z \in Seq(AnyPart) /\ Len(z) = 1 + Len(q)
    BY <1>3, ConcatProperties
  <1>5. /\ y \in Seq(AnyPart) /\ Len(y) = Len(z) + n /\ Framed(y)
        /\ n = 0 => y[Len(z) + n] = z[Len(z)]
        /\ n > 0 => y[Len(z) + n] = [kind |-> t.kind, rest |-> Size[t.kind] - (t.off + n)]
    <2> HIDE DEF z
    <2>1. Len(z) > 0
      BY <1>0, <1>4
    <2>2. Framed(z) /\ Trailing(z, t)
      BY DEF z
    <2> QED BY ZenonT(60), <1>0, <1>1, <1>4, <2>1, <2>2, Continued
  <1>6. <<w>> \o (q \o PartsOf(t, n)) = y
    BY <1>2, <1>3, ConcatAssociative
  <1>7. RingAfter(t, q) = q \o PartsOf(t, n)
    BY DEF RingAfter, n
  <1>8. RingAfter(t, q) \in Seq(AnyPart) /\ Len(RingAfter(t, q)) <= RingCap
    BY <1>1, <1>2, <1>7, ConcatProperties
  <1> HIDE DEF y, z
  <1>9. CASE t.off + n = Size[t.kind]
    <2>1. TxAfter(t, q) = NoTx
      BY <1>9 DEF TxAfter, Completes, n
    <2>2. n > 0 /\ Size[t.kind] - (t.off + n) = 0
      BY <1>0, <1>1, <1>9
    <2>3. y[Len(y)].rest = 0
      BY <1>5, <2>2
    <2>4. NoTx \in Outgoing /\ NoTx.off = 0
      BY DEF NoTx, Outgoing
    <2> QED BY <1>5, <1>6, <1>7, <1>8, <2>1, <2>3, <2>4 DEF Trailing
  <1>10. CASE t.off + n # Size[t.kind]
    <2>1. TxAfter(t, q) = [kind |-> t.kind, off |-> t.off + n]
      BY <1>10 DEF TxAfter, Completes, n, Pending
    <2>2. TxAfter(t, q) \in Outgoing
      BY SMTT(40), <1>0, <1>1, <1>10, <2>1 DEF Outgoing
    <2>3. Trailing(y, [kind |-> t.kind, off |-> t.off + n])
      <3>1. CASE n = 0
        <4>1. Trailing(z, t)
          BY DEF z
        <4>2. t.off + n = t.off /\ y[Len(y)] = z[Len(z)]
          BY <1>0, <1>5, <3>1
        <4> QED BY <4>1, <4>2 DEF Trailing
      <3>2. CASE n # 0
        <4>1. t.off + n # 0 /\ y[Len(y)] = [kind |-> t.kind, rest |-> Size[t.kind] - (t.off + n)]
          BY <1>0, <1>1, <1>5, <3>2
        <4> QED BY <4>1 DEF Trailing
      <3> QED BY <3>1, <3>2
    <2> QED BY <1>5, <1>6, <1>7, <1>8, <2>1, <2>2, <2>3
  <1> QED BY <1>9, <1>10

\* A closed connection.
LEMMA FreshFrame ==
  ASSUME ClientAssumption, CloseTransport, tx' = NoTx PROVE FrameInv'
  <1>1. Whole \in AnyPart /\ Whole.rest = 0 /\ NoTx \in Outgoing /\ NoTx.off = 0
    BY DEF Whole, AnyPart, NoTx, Outgoing
  <1>2. ring' = <<>> /\ wire' = Whole
    BY DEF CloseTransport
  <1>3. Queued' = <<Whole>> \o <<>>
    BY <1>2 DEF Queued
  <1>4. Framed(Queued') /\ Queued'[Len(Queued')].rest = 0
    BY <1>1, <1>3, OnePart
  <1>5. <<>> \in Seq(AnyPart) /\ Len(<<>>) <= RingCap
    BY EmptySeq DEF ClientAssumption
  <1> QED BY <1>1, <1>2, <1>4, <1>5 DEF FrameInv, Trailing

\* Nothing was sent or queued.
LEMMA SameFrame ==
  ASSUME FrameInv, UNCHANGED <<ring, wire, tx>>,
         state' # "DISCONNECTING" /\ net' # "ERROR" => state # "DISCONNECTING" /\ net # "ERROR"
  PROVE  FrameInv'
  BY DEF FrameInv, Queued

\* A packet is started where none was being sent.
LEMMA StartFrame ==
  ASSUME ClientAssumption, FrameInv, UNCHANGED <<ring, wire>>, ~Pending(tx),
         NEW kind \in Kinds, tx' = Start(kind),
         state' # "DISCONNECTING" /\ net' # "ERROR" => state # "DISCONNECTING" /\ net # "ERROR"
  PROVE  FrameInv'
  <1>1. tx = NoTx /\ tx.off = 0 /\ tx'.off = 0 /\ tx' \in Outgoing
    BY NotPending, StartIsOutgoing DEF FrameInv, NoTx
  <1>2. Queued' = Queued
    BY DEF Queued
  <1>3. Trailing(Queued, tx) => Trailing(Queued', tx')
    BY <1>1, <1>2 DEF Trailing
  <1> QED BY <1>1, <1>2, <1>3 DEF FrameInv

\* A Run that sends on, and may flush a deferred PUBACK after that.
LEMMA RunFrame ==
  ASSUME ClientAssumption, FrameInv, NEW r \in NetRun, NEW t \in Outgoing, Drains(r, t),
         state # "DISCONNECTING", Pending(t) => r.net = "CONNECTED",
         r.net # "ERROR" => Trailing(<<r.wire>> \o r.ring, t),
         \/ tx' = TxAfter(t, r.ring)
         \/ ~Pending(TxAfter(t, r.ring)) /\ tx' = Start("PUBACK")
  PROVE  FrameInv'
  <1>1. /\ r.ring \in Seq(AnyPart) /\ Len(r.ring) <= RingCap /\ r.wire \in AnyPart
        /\ Framed(<<r.wire>> \o r.ring)
    BY AnsweredFrame
  <1>2. /\ net' = r.net /\ wire' = r.wire /\ ring' = RingAfter(t, r.ring)
        /\ Queued' = <<r.wire>> \o RingAfter(t, r.ring)
    BY DEF Drains, Queued
  <1>3. /\ RingAfter(t, r.ring) \in Seq(AnyPart) /\ Len(RingAfter(t, r.ring)) <= RingCap
        /\ TxAfter(t, r.ring) \in Outgoing
        /\ Framed(<<r.wire>> \o RingAfter(t, r.ring))
        /\ r.net # "ERROR" => Trailing(<<r.wire>> \o RingAfter(t, r.ring), TxAfter(t, r.ring))
    <2>1. CASE Pending(t)
      BY <1>1, <2>1, DrainedFrame
    <2>2. CASE ~Pending(t)
      <3>1. RingAfter(t, r.ring) = r.ring /\ TxAfter(t, r.ring) = NoTx /\ t = NoTx
        BY <2>2, NotPending DEF RingAfter, TxAfter
      <3> QED BY <1>1, <3>1
    <2> QED BY <2>1, <2>2
  <1>4. CASE tx' = TxAfter(t, r.ring)
    BY <1>1, <1>2, <1>3, <1>4 DEF FrameInv
  <1>5. CASE ~Pending(TxAfter(t, r.ring)) /\ tx' = Start("PUBACK")
    <2>1. /\ TxAfter(t, r.ring).off = 0 /\ tx'.off = 0 /\ tx' \in Outgoing
      BY <1>3, <1>5, NotPending, StartIsOutgoing DEF NoTx, Kinds
    <2>2. r.net # "ERROR" => Trailing(Queued', tx')
      BY <1>2, <1>3, <2>1 DEF Trailing
    <2> QED BY <1>1, <1>2, <1>3, <2>1, <2>2 DEF FrameInv
  <1> QED BY <1>4, <1>5

\* A failed Run.
LEMMA FailFrame == ASSUME ClientAssumption, Fail PROVE FrameInv'
  BY FreshFrame DEF Fail, ResetConnectionEpoch

\* The calls of the application.
LEMMA CallFrame == ASSUME ClientAssumption, FrameInv, EpochInv, Call PROVE FrameInv'
  <1>1. ASSUME Connect PROVE FrameInv'
    BY <1>1, SameFrame DEF Connect, conn, EpochInv, EpochClean
  <1>2. ASSUME Disconnect PROVE FrameInv'
    <2>1. CASE state = "CONNECTED"
      <3>1. /\ UNCHANGED <<ring, wire>> /\ tx' = Start("DISCONNECT") /\ state' = "DISCONNECTING"
        BY <1>2, <2>1 DEF Disconnect, link
      <3>2. tx' \in Outgoing
        BY <3>1, StartIsOutgoing DEF Kinds
      <3> QED BY <3>1, <3>2 DEF FrameInv, Queued
    <2>2. CASE state # "CONNECTED"
      BY <1>2, <2>2, FreshFrame DEF Disconnect, ResetConnectionEpoch
    <2> QED BY <2>1, <2>2
  <1>3. ASSUME PublishQos0 \/ PublishQos1 \/ Subscribe PROVE FrameInv'
    <2>1. /\ UNCHANGED <<ring, wire, state, net>> /\ ~Pending(tx)
          /\ UNCHANGED tx \/ \E kind \in Kinds : tx' = Start(kind)
      BY <1>3 DEF PublishQos0, PublishQos1, Subscribe, CanSend, link, Kinds
    <2> QED BY <2>1, SameFrame, StartFrame
  <1> QED BY <1>1, <1>2, <1>3 DEF Call

\* The first half of MqttClient_Run.
LEMMA RunBeginFrame == ASSUME ClientAssumption, FrameInv, EpochInv, RunBegin PROVE FrameInv'
  <1>1. ASSUME RunFails PROVE FrameInv'
    BY <1>1, FailFrame DEF RunFails
  <1>2. ASSUME RunWaits \/ RunIdle PROVE FrameInv'
    BY <1>2, SameFrame DEF RunWaits, RunIdle, link, conn
  <1>3. ASSUME RunStartsSession PROVE FrameInv'
    <2>1. PICK r \in NetRun :
            /\ state = "CONNECTING" /\ r.status = "OK"
            /\ Drains(r, Start("CONNECT"))
            /\ tx' = TxAfter(Start("CONNECT"), r.ring)
      BY <1>3 DEF RunStartsSession
    <2>2. net = "CONNECTING" /\ tx = NoTx /\ tx.off = 0 /\ r.net = "CONNECTED"
      BY <2>1, NetRunOpened DEF EpochInv, EpochClean, EpochEnded, NoTx
    <2>3. Start("CONNECT") \in Outgoing /\ Start("CONNECT").off = 0
      BY StartIsOutgoing DEF Kinds
    <2>4. Trailing(<<r.wire>> \o r.ring, tx)
      BY <2>1, <2>2, AnsweredFrame
    <2>5. Trailing(<<r.wire>> \o r.ring, Start("CONNECT"))
      BY <2>2, <2>3, <2>4 DEF Trailing
    <2> QED BY <2>1, <2>2, <2>3, <2>5, RunFrame
  <1>4. ASSUME RunAwaitsConnack \/ RunServes PROVE FrameInv'
    <2>1. PICK r \in NetRun :
            /\ state # "DISCONNECTING" /\ GoesOn(r)
            /\ \/ Fail
               \/ /\ Drains(r, tx)
                  /\ \/ tx' = TxAfter(tx, r.ring)
                     \/ ~Pending(TxAfter(tx, r.ring)) /\ tx' = Start("PUBACK")
      BY <1>4 DEF RunAwaitsConnack, RunServes
    <2>2. CASE Fail
      BY <2>2, FailFrame
    <2>3. CASE ~Fail
      <3>1. r.net # "ERROR" => Trailing(<<r.wire>> \o r.ring, tx)
        BY <2>1, AnsweredFrame
      <3> QED BY <2>1, <2>3, <3>1, RunFrame DEF GoesOn, FrameInv
    <2> QED BY <2>2, <2>3
  <1>5. ASSUME RunDisconnects PROVE FrameInv'
    BY <1>5, FreshFrame DEF RunDisconnects, ResetConnectionEpoch
  <1> QED BY <1>1, <1>2, <1>3, <1>4, <1>5 DEF RunBegin

\* One inbound packet.
LEMMA ReceiveFrame == ASSUME ClientAssumption, FrameInv, EpochInv, Receive PROVE FrameInv'
  <1>1. ASSUME Refused PROVE FrameInv'
    BY <1>1, FailFrame DEF Refused
  <1>2. ASSUME Reads, Handled, state' \in {state, "CONNECTED"}, UNCHANGED tx PROVE FrameInv'
    BY <1>2, SameFrame DEF Reads, Handled, link, EpochInv
  <1>3. ASSUME ReceivePublishQos1 PROVE FrameInv'
    <2>1. /\ Reads /\ Handled /\ UNCHANGED state
          /\ UNCHANGED tx \/ (~Pending(tx) /\ tx' = Start("PUBACK"))
      BY <1>3 DEF ReceivePublishQos1
    <2>2. CASE UNCHANGED tx
      BY <1>2, <2>1, <2>2
    <2>3. CASE ~Pending(tx) /\ tx' = Start("PUBACK")
      <3>1. UNCHANGED <<ring, wire, net>>
        BY <2>1 DEF Handled, link
      <3> QED BY <2>1, <2>3, <3>1, StartFrame DEF Kinds
    <2> QED BY <2>1, <2>2, <2>3
  <1> QED
    BY <1>1, <1>2, <1>3 DEF Receive, ReceiveConnack, ReceivePublish, ReceivePuback,
       ReceiveSuback, ReceivePingresp, ReceiveBad, ReceiveEnd

\* Keepalive.
LEMMA RunEndFrame == ASSUME ClientAssumption, FrameInv, EpochInv, RunEnd PROVE FrameInv'
  <1>1. CASE PingOverdue
    BY <1>1, FailFrame DEF RunEnd
  <1>2. CASE ~PingOverdue
    <2>1. UNCHANGED <<state, net, ring, wire>>
          /\ (UNCHANGED tx \/ (~Pending(tx) /\ tx' = Start("PINGREQ")))
      BY <1>2 DEF RunEnd, link, PingDue
    <2> QED BY <2>1, SameFrame, StartFrame DEF Kinds
  <1> QED BY <1>1, <1>2

\* The strengthening implies the property: what is left of the packet fits.
LEMMA FrameSafe == ASSUME ClientAssumption, FrameInv PROVE WireFramed
  <1>1. CASE ~Pending(tx)
    <2>1. Remaining = <<>>
      BY <1>1 DEF Remaining
    <2>2. Queued \o <<>> = Queued
      BY Cons, ConcatEmptySeq DEF FrameInv, Queued
    <2> QED BY <2>1, <2>2 DEF FrameInv, WireFramed
  <1>2. CASE Pending(tx)
    <2>1. Queued \in Seq(AnyPart) /\ Len(Queued) > 0
      <3>1. Len(ring) \in Nat
        BY LenProperties DEF FrameInv
      <3> QED BY <3>1, Cons DEF FrameInv, Queued
    <2>2. /\ tx \in Outgoing /\ tx.kind # "NONE"
          /\ Size[tx.kind] - tx.off \in Nat
          /\ tx.off + (Size[tx.kind] - tx.off) <= Size[tx.kind]
      BY <1>2 DEF FrameInv, Pending, Outgoing, ClientAssumption
    <2>3. ASSUME state # "DISCONNECTING", net # "ERROR" PROVE Framed(Queued \o Remaining)
      <3>1. Framed(Queued) /\ Trailing(Queued, tx)
        BY <2>3 DEF FrameInv
      <3>2. Remaining = PartsOf(tx, Size[tx.kind] - tx.off)
        BY <1>2 DEF Remaining
      <3> QED BY <2>1, <2>2, <3>1, <3>2, Continued
    <2> QED BY <2>3 DEF WireFramed, FrameInv
  <1> QED BY <1>1, <1>2

\* However the transport takes packets piece by piece, and whatever is deferred
\* or torn down meanwhile, no packet begins on the wire before the last one is
\* whole (mqtt_client.c:83-149, 262-275, 658-668, 700-715).
THEOREM PacketsAreNotMixed == Spec => []WireFramed
  <1>1. Init => EpochInv /\ FrameInv
    <2> SUFFICES ASSUME Init PROVE EpochInv /\ FrameInv
      OBVIOUS
    <2>1. EpochInv
      BY DEF Init, EpochInv, EpochClean, EpochEnded
    <2>2. Whole \in AnyPart /\ Whole.rest = 0 /\ NoTx \in Outgoing /\ NoTx.off = 0
      BY DEF Whole, AnyPart, NoTx, Outgoing
    <2>3. Queued = <<Whole>> \o <<>> /\ ring = <<>> /\ wire = Whole /\ tx = NoTx
      BY DEF Init, Queued
    <2>4. Framed(Queued) /\ Queued[Len(Queued)].rest = 0
      BY <2>2, <2>3, OnePart
    <2>5. <<>> \in Seq(AnyPart) /\ Len(<<>>) <= RingCap
      BY ClientAssumption, EmptySeq DEF ClientAssumption
    <2> QED BY <2>1, <2>2, <2>3, <2>4, <2>5 DEF FrameInv, Trailing
  <1>2. EpochInv /\ FrameInv /\ [Next]_vars => (EpochInv /\ FrameInv)'
    <2> SUFFICES ASSUME EpochInv, FrameInv, [Next]_vars PROVE EpochInv' /\ FrameInv'
      OBVIOUS
    <2>1. EpochInv'
      BY EpochStep
    <2>2. ASSUME Tick \/ UNCHANGED vars PROVE FrameInv'
      BY <2>2, SameFrame DEF Tick, vars, link, conn
    <2>3. FrameInv'
      BY <2>2, ClientAssumption, CallFrame, RunBeginFrame, ReceiveFrame, RunEndFrame DEF Next, Run
    <2> QED BY <2>1, <2>3
  <1>3. FrameInv => WireFramed
    BY ClientAssumption, FrameSafe
  <1> QED BY <1>1, <1>2, <1>3, PTL DEF Spec

-----------------------------------------------------------------------------
\* KeepaliveKept is not inductive: the ages grow by the ticks since the last
\* Run, and Run itself takes no time.
AgeInv ==
  /\ idle \in Nat /\ pingAge \in Nat /\ lag \in 0 .. MaxLag
  /\ at = "ingest" => lag = 0
  /\ state = "CONNECTED" /\ at = "caller" =>
       /\ ping => pingAge < PingTimeout + lag
       /\ ~ping /\ ~Pending(tx) => idle < Keepalive + lag

\* A failed Run.
LEMMA FailAge == ASSUME ClientAssumption, Fail, lag' \in {0, lag}, AgeInv PROVE AgeInv'
  BY DEF Fail, ResetConnectionEpoch, AgeInv, ClientAssumption

\* The calls of the application take the transmit buffer or leave it.
LEMMA CallAge == ASSUME ClientAssumption, AgeInv, Call PROVE AgeInv'
  <1>1. ASSUME Connect PROVE AgeInv'
    BY <1>1 DEF AgeInv, Connect, conn
  <1>2. ASSUME Disconnect PROVE AgeInv'
    BY <1>2 DEF AgeInv, Disconnect, ResetConnectionEpoch, ages
  <1>3. ASSUME PublishQos0 \/ PublishQos1 \/ Subscribe PROVE AgeInv'
    <2>1. /\ UNCHANGED <<state, ping, pingAge, lag, at>>
          /\ \/ UNCHANGED <<tx, idle>>
             \/ idle' = 0 /\ \E kind \in Kinds : tx' = Start(kind)
      BY <1>3 DEF PublishQos0, PublishQos1, Subscribe, Kinds
    <2>2. UNCHANGED <<tx, idle>> \/ (idle' = 0 /\ Pending(tx'))
      BY <2>1, StartIsOutgoing
    <2> QED BY <2>1, <2>2 DEF AgeInv, Pending
  <1> QED BY <1>1, <1>2, <1>3 DEF Call

\* Run begins a new count of ticks.
LEMMA RunBeginAge == ASSUME ClientAssumption, AgeInv, RunBegin PROVE AgeInv'
  <1>1. CASE Fail
    BY <1>1, FailAge DEF RunBegin
  <1>2. ASSUME RunWaits \/ RunIdle PROVE AgeInv'
    BY <1>2 DEF RunBegin, RunWaits, RunIdle, AgeInv, ClientAssumption, conn, ages
  <1>3. ASSUME NEW r \in NetRun, NEW t, Drains(r, t), at' = "ingest" PROVE AgeInv'
    BY <1>3 DEF RunBegin, Drains, AgeInv, ClientAssumption
  <1>4. ASSUME RunDisconnects PROVE AgeInv'
    BY <1>4 DEF RunBegin, RunDisconnects, ResetConnectionEpoch, AgeInv, ClientAssumption
  <1>5. RunFails => Fail
    BY DEF RunFails
  <1>6. ASSUME RunStartsSession \/ RunServes PROVE AgeInv'
    BY <1>3, <1>6 DEF RunStartsSession, RunServes
  <1>7. ASSUME RunAwaitsConnack PROVE AgeInv'
    BY <1>1, <1>3, <1>7 DEF RunAwaitsConnack
  <1> QED BY <1>1, <1>2, <1>4, <1>5, <1>6, <1>7 DEF RunBegin

\* One inbound packet.
LEMMA ReceiveAge == ASSUME ClientAssumption, AgeInv, Receive PROVE AgeInv'
  <1>1. ASSUME Refused PROVE AgeInv'
    BY <1>1, FailAge DEF Refused
  <1>2. ASSUME Reads, Handled, idle' \in {0, idle}, pingAge' \in {0, pingAge} PROVE AgeInv'
    BY <1>2 DEF Reads, Handled, AgeInv
  <1>3. ~Refused => /\ Reads /\ Handled
                    /\ idle' \in {0, idle} /\ pingAge' \in {0, pingAge}
    BY DEF Receive, ReceiveConnack, ReceivePublish, ReceivePublishQos1, ReceivePuback,
           ReceiveSuback, ReceivePingresp, ReceiveBad, ReceiveEnd, ages
  <1> QED BY <1>1, <1>2, <1>3

\* Run ends with the ping in time, and with one on its way where one is due.
LEMMA RunEndAge == ASSUME ClientAssumption, AgeInv, RunEnd PROVE AgeInv'
  <1>1. CASE PingOverdue
    BY <1>1, FailAge DEF RunEnd
  <1>2. CASE ~PingOverdue
    <2>1. UNCHANGED <<state, ping, idle, pingAge, lag>> /\ lag = 0
      BY <1>2 DEF RunEnd, AgeInv, ages
    <2>2. state = "CONNECTED" /\ ping => pingAge < PingTimeout
      BY <1>2 DEF PingOverdue, AgeInv, ClientAssumption
    <2>3. ASSUME state = "CONNECTED", ~ping, ~Pending(tx)' PROVE idle < Keepalive
      <3>1. tx' = IF PingDue THEN Start("PINGREQ") ELSE tx
        BY <1>2 DEF RunEnd
      <3>2. Pending(Start("PINGREQ"))
        BY StartIsOutgoing DEF Kinds
      <3>3. ~PingDue /\ tx' = tx
        BY <2>3, <3>1, <3>2 DEF Pending
      <3>4. ~Pending(tx)
        BY <2>3, <3>3 DEF Pending
      <3> QED BY <2>3, <3>3, <3>4 DEF PingDue, AgeInv, ClientAssumption
    <2> QED BY <2>1, <2>2, <2>3 DEF AgeInv, ClientAssumption
  <1> QED BY <1>1, <1>2

\* Every step.
LEMMA AgeStep == ASSUME AgeInv, [Next]_vars PROVE AgeInv'
  <1>0. ClientAssumption
    BY ClientAssumption
  <1>1. CASE Tick
    <2>1. /\ lag' = lag + 1 /\ lag < MaxLag /\ at = "caller"
          /\ UNCHANGED <<state, tx, ping, at>>
      BY <1>1 DEF Tick, conn
    <2>2. idle' \in {idle, idle + 1} /\ pingAge' \in {pingAge, pingAge + 1}
      BY <1>1 DEF Tick, Older
    <2> QED BY <1>0, <2>1, <2>2 DEF AgeInv, Pending, ClientAssumption
  <1>2. CASE UNCHANGED vars
    BY <1>2 DEF AgeInv, vars, conn, ages, Pending
  <1> QED BY <1>0, <1>1, <1>2, CallAge, RunBeginAge, ReceiveAge, RunEndAge DEF Next, Run

\* However often Run is delayed, by no more than MaxLag each time, and whatever
\* the broker sends, an unanswered ping is given up and a silent connection is
\* pinged in time (mqtt_client.c:489-516).
THEOREM PingsAreInTime == Spec => []KeepaliveKept
  <1>1. Init => AgeInv
    BY ClientAssumption DEF Init, AgeInv, ClientAssumption
  <1>2. AgeInv /\ [Next]_vars => AgeInv'
    BY AgeStep
  <1>3. AgeInv => KeepaliveKept
    BY ClientAssumption DEF AgeInv, KeepaliveKept, ClientAssumption
  <1> QED BY <1>1, <1>2, <1>3, PTL DEF Spec

-----------------------------------------------------------------------------
(***************************************************************************)
(* The client is a session.                                                *)
(***************************************************************************)

\* Identifiers are never 0, which stands for none: a slot that is taken shows.
IdsInv == nextId \in 1 .. MaxId /\ nextSub \in 1 .. MaxId

\* A step that changes no identifier but by counting on keeps them in range.
LEMMA IdsStep == ASSUME IdsInv, [Next]_vars PROVE IdsInv'
  <1>1. /\ nextId' \in {nextId, NextPacketId(nextId)}
        /\ nextSub' \in {nextSub, NextPacketId(nextSub)}
    <2>1. CASE Call
      BY <2>1 DEF Call, Connect, Disconnect, PublishQos0, PublishQos1, Subscribe, ids
    <2>2. CASE RunBegin
      BY <2>2 DEF RunBegin, RunFails, RunWaits, RunStartsSession, RunAwaitsConnack, RunServes,
                  RunDisconnects, RunIdle, Fail, ids
    <2>3. CASE Receive
      BY <2>3 DEF Receive, ReceiveConnack, ReceivePublish, ReceivePublishQos1, ReceivePuback,
                  ReceiveSuback, ReceivePingresp, ReceiveBad, ReceiveEnd, Refused, Fail, ids
    <2>4. CASE RunEnd \/ Tick \/ UNCHANGED vars
      BY <2>4 DEF RunEnd, Fail, Tick, vars, ids
    <2> QED BY <2>1, <2>2, <2>3, <2>4 DEF Next, Run
  <1>2. \A id \in 1 .. MaxId : NextPacketId(id) \in 1 .. MaxId
    BY ClientAssumption DEF ClientAssumption, NextPacketId
  <1> QED BY <1>1, <1>2 DEF IdsInv

\* What is being sent after the transport took what it could: the same packet
\* or none.
LEMMA TxAfterKind == ASSUME NEW t, NEW parts PROVE TxAfter(t, parts).kind \in {t.kind, "NONE"}
  BY DEF TxAfter, NoTx

\* A failed Run ends the session.
LEMMA FailMaps == ASSUME Fail, state # "DISCONNECTED" PROVE Session!Fails
  BY DEF Fail, ResetConnectionEpoch, NoTx, Session!Fails, Session!Ends

\* The calls of the application.
LEMMA CallMaps ==
  ASSUME EpochInv, IdsInv, Call PROVE Session!Next \/ UNCHANGED Session!sessionVars
  <1>1. ASSUME Connect PROVE Session!Connect
    BY <1>1 DEF Connect, Session!Connect, conn, slots
  <1>2. ASSUME Disconnect PROVE Session!Disconnect
    <2>1. CASE state = "CONNECTED"
      BY <1>2, <2>1 DEF Disconnect, Start, slots, Session!Disconnect
    <2>2. CASE state # "CONNECTED"
      BY <1>2, <2>2 DEF Disconnect, ResetConnectionEpoch, NoTx, Session!Disconnect, Session!Ends
    <2> QED BY <2>1, <2>2
  <1>3. ASSUME PublishQos0 PROVE Session!PublishQos0
    BY <1>3 DEF PublishQos0, CanSend, Pending, Start, slots, Session!PublishQos0, Session!CanSend
  <1>4. ASSUME PublishQos1 PROVE Session!PublishQos1 \/ UNCHANGED Session!sessionVars
    BY <1>4 DEF PublishQos1, CanSend, Pending, Start, IdsInv, Session!PublishQos1,
                Session!CanSend, Session!sessionVars
  <1>5. ASSUME Subscribe PROVE Session!Subscribe \/ UNCHANGED Session!sessionVars
    BY <1>5 DEF Subscribe, CanSend, Pending, Start, IdsInv, Session!Subscribe,
                Session!CanSend, Session!sessionVars
  <1> QED BY <1>1, <1>2, <1>3, <1>4, <1>5 DEF Call, Session!Next

\* The first half of MqttClient_Run.
LEMMA RunBeginMaps ==
  ASSUME EpochInv, RunBegin PROVE Session!Next \/ UNCHANGED Session!sessionVars
  <1>0. at = "caller"
    BY DEF RunBegin
  <1>1. ASSUME RunFails PROVE Session!Fails
    <2>1. PICK r \in NetRun :
            /\ \/ r.status = "TRANSPORT_ERROR"
               \/ state = "CONNECTING"
               \/ Pending(tx)
            /\ Fail
      BY <1>1 DEF RunFails
    <2>2. ASSUME state = "DISCONNECTED" PROVE FALSE
      <3>1. net = "DISCONNECTED" /\ ~Pending(tx)
        BY <2>2 DEF EpochInv, EpochClean, EpochEnded, Pending, NoTx
      <3>2. r.status = "NOT_CONNECTED"
        BY <3>1 DEF NetRun, Answer
      <3> QED BY <2>1, <2>2, <3>1, <3>2
    <2> QED BY <2>1, <2>2, FailMaps
  <1>2. ASSUME RunWaits \/ RunIdle PROVE UNCHANGED Session!sessionVars
    BY <1>2 DEF RunWaits, RunIdle, conn, slots, Session!sessionVars
  <1>3. ASSUME RunStartsSession PROVE Session!RunOpens
    <2>1. /\ state = "CONNECTING" /\ state' = "WAIT_CONNACK" /\ at' = "ingest" /\ UNCHANGED slots
          /\ \E parts : tx' = TxAfter(Start("CONNECT"), parts)
      BY <1>3 DEF RunStartsSession
    <2>2. tx'.kind \in {"CONNECT", "NONE"}
      BY <2>1, TxAfterKind DEF Start
    <2> QED BY <1>0, <2>1, <2>2 DEF slots, Session!RunOpens
  <1>4. ASSUME RunAwaitsConnack PROVE Session!RunServes \/ Session!Fails
    <2>1. CASE Fail
      BY <1>4, <2>1, FailMaps DEF RunAwaitsConnack
    <2>2. CASE ~Fail
      <3>1. /\ state = "WAIT_CONNACK" /\ at' = "ingest" /\ UNCHANGED <<state, slots>>
            /\ \E parts : tx' = TxAfter(tx, parts)
        BY <1>4, <2>2 DEF RunAwaitsConnack
      <3>2. tx'.kind \in {tx.kind, "NONE"}
        BY <3>1, TxAfterKind
      <3> QED BY <1>0, <3>1, <3>2 DEF slots, Session!RunServes, Session!Alive
    <2> QED BY <2>1, <2>2
  <1>5. ASSUME RunServes PROVE Session!RunServes
    <2>1. PICK r \in NetRun :
            /\ state = "CONNECTED" /\ at' = "ingest" /\ UNCHANGED <<state, inflight, sub>>
            /\ \/ ack # 0 /\ ~Pending(TxAfter(tx, r.ring)) /\ tx' = Start("PUBACK") /\ ack' = 0
               \/ /\ ack # 0 => Pending(TxAfter(tx, r.ring))
                  /\ tx' = TxAfter(tx, r.ring) /\ ack' = ack
      BY <1>5 DEF RunServes
    <2>2. TxAfter(tx, r.ring).kind \in {tx.kind, "NONE"}
      BY TxAfterKind
    <2>3. CASE ack # 0 /\ ~Pending(TxAfter(tx, r.ring)) /\ tx' = Start("PUBACK") /\ ack' = 0
      BY <1>0, <2>1, <2>3 DEF Start, Session!RunServes, Session!Alive
    <2>4. CASE (ack # 0 => Pending(TxAfter(tx, r.ring))) /\ tx' = TxAfter(tx, r.ring) /\ ack' = ack
      BY <1>0, <2>1, <2>2, <2>4 DEF Pending, Session!RunServes, Session!Alive
    <2> QED BY <2>1, <2>3, <2>4
  <1>6. ASSUME RunDisconnects PROVE Session!RunCloses
    BY <1>0, <1>6 DEF RunDisconnects, ResetConnectionEpoch, NoTx, Session!RunCloses, Session!Ends
  <1> QED BY <1>1, <1>2, <1>3, <1>4, <1>5, <1>6 DEF RunBegin, Session!Next

\* One inbound packet.
LEMMA ReceiveMaps ==
  ASSUME EpochInv, Receive PROVE Session!Next \/ UNCHANGED Session!sessionVars
  <1>0. at = "ingest" /\ state \in {"WAIT_CONNACK", "CONNECTED"}
    BY DEF EpochInv, Receive, Reads, ReceiveConnack, ReceivePublish, ReceivePublishQos1,
           ReceivePuback, ReceiveSuback, ReceivePingresp, ReceiveBad, ReceiveEnd
  <1>1. ASSUME Refused PROVE Session!Fails
    BY <1>0, <1>1, FailMaps DEF Refused
  <1>2. ASSUME ReceiveConnack, ~Refused PROVE Session!ReceiveConnack
    BY <1>0, <1>2 DEF ReceiveConnack, Handled, slots, Session!ReceiveConnack, Session!Reads
  <1>3. ASSUME ReceivePublish PROVE UNCHANGED Session!sessionVars
    BY <1>3 DEF ReceivePublish, Handled, slots, Session!sessionVars
  <1>4. ASSUME ReceivePublishQos1 PROVE Session!ReceivePublishQos1
    <2>1. PICK id \in 1 .. MaxId :
            IF Pending(tx) THEN ack' = id /\ UNCHANGED tx ELSE tx' = Start("PUBACK") /\ UNCHANGED ack
      BY <1>4 DEF ReceivePublishQos1
    <2>2. id # 0
      BY ClientAssumption DEF ClientAssumption
    <2>3. UNCHANGED <<state, inflight, sub, at>>
      BY <1>4 DEF ReceivePublishQos1, Handled
    <2> QED BY <1>0, <2>1, <2>2, <2>3 DEF Pending, Start, Session!ReceivePublishQos1, Session!Reads
  <1>5. ASSUME ReceivePuback, ~Refused PROVE Session!ReceivePuback
    <2>1. /\ state = "CONNECTED" /\ inflight' \in {inflight, 0}
          /\ UNCHANGED <<state, tx, sub, ack, at>>
      BY <1>5 DEF ReceivePuback, Handled
    <2> QED BY <1>0, <2>1 DEF Session!ReceivePuback, Session!Reads
  <1>6. ASSUME ReceiveSuback, ~Refused PROVE Session!ReceiveSuback
    <2>1. /\ state = "CONNECTED" /\ sub' \in {sub, 0}
          /\ UNCHANGED <<state, tx, inflight, ack, at>>
      BY <1>6 DEF ReceiveSuback, Handled
    <2> QED BY <1>0, <2>1 DEF Session!ReceiveSuback, Session!Reads
  <1>7. ASSUME ReceivePingresp, ~Refused PROVE UNCHANGED Session!sessionVars
    BY <1>7 DEF ReceivePingresp, Handled, slots, Session!sessionVars
  <1> QED BY <1>1, <1>2, <1>3, <1>4, <1>5, <1>6, <1>7
          DEF Receive, ReceiveBad, ReceiveEnd, Session!Next

\* Keepalive.
LEMMA RunEndMaps == ASSUME EpochInv, RunEnd PROVE Session!Fails \/ Session!RunEnd
  <1>1. CASE PingOverdue
    BY <1>1, FailMaps DEF RunEnd, PingOverdue
  <1>2. CASE ~PingOverdue
    <2>1. /\ at = "ingest" /\ at' = "caller" /\ UNCHANGED <<state, slots>>
          /\ tx' = IF PingDue THEN Start("PINGREQ") ELSE tx
      BY <1>2 DEF RunEnd
    <2> QED BY <2>1 DEF slots, PingDue, Pending, Start, Session!RunEnd
  <1> QED BY <1>1, <1>2

\* Every step of the client is a step of the session or none at all.
LEMMA StepMaps ==
  ASSUME EpochInv, IdsInv, [Next]_vars PROVE [Session!Next]_(Session!sessionVars)
  <1>1. CASE Tick \/ UNCHANGED vars
    BY <1>1 DEF Tick, vars, conn, slots, Session!sessionVars
  <1>2. CASE RunEnd
    BY <1>2, RunEndMaps DEF Session!Next
  <1> QED BY <1>1, <1>2, CallMaps, RunBeginMaps, ReceiveMaps DEF Next, Run

\* Whatever the transport accepts and the broker sends, and for any sizes,
\* identifiers and timeouts, the client does only what MqttSession allows:
\* what MqttApp is built on.
THEOREM ClientIsASession == Spec => Session!SafeSpec
  <1>1. Init => EpochInv /\ IdsInv /\ Session!Init
    BY ClientAssumption DEF Init, EpochInv, EpochClean, EpochEnded, IdsInv, NoTx, Session!Init,
       ClientAssumption
  <1>2. EpochInv /\ IdsInv /\ [Next]_vars => (EpochInv /\ IdsInv)'
    BY EpochStep, IdsStep
  <1>3. EpochInv /\ IdsInv /\ [Next]_vars => [Session!Next]_(Session!sessionVars)
    BY StepMaps
  <1> QED BY <1>1, <1>2, <1>3, PTL DEF Spec, Session!SafeSpec

\* All that is left of the refinement to be checked is that handshakes end.
THEOREM SessionNeedsHandshakes == Spec /\ HandshakeEnds => ImplementsSession
  <1>1. state \in Session!Opening <=> (state \in {"CONNECTING", "WAIT_CONNACK"})
    BY DEF Session!Opening
  <1>2. state \notin Session!Opening <=> (state \notin {"CONNECTING", "WAIT_CONNACK"})
    BY DEF Session!Opening
  <1>3. HandshakeEnds => (state \in Session!Opening ~> state \notin Session!Opening)
    BY <1>1, <1>2, PTL DEF HandshakeEnds
  <1> QED BY <1>3, ClientIsASession, PTL DEF ImplementsSession, Session!Spec
=============================================================================
