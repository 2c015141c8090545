----------------------- MODULE NetworkTransportProofs -----------------------
(* Proofs about NetworkTransport, for rings, clocks and timeouts of any size. *)
EXTENDS NetworkTransport, SequenceTheorems, TLAPS

-----------------------------------------------------------------------------
(* Rings.                                                                  *)

\* An emptied ring is a ring (NetworkTransport_Disconnect, EnterError).
LEMMA ResetRing ==
  ASSUME NEW cap \in Nat \ {0}, NEW ring \in Rings(cap)
  PROVE  Reset(ring) \in Rings(cap) /\ RingConsistent(Reset(ring), cap) /\ Reset(ring).len = 0
  BY DEF Rings, Reset, RingConsistent, Wrap

\* The waiting bytes are a sequence of len bytes.
LEMMA ContentsSeq ==
  ASSUME NEW cap \in Nat \ {0}, NEW ring \in Rings(cap)
  PROVE  /\ Contents(ring, cap) \in Seq(Bytes)
         /\ Len(Contents(ring, cap)) = ring.len
         /\ \A i \in 1 .. ring.len :
              Contents(ring, cap)[i] = ring.buf[Wrap(ring.tail + i - 1, cap)]
<1>1. \A i \in 1 .. ring.len : Wrap(ring.tail + i - 1, cap) \in 0 .. cap - 1
  BY DEF Rings, Wrap
<1>2. \A i \in 1 .. ring.len : ring.buf[Wrap(ring.tail + i - 1, cap)] \in Bytes
  BY <1>1 DEF Rings
<1>3. ring.len \in Nat
  BY DEF Rings
<1> QED
  BY <1>2, <1>3 DEF Contents

\* How far an index is past the head of a ring: the waiting bytes are furthest.
LEMMA PastTheHead ==
  ASSUME NEW cap \in Nat \ {0}, NEW tail \in 0 .. cap - 1, NEW len \in 0 .. cap,
         NEW i \in 1 .. cap
  PROVE  LET head == Wrap(tail + len, cap)
             j == Wrap(tail + i - 1, cap)
             past == IF j >= head THEN j - head ELSE j - head + cap
         IN /\ i > len => past = i - len - 1
            /\ i <= len => past >= cap - len
  BY DEF Wrap

\* Copying bytes in appends them to those waiting (network_transport.c:204-209).
LEMMA PutAppends ==
  ASSUME NEW cap \in Nat \ {0}, NEW ring \in Rings(cap), RingConsistent(ring, cap),
         NEW bytes \in Seq(Bytes), ring.len + Len(bytes) <= cap
  PROVE  /\ Put(ring, cap, bytes) \in Rings(cap)
         /\ RingConsistent(Put(ring, cap, bytes), cap)
         /\ Contents(Put(ring, cap, bytes), cap) = Contents(ring, cap) \o bytes
<1> DEFINE n == Len(bytes)
           At(i) == IF i >= ring.head THEN i - ring.head ELSE i - ring.head + cap
           new == Put(ring, cap, bytes)
<1>1. n \in Nat /\ \A k \in 1 .. n : bytes[k] \in Bytes
  OBVIOUS
<1>2. ring.head \in 0 .. cap - 1 /\ ring.tail \in 0 .. cap - 1 /\ ring.len \in 0 .. cap
  BY DEF Rings
<1>2a. /\ ring.head = Wrap(ring.tail + ring.len, cap)
       /\ \A i \in 1 .. cap : LET j == Wrap(ring.tail + i - 1, cap)
                          IN /\ i > ring.len => At(j) = i - ring.len - 1
                             /\ i <= ring.len => At(j) >= cap - ring.len
  <2>1. ring.head = Wrap(ring.tail + ring.len, cap)
    BY DEF RingConsistent
  <2>2. \A i \in 1 .. cap :
          LET head == Wrap(ring.tail + ring.len, cap)
              j == Wrap(ring.tail + i - 1, cap)
              past == IF j >= head THEN j - head ELSE j - head + cap
          IN /\ i > ring.len => past = i - ring.len - 1
             /\ i <= ring.len => past >= cap - ring.len
    BY <1>2, PastTheHead
  <2> QED
    BY <2>1, <2>2
<1>3. new = [buf |-> [i \in 0 .. cap - 1 |-> IF At(i) < n THEN bytes[At(i) + 1] ELSE ring.buf[i]],
             head |-> Wrap(ring.head + n, cap), tail |-> ring.tail, len |-> ring.len + n]
  BY DEF Put
<1>4. \A i \in 0 .. cap - 1 : At(i) \in 0 .. cap - 1
  BY <1>2
<1>5. new \in Rings(cap)
  <2>1. \A i \in 0 .. cap - 1 : (IF At(i) < n THEN bytes[At(i) + 1] ELSE ring.buf[i]) \in Bytes
    <3> SUFFICES ASSUME NEW i \in 0 .. cap - 1
                 PROVE  (IF At(i) < n THEN bytes[At(i) + 1] ELSE ring.buf[i]) \in Bytes
      OBVIOUS
    <3>1. ring.buf[i] \in Bytes
      BY DEF Rings
    <3>2. At(i) < n => At(i) + 1 \in 1 .. n
      BY <1>1, <1>4
    <3> HIDE DEF At, n
    <3> QED
      BY <1>1, <3>1, <3>2
  <2>2. Wrap(ring.head + n, cap) \in 0 .. cap - 1 /\ ring.len + n \in 0 .. cap
    BY <1>1, <1>2 DEF Wrap
  <2> HIDE DEF At, n, new
  <2> QED
    BY <1>2, <1>3, <2>1, <2>2 DEF Rings
<1>6. RingConsistent(new, cap)
  <2>1. ring.head = Wrap(ring.tail + ring.len, cap)
    BY DEF RingConsistent
  <2>2. Wrap(ring.head + n, cap) = Wrap(ring.tail + (ring.len + n), cap)
    BY <1>1, <1>2, <2>1 DEF Wrap
  <2> HIDE DEF At, n, new
  <2> QED
    BY <1>3, <2>2 DEF RingConsistent
<1>7. Contents(new, cap) = Contents(ring, cap) \o bytes
  <2>1. /\ Contents(new, cap) \in Seq(Bytes) /\ Len(Contents(new, cap)) = ring.len + n
        /\ \A i \in 1 .. ring.len + n : Contents(new, cap)[i] = new.buf[Wrap(ring.tail + i - 1, cap)]
    <3>1. new.len = ring.len + n /\ new.tail = ring.tail
      BY <1>3
    <3> HIDE DEF new, n
    <3> QED
      BY <1>5, <3>1, ContentsSeq
  <2>2. /\ Contents(ring, cap) \in Seq(Bytes) /\ Len(Contents(ring, cap)) = ring.len
        /\ \A i \in 1 .. ring.len : Contents(ring, cap)[i] = ring.buf[Wrap(ring.tail + i - 1, cap)]
    BY ContentsSeq
  <2>3. \A i \in 1 .. ring.len :
          new.buf[Wrap(ring.tail + i - 1, cap)] = ring.buf[Wrap(ring.tail + i - 1, cap)]
    <3> SUFFICES ASSUME NEW i \in 1 .. ring.len
                 PROVE  new.buf[Wrap(ring.tail + i - 1, cap)] = ring.buf[Wrap(ring.tail + i - 1, cap)]
      OBVIOUS
    <3> DEFINE j == Wrap(ring.tail + i - 1, cap)
    <3>1. j \in 0 .. cap - 1
      BY <1>2 DEF Wrap
    <3>2. At(j) >= cap - ring.len
      <4>1. i \in 1 .. cap /\ i <= ring.len
        BY <1>2
      <4> HIDE DEF At
      <4> QED
        BY <1>2a, <4>1
    <3>3. n \in Nat /\ n <= cap - ring.len /\ At(j) \in 0 .. cap - 1
      <4>1. At(j) \in 0 .. cap - 1
        BY <1>4, <3>1
      <4> HIDE DEF At, j
      <4> QED
        BY <1>1, <1>2, <4>1
    <3>4. ~(At(j) < n)
      <4> HIDE DEF j, At, n
      <4> QED
        BY <1>2, <3>2, <3>3
    <3> HIDE DEF At, n, new
    <3> QED
      BY <1>3, <3>1, <3>4
  <2>4. \A i \in ring.len + 1 .. ring.len + n :
          new.buf[Wrap(ring.tail + i - 1, cap)] = bytes[i - ring.len]
    <3> SUFFICES ASSUME NEW i \in ring.len + 1 .. ring.len + n
                 PROVE  new.buf[Wrap(ring.tail + i - 1, cap)] = bytes[i - ring.len]
      OBVIOUS
    <3> DEFINE j == Wrap(ring.tail + i - 1, cap)
    <3>1. j \in 0 .. cap - 1
      BY <1>1, <1>2 DEF Wrap
    <3>2. At(j) = i - ring.len - 1
      <4>1. i \in 1 .. cap /\ i > ring.len
        BY <1>1, <1>2
      <4> HIDE DEF At
      <4> QED
        BY <1>2a, <4>1
    <3>3. At(j) < n /\ At(j) + 1 = i - ring.len
      <4> HIDE DEF j, At, n
      <4> QED
        BY SMTT(40), <1>1, <1>2, <3>2
    <3> HIDE DEF At, n, new
    <3> QED
      BY <1>3, <3>1, <3>3
  <2> HIDE DEF new, n, At
  <2>5. Contents(ring, cap) \o bytes \in Seq(Bytes) /\ Len(Contents(ring, cap) \o bytes) = ring.len + n
    BY <2>2, ConcatProperties DEF n
  <2>6. \A i \in 1 .. ring.len + n : Contents(new, cap)[i] = (Contents(ring, cap) \o bytes)[i]
    <3> SUFFICES ASSUME NEW i \in 1 .. ring.len + n
                 PROVE  Contents(new, cap)[i] = (Contents(ring, cap) \o bytes)[i]
      OBVIOUS
    <3>1. CASE i <= ring.len
      <4>1. i \in 1 .. ring.len
        BY <3>1, <1>2
      <4>2. (Contents(ring, cap) \o bytes)[i] = Contents(ring, cap)[i]
        BY <2>2, <4>1, <1>1, <1>2, ConcatProperties DEF n
      <4> QED
        BY <2>1, <2>2, <2>3, <4>1, <4>2
    <3>2. CASE i > ring.len
      <4>1. (Contents(ring, cap) \o bytes)[i] = bytes[i - ring.len]
        BY <2>2, <3>2, <1>1, <1>2, ConcatProperties DEF n
      <4>2. i \in ring.len + 1 .. ring.len + n
        BY <3>2, <1>1, <1>2
      <4> QED
        BY <2>1, <2>4, <4>1, <4>2
    <3>3. i <= ring.len \/ i > ring.len
      BY <1>1, <1>2
    <3> QED
      BY <3>1, <3>2, <3>3
  <2> QED
    BY <2>1, <2>5, <2>6, SeqEqual
<1> QED
  BY <1>5, <1>6, <1>7

\* The oldest bytes are a sequence of bytes.
LEMMA OldestSeq ==
  ASSUME NEW cap \in Nat \ {0}, NEW ring \in Rings(cap), NEW n \in 0 .. ring.len
  PROVE  Oldest(ring, cap, n) \in Seq(Bytes) /\ Len(Oldest(ring, cap, n)) = n
<1>1. Contents(ring, cap) \in Seq(Bytes) /\ Len(Contents(ring, cap)) = ring.len
  BY ContentsSeq
<1>2. ring.len \in Nat
  BY DEF Rings
<1> QED
  BY <1>1, <1>2, SubSeqProperties DEF Oldest

\* Taking bytes out leaves the rest in order (network_transport.c:331-336).
LEMMA TakeSplits ==
  ASSUME NEW cap \in Nat \ {0}, NEW ring \in Rings(cap), RingConsistent(ring, cap),
         NEW n \in 0 .. ring.len
  PROVE  /\ Take(ring, cap, n) \in Rings(cap)
         /\ RingConsistent(Take(ring, cap, n), cap)
         /\ Contents(ring, cap) = Oldest(ring, cap, n) \o Contents(Take(ring, cap, n), cap)
<1> DEFINE new == Take(ring, cap, n)
<1>1. ring.head \in 0 .. cap - 1 /\ ring.tail \in 0 .. cap - 1 /\ ring.len \in 0 .. cap
  BY DEF Rings
<1>2. new = [buf |-> ring.buf, head |-> ring.head, tail |-> Wrap(ring.tail + n, cap), len |-> ring.len - n]
  BY DEF Take
<1>3. new \in Rings(cap)
  BY <1>1, <1>2 DEF Rings, Wrap
<1>4. RingConsistent(new, cap)
  BY <1>1, <1>2 DEF RingConsistent, Wrap
<1>5. Contents(new, cap) = SubSeq(Contents(ring, cap), n + 1, ring.len)
  <2> DEFINE rest == SubSeq(Contents(ring, cap), n + 1, ring.len)
  <2>1. /\ Contents(new, cap) \in Seq(Bytes) /\ Len(Contents(new, cap)) = ring.len - n
        /\ \A i \in 1 .. ring.len - n : Contents(new, cap)[i] = ring.buf[Wrap(new.tail + i - 1, cap)]
    <3>1. new.len = ring.len - n /\ new.buf = ring.buf
      BY <1>2
    <3> HIDE DEF new
    <3> QED
      BY <1>3, <3>1, ContentsSeq
  <2>2. /\ Contents(ring, cap) \in Seq(Bytes) /\ Len(Contents(ring, cap)) = ring.len
        /\ \A i \in 1 .. ring.len : Contents(ring, cap)[i] = ring.buf[Wrap(ring.tail + i - 1, cap)]
    BY ContentsSeq
  <2>3. /\ rest \in Seq(Bytes) /\ Len(rest) = ring.len - n
        /\ \A i \in 1 .. ring.len - n : rest[i] = Contents(ring, cap)[n + i]
    <3>1. \A i \in n + 1 .. ring.len : Contents(ring, cap)[i] \in Bytes
      BY <1>1, <2>2
    <3>2. n + 1 \in Int /\ ring.len \in Int
      BY <1>1
    <3>3. /\ rest \in Seq(Bytes)
          /\ Len(rest) = IF n + 1 <= ring.len THEN ring.len - (n + 1) + 1 ELSE 0
          /\ \A i \in 1 .. ring.len - (n + 1) + 1 : rest[i] = Contents(ring, cap)[n + 1 + i - 1]
      BY <3>1, <3>2, SubSeqProperties
    <3>4. \A i \in 1 .. ring.len - n : n + 1 + i - 1 = n + i
      BY <1>1
    <3> HIDE DEF rest
    <3> QED
      BY <1>1, <3>3, <3>4
  <2>4. \A i \in 1 .. ring.len - n : Wrap(new.tail + i - 1, cap) = Wrap(ring.tail + (n + i) - 1, cap)
    BY <1>1, <1>2 DEF Wrap
  <2>5. \A i \in 1 .. ring.len - n : n + i \in 1 .. ring.len
    BY <1>1
  <2>6. \A i \in 1 .. ring.len - n : Contents(new, cap)[i] = rest[i]
    <3> HIDE DEF new, rest
    <3> QED
      BY ZenonT(60), <2>1, <2>2, <2>3, <2>4, <2>5
  <2> HIDE DEF new, rest
  <2>7. Contents(new, cap) = rest
    BY <2>1, <2>3, <2>6, SeqEqual
  <2> QED
    BY <2>7 DEF rest
<1>6. Contents(ring, cap) = Oldest(ring, cap, n) \o Contents(new, cap)
  <2>1. Contents(ring, cap) \in Seq(Bytes) /\ Len(Contents(ring, cap)) = ring.len
    BY ContentsSeq
  <2>2. SubSeq(Contents(ring, cap), 1, n) \o SubSeq(Contents(ring, cap), n + 1, ring.len)
          = SubSeq(Contents(ring, cap), 1, ring.len)
    <3>1. 1 \in 1 .. ring.len + 1 /\ n \in 1 - 1 .. ring.len /\ ring.len \in n .. ring.len
      BY <1>1
    <3> QED
      BY <2>1, <3>1, ConcatAdjacentSubSeq
  <2>3. SubSeq(Contents(ring, cap), 1, ring.len) = Contents(ring, cap)
    BY <2>1, SubSeqFull
  <2> QED
    BY <1>5, <2>2, <2>3 DEF Oldest
<1> QED
  BY <1>3, <1>4, <1>6

\* Overwriting the bytes that left changes nothing that waits (:171-175).
LEMMA TakeZeroedSplits ==
  ASSUME NEW cap \in Nat \ {0}, NEW ring \in Rings(cap), RingConsistent(ring, cap),
         NEW n \in 0 .. ring.len, 0 \in Bytes
  PROVE  /\ TakeZeroed(ring, cap, n) \in Rings(cap)
         /\ RingConsistent(TakeZeroed(ring, cap, n), cap)
         /\ Contents(ring, cap) = Oldest(ring, cap, n) \o Contents(TakeZeroed(ring, cap, n), cap)
<1> DEFINE taken == Take(ring, cap, n)
           new == TakeZeroed(ring, cap, n)
           Past(i) == IF i >= ring.tail THEN i - ring.tail ELSE i - ring.tail + cap
<1>1. ring.head \in 0 .. cap - 1 /\ ring.tail \in 0 .. cap - 1 /\ ring.len \in 0 .. cap
  BY DEF Rings
<1>2. /\ taken \in Rings(cap)
      /\ RingConsistent(taken, cap)
      /\ Contents(ring, cap) = Oldest(ring, cap, n) \o Contents(taken, cap)
  BY TakeSplits
<1>3. /\ taken.buf = ring.buf /\ taken.head = ring.head
      /\ taken.tail = Wrap(ring.tail + n, cap) /\ taken.len = ring.len - n
  BY DEF Take
<1>4. /\ new = [buf |-> Zeroed(ring, cap, n), head |-> ring.head,
                tail |-> Wrap(ring.tail + n, cap), len |-> ring.len - n]
      /\ Zeroed(ring, cap, n) = [i \in 0 .. cap - 1 |-> IF Past(i) < n THEN 0 ELSE ring.buf[i]]
  BY DEF TakeZeroed, Zeroed
<1>5. new \in Rings(cap)
  <2>1. \A i \in 0 .. cap - 1 : ring.buf[i] \in Bytes
    BY DEF Rings
  <2>2. Zeroed(ring, cap, n) \in [0 .. cap - 1 -> Bytes]
    <3> HIDE DEF Past
    <3> QED
      BY <1>4, <2>1
  <2>3. Wrap(ring.tail + n, cap) \in 0 .. cap - 1 /\ ring.len - n \in 0 .. cap
    BY <1>1 DEF Wrap
  <2> HIDE DEF new, Past
  <2> QED
    BY <1>1, <1>4, <2>2, <2>3 DEF Rings
<1>6. RingConsistent(new, cap)
  <2> HIDE DEF new, taken
  <2> QED
    BY <1>2, <1>3, <1>4 DEF RingConsistent
<1>7. \A i \in 1 .. ring.len - n :
        new.buf[Wrap(new.tail + i - 1, cap)] = taken.buf[Wrap(taken.tail + i - 1, cap)]
  <2> SUFFICES ASSUME NEW i \in 1 .. ring.len - n
               PROVE  new.buf[Wrap(new.tail + i - 1, cap)] = taken.buf[Wrap(taken.tail + i - 1, cap)]
    OBVIOUS
  <2> DEFINE j == Wrap(Wrap(ring.tail + n, cap) + i - 1, cap)
  <2>1. j \in 0 .. cap - 1
    BY <1>1 DEF Wrap
  <2>2. ~(Past(j) < n)
    BY <1>1 DEF Wrap
  <2>3. new.buf[j] = ring.buf[j]
    <3> HIDE DEF new, j, Past
    <3> QED
      BY <1>4, <2>1, <2>2
  <2>4. new.tail = Wrap(ring.tail + n, cap)
    BY <1>4
  <2> HIDE DEF new, taken
  <2> QED
    BY <1>3, <2>3, <2>4
<1>8. Contents(new, cap) = Contents(taken, cap)
  <2>1. new.len = ring.len - n
    BY <1>4
  <2> HIDE DEF new, taken
  <2> QED
    BY <1>3, <1>7, <2>1 DEF Contents
<1> HIDE DEF new, taken
<1> QED
  BY <1>2, <1>5, <1>6, <1>8 DEF new

-----------------------------------------------------------------------------
(* The inductive invariant.                                                *)

\* The two rings of a state, as the lemmas want them.
LEMMA GoodRings ==
  ASSUME IInv
  PROVE  /\ tx \in Rings(TxCap) /\ RingConsistent(tx, TxCap)
         /\ rx \in Rings(RxCap) /\ RingConsistent(rx, RxCap)
         /\ TxCap \in Nat \ {0} /\ RxCap \in Nat \ {0} /\ 0 \in Bytes
         /\ tx.len \in 0 .. TxCap /\ rx.len \in 0 .. RxCap
  BY TransportAssumption DEF IInv, TypeOK, RingsConsistent, Rings

\* What a call that exchanges no bytes reports.
LEMMA SilentOutcome ==
  ASSUME NEW op \in {"none", "connect", "disconnect", "run", "send", "receive"},
         NEW status \in Statuses, NEW answer \in Statuses,
         Answered(op, status, answer)
  PROVE  /\ out' \in Outcomes /\ out'.op = op /\ out'.status = status /\ out'.answer = answer
         /\ out'.data = <<>> /\ out'.sent = <<>> /\ out'.got = <<>>
<1>1. <<>> \in Seq(Bytes)
  OBVIOUS
<1> QED
  BY <1>1 DEF Answered, Outcomes

\* What a Run that sends n bytes reports.
LEMMA ExchangeOutcome ==
  ASSUME IInv, NEW n \in 0 .. tx.len, NEW got \in Seq(Bytes),
         NEW status \in Statuses, NEW answer \in Statuses,
         Exchanged(status, answer, n, got)
  PROVE  /\ out' \in Outcomes /\ out'.op = "run" /\ out'.status = status /\ out'.answer = answer
         /\ out'.data = <<>> /\ out'.sent = Oldest(tx, TxCap, n) /\ out'.got = got
<1>1. <<>> \in Seq(Bytes)
  OBVIOUS
<1>2. Oldest(tx, TxCap, n) \in Seq(Bytes)
  BY GoodRings, OldestSeq
<1> QED
  BY <1>1, <1>2 DEF Exchanged, Outcomes

\* The clock moves by one tick and stays a clock value.
LEMMA ClockTick ==
  ASSUME NEW t \in Clock
  PROVE  /\ Later(t, 1) \in Clock
         /\ Later(t, ConnectTimeout) \in Clock
         /\ Ticks(t, Later(t, ConnectTimeout)) = ConnectTimeout
  BY TransportAssumption DEF Later, Ticks, Clock, ClockMod

\* One tick later the deadline is one tick nearer, or one tick further past.
LEMMA DeadlineTick ==
  ASSUME NEW t \in Clock, NEW d \in Clock, NEW w \in Nat,
         w < ConnectTimeout + MaxLag,
         w <= ConnectTimeout => Ticks(t, d) = ConnectTimeout - w,
         w >= ConnectTimeout => Ticks(d, t) = w - ConnectTimeout
  PROVE  /\ w + 1 <= ConnectTimeout => Ticks(Later(t, 1), d) = ConnectTimeout - (w + 1)
         /\ w + 1 >= ConnectTimeout => Ticks(d, Later(t, 1)) = w + 1 - ConnectTimeout
  BY TransportAssumption DEF Later, Ticks, Clock, ClockMod

\* The wrap-safe test tells before the deadline from after it.
LEMMA DeadlineTest ==
  ASSUME NEW t \in Clock, NEW d \in Clock, NEW w \in Nat,
         w < ConnectTimeout + MaxLag,
         w <= ConnectTimeout => Ticks(t, d) = ConnectTimeout - w,
         w >= ConnectTimeout => Ticks(d, t) = w - ConnectTimeout
  PROVE  DeadlineElapsed(t, d) <=> w >= ConnectTimeout
  BY TransportAssumption DEF DeadlineElapsed, Ticks, Clock, ClockMod

\* Every invariant holds of a transport that was just bound.
LEMMA InitIInv == Init => IInv
<1> SUFFICES ASSUME Init PROVE IInv
  OBVIOUS
<1>1. \A cap \in Nat \ {0} :
        EmptyRing(cap) \in Rings(cap) /\ RingConsistent(EmptyRing(cap), cap) /\ EmptyRing(cap).len = 0
  BY TransportAssumption DEF EmptyRing, Rings, RingConsistent, Wrap
<1>2. <<>> \in Seq(Bytes)
  OBVIOUS
<1>3. out \in Outcomes
  BY <1>2 DEF Init, Outcomes, Statuses
<1>4. timeoutSet \in BOOLEAN
  BY Zenon DEF Init
<1>5. TypeOK
  BY <1>1, <1>3, <1>4, TransportAssumption DEF Init, TypeOK, States, Clock, ClockMod
<1>6. RingsConsistent
  BY <1>1, TransportAssumption DEF Init, RingsConsistent
<1>7. NothingLeftOver
  BY <1>1, TransportAssumption DEF Init, NothingLeftOver
<1>8. DeadlineKept
  BY DEF Init, DeadlineKept
<1> QED
  BY <1>5, <1>6, <1>7, <1>8 DEF IInv

\* Time passes.
LEMMA TickIInv == IInv /\ Tick => IInv'
<1> SUFFICES ASSUME IInv, Tick PROVE IInv'
  OBVIOUS
<1>1. waited < ConnectTimeout + MaxLag
  BY TransportAssumption DEF IInv, TypeOK, DeadlineKept, Tick
<1>2. now' \in Clock
  BY ClockTick DEF IInv, TypeOK, Tick
<1>3. /\ waited + 1 <= ConnectTimeout => Ticks(now', deadline) = ConnectTimeout - (waited + 1)
      /\ waited + 1 >= ConnectTimeout => Ticks(deadline, now') = waited + 1 - ConnectTimeout
  BY <1>1, DeadlineTick DEF IInv, TypeOK, DeadlineKept, Tick
<1>4. TypeOK'
  BY <1>2, TransportAssumption DEF IInv, TypeOK, Tick
<1>5. DeadlineKept'
  BY <1>3, TransportAssumption DEF IInv, TypeOK, DeadlineKept, Tick
<1> QED
  BY <1>4, <1>5 DEF IInv, RingsConsistent, NothingLeftOver, Tick

\* Connect computes the deadline from the clock it reads (network_transport.c:70).
LEMMA ConnectIInv == IInv /\ Connect => IInv'
<1> SUFFICES ASSUME IInv, Connect PROVE IInv'
  OBVIOUS
<1>1. out' \in Outcomes
  <2>1. \E s \in {"ALREADY", "IN_PROGRESS", "TRANSPORT_ERROR"}, a \in {"OK", "TRANSPORT_ERROR"} :
          Answered("connect", s, a)
    BY DEF Connect, Returns
  <2> QED
    BY <2>1, SilentOutcome DEF Statuses, Terminal
<1>2. Later(now, ConnectTimeout) \in Clock /\ Ticks(now, Later(now, ConnectTimeout)) = ConnectTimeout
  BY ClockTick DEF IInv, TypeOK
<1>3. TypeOK'
  <2>1. timeoutSet' \in BOOLEAN
    BY Zenon DEF IInv, TypeOK, Connect
  <2> QED
    BY <1>1, <1>2, <2>1, TransportAssumption DEF IInv, TypeOK, Connect, States
<1>4. DeadlineKept'
  BY <1>2, TransportAssumption DEF IInv, TypeOK, DeadlineKept, Connect
<1>5. NothingLeftOver' /\ RingsConsistent'
  BY DEF IInv, NothingLeftOver, RingsConsistent, Connect
<1> QED
  BY <1>3, <1>4, <1>5 DEF IInv

\* Disconnect empties both rings and drops the deadline (network_transport.c:76-90).
LEMMA DisconnectIInv == IInv /\ Disconnect => IInv'
<1> SUFFICES ASSUME IInv, Disconnect PROVE IInv'
  OBVIOUS
<1>1. out' \in Outcomes
  BY SilentOutcome DEF Disconnect, Returns, Statuses, Terminal
<1>2. /\ tx' \in Rings(TxCap) /\ RingConsistent(tx', TxCap) /\ tx'.len = 0
      /\ rx' \in Rings(RxCap) /\ RingConsistent(rx', RxCap) /\ rx'.len = 0
  BY GoodRings, ResetRing DEF Disconnect
<1>3. timeoutSet' \in BOOLEAN
  BY Zenon DEF Disconnect
<1>4. TypeOK'
  BY <1>1, <1>2, <1>3, TransportAssumption DEF IInv, TypeOK, States, Disconnect
<1>5. RingsConsistent' /\ NothingLeftOver' /\ DeadlineKept'
  BY <1>2 DEF RingsConsistent, NothingLeftOver, DeadlineKept, Disconnect
<1> QED
  BY <1>4, <1>5 DEF IInv

\* A poll leaves CONNECTING or keeps the deadline it had (network_transport.c:110-139).
LEMMA RunConnectIInv == IInv /\ RunConnect => IInv'
<1> SUFFICES ASSUME IInv, RunConnect PROVE IInv'
  OBVIOUS
<1>1. out' \in Outcomes
  <2>1. \E s \in Statuses, a \in Statuses : Answered("run", s, a)
    BY DEF RunConnect, Returns, Statuses, Terminal
  <2> QED
    BY <2>1, SilentOutcome
<1>2. TypeOK'
  <2>1. timeoutSet' \in BOOLEAN
    BY Zenon DEF IInv, TypeOK, RunConnect
  <2> QED
    BY <1>1, <2>1, TransportAssumption DEF IInv, TypeOK, RunConnect, States
<1>3. NothingLeftOver'
  BY DEF IInv, NothingLeftOver, RunConnect
<1>4. DeadlineKept'
  <2> SUFFICES ASSUME state' = "CONNECTING"
               PROVE  DeadlineKept'
    BY DEF DeadlineKept
  <2>1. ~DeadlineElapsed(now, deadline) /\ UNCHANGED <<now, deadline, waited>> /\ lag' = 0
    BY DEF IInv, NothingLeftOver, RunConnect
  <2>2. waited < ConnectTimeout + MaxLag
    BY TransportAssumption DEF IInv, TypeOK, DeadlineKept, RunConnect
  <2>3. ~(waited >= ConnectTimeout)
    BY <2>1, <2>2, DeadlineTest DEF IInv, TypeOK, DeadlineKept, RunConnect
  <2> QED
    BY <2>1, <2>3, TransportAssumption DEF IInv, TypeOK, DeadlineKept, RunConnect
<1>5. RingsConsistent'
  BY DEF IInv, RingsConsistent, RunConnect
<1> QED
  BY <1>2, <1>3, <1>4, <1>5 DEF IInv

\* A terminal failure discards both rings.
LEMMA EnterErrorIInv ==
  ASSUME IInv, EnterError, UNCHANGED <<now, deadline, lag, waited>>, out' \in Outcomes
  PROVE  IInv'
<1>1. /\ tx' \in Rings(TxCap) /\ RingConsistent(tx', TxCap) /\ tx'.len = 0
      /\ rx' \in Rings(RxCap) /\ RingConsistent(rx', RxCap) /\ rx'.len = 0
  BY GoodRings, ResetRing DEF EnterError
<1>2. timeoutSet' \in BOOLEAN
  BY Zenon DEF EnterError
<1>3. TypeOK'
  BY <1>1, <1>2 DEF IInv, TypeOK, States, EnterError
<1>4. RingsConsistent' /\ NothingLeftOver' /\ DeadlineKept'
  BY <1>1 DEF RingsConsistent, NothingLeftOver, DeadlineKept, EnterError
<1> QED
  BY <1>3, <1>4 DEF IInv

\* A failed send empties both rings (network_transport.c:248-256).
LEMMA RunSendFailsIInv == IInv /\ RunSendFails => IInv'
<1> SUFFICES ASSUME IInv, RunSendFails PROVE IInv'
  OBVIOUS
<1>1. PICK n \in 0 .. tx.len - 1, s \in Terminal : Exchanged(s, s, n, <<>>)
  BY DEF RunSendFails
<1>2. out' \in Outcomes
  <2>1. n \in 0 .. tx.len
    BY GoodRings
  <2>2. <<>> \in Seq(Bytes) /\ s \in Statuses
    BY DEF Statuses
  <2> QED
    BY <1>1, <2>1, <2>2, ExchangeOutcome
<1> QED
  BY <1>2, EnterErrorIInv DEF RunSendFails

\* A failed receive empties both rings (network_transport.c:266-277).
LEMMA RunReceiveFailsIInv == IInv /\ RunReceiveFails => IInv'
<1> SUFFICES ASSUME IInv, RunReceiveFails PROVE IInv'
  OBVIOUS
<1>1. PICK n \in 0 .. tx.len : Exchanged("TRANSPORT_ERROR", "TRANSPORT_ERROR", n, <<>>)
  BY DEF RunReceiveFails
<1>2. <<>> \in Seq(Bytes) /\ "TRANSPORT_ERROR" \in Statuses
  BY DEF Statuses, Terminal
<1>3. out' \in Outcomes
  BY <1>1, <1>2, ExchangeOutcome
<1> QED
  BY <1>3, EnterErrorIInv DEF RunReceiveFails, timeVars

\* A step that drains and fills rings of an established connection.
LEMMA RingStepIInv ==
  ASSUME IInv, state = "CONNECTED", state' \in {"CONNECTED", "CLOSING"},
         UNCHANGED <<now, deadline, timeoutSet, lag, waited>>, out' \in Outcomes,
         tx' \in Rings(TxCap), RingConsistent(tx', TxCap),
         rx' \in Rings(RxCap), RingConsistent(rx', RxCap)
  PROVE  IInv'
<1>1. TypeOK'
  BY DEF IInv, TypeOK, States
<1>2. NothingLeftOver'
  BY DEF IInv, NothingLeftOver
<1>3. RingsConsistent' /\ DeadlineKept'
  BY DEF RingsConsistent, DeadlineKept
<1> QED
  BY <1>1, <1>2, <1>3 DEF IInv

\* Draining without receiving keeps the transmit ring consistent (network_transport.c:142-180).
LEMMA RunReceivesNothingIInv == IInv /\ RunReceivesNothing => IInv'
<1> SUFFICES ASSUME IInv, RunReceivesNothing PROVE IInv'
  OBVIOUS
<1>1. PICK n \in 0 .. tx.len :
        /\ \E answer \in Statuses : Exchanged("OK", answer, n, <<>>)
        /\ tx' = TakeZeroed(tx, TxCap, n)
  BY DEF RunReceivesNothing, Statuses, Terminal
<1>2. out' \in Outcomes
  <2>1. <<>> \in Seq(Bytes) /\ "OK" \in Statuses
    BY DEF Statuses
  <2> QED
    BY <1>1, <2>1, ExchangeOutcome
<1>3. tx' \in Rings(TxCap) /\ RingConsistent(tx', TxCap)
  BY <1>1, GoodRings, TakeZeroedSplits
<1>4. rx' \in Rings(RxCap) /\ RingConsistent(rx', RxCap)
  BY GoodRings DEF RunReceivesNothing
<1> QED
  BY <1>2, <1>3, <1>4, RingStepIInv DEF RunReceivesNothing, timeVars

\* The end of the stream leaves the received bytes where they are (network_transport.c:258-265).
LEMMA RunRemoteClosesIInv == IInv /\ RunRemoteCloses => IInv'
<1> SUFFICES ASSUME IInv, RunRemoteCloses PROVE IInv'
  OBVIOUS
<1>1. PICK n \in 0 .. tx.len :
        /\ Exchanged("REMOTE_CLOSED", "REMOTE_CLOSED", n, <<>>)
        /\ tx' = TakeZeroed(tx, TxCap, n)
  BY DEF RunRemoteCloses
<1>2. out' \in Outcomes
  <2>1. <<>> \in Seq(Bytes) /\ "REMOTE_CLOSED" \in Statuses
    BY DEF Statuses, Terminal
  <2> QED
    BY <1>1, <2>1, ExchangeOutcome
<1>3. tx' \in Rings(TxCap) /\ RingConsistent(tx', TxCap)
  BY <1>1, GoodRings, TakeZeroedSplits
<1>4. rx' \in Rings(RxCap) /\ RingConsistent(rx', RxCap)
  BY GoodRings DEF RunRemoteCloses
<1> QED
  BY <1>2, <1>3, <1>4, RingStepIInv DEF RunRemoteCloses, timeVars

\* What a Run that fetches bytes does, as the lemmas want it.
LEMMA FetchedBytes ==
  ASSUME IInv, RunReceives
  PROVE  \E n \in 0 .. tx.len, got \in Seq(Bytes) :
           /\ Exchanged("OK", "OK", n, got)
           /\ tx' = TakeZeroed(tx, TxCap, n)
           /\ rx' = Put(rx, RxCap, got)
           /\ rx.len + Len(got) <= RxCap
<1>1. PICK n \in 0 .. tx.len, k \in 1 .. FetchWant : \E got \in [1 .. k -> Bytes] :
        /\ Exchanged("OK", "OK", n, got)
        /\ tx' = TakeZeroed(tx, TxCap, n)
        /\ rx' = Put(rx, RxCap, got)
  BY DEF RunReceives
<1>2. PICK got \in [1 .. k -> Bytes] :
        /\ Exchanged("OK", "OK", n, got)
        /\ tx' = TakeZeroed(tx, TxCap, n)
        /\ rx' = Put(rx, RxCap, got)
  BY <1>1
<1>3. k \in Nat /\ rx.len + k <= RxCap
  BY GoodRings, TransportAssumption DEF FetchWant, Least
<1>4. got \in Seq(Bytes) /\ Len(got) = k
  BY <1>3
<1> QED
  BY <1>2, <1>3, <1>4

\* Fetched bytes fit the receive ring and keep it consistent (network_transport.c:198-212).
LEMMA RunReceivesIInv == IInv /\ RunReceives => IInv'
<1> SUFFICES ASSUME IInv, RunReceives PROVE IInv'
  OBVIOUS
<1>1. PICK n \in 0 .. tx.len, got \in Seq(Bytes) :
        /\ Exchanged("OK", "OK", n, got)
        /\ tx' = TakeZeroed(tx, TxCap, n)
        /\ rx' = Put(rx, RxCap, got)
        /\ rx.len + Len(got) <= RxCap
  BY FetchedBytes
<1>2. out' \in Outcomes
  <2>1. "OK" \in Statuses
    BY DEF Statuses
  <2> QED
    BY <1>1, <2>1, ExchangeOutcome
<1>3. tx' \in Rings(TxCap) /\ RingConsistent(tx', TxCap)
  BY <1>1, GoodRings, TakeZeroedSplits
<1>4. rx' \in Rings(RxCap) /\ RingConsistent(rx', RxCap)
  BY <1>1, GoodRings, PutAppends
<1> QED
  BY <1>2, <1>3, <1>4, RingStepIInv DEF RunReceives, timeVars

\* A call that changes nothing but its result.
LEMMA ReportIInv ==
  ASSUME IInv, UNCHANGED <<state, tx, rx, now, deadline, timeoutSet, lag, waited>>, out' \in Outcomes
  PROVE  IInv'
  BY DEF IInv, TypeOK, RingsConsistent, NothingLeftOver, DeadlineKept

\* A Run with nothing to advance changes nothing (network_transport.c:241-247).
LEMMA RunIdleIInv == IInv /\ RunIdle => IInv'
<1> SUFFICES ASSUME IInv, RunIdle PROVE IInv'
  OBVIOUS
<1>1. \E s \in Statuses : Answered("run", s, "OK")
  BY DEF RunIdle, Returns, Statuses, Terminal
<1>2. out' \in Outcomes
  BY <1>1, SilentOutcome DEF Statuses
<1> QED
  BY <1>2, ReportIInv DEF RunIdle

\* What a Send on an established connection does, as the lemmas want it.
LEMMA AcceptedBytes ==
  ASSUME IInv, Send, state = "CONNECTED"
  PROVE  \E bytes \in Seq(Bytes) :
           /\ tx.len + Len(bytes) <= TxCap
           /\ tx' = Put(tx, TxCap, bytes)
           /\ out' = [op |-> "send", status |-> "OK", answer |-> "OK",
                      data |-> bytes, sent |-> <<>>, got |-> <<>>]
           /\ UNCHANGED <<state, rx, now, deadline, timeoutSet, lag, waited>>
<1>1. PICK data \in ByteSeqs(MaxSend) :
        LET accepted == SubSeq(data, 1, Least(Len(data), TxCap - tx.len)) IN
        /\ tx' = Put(tx, TxCap, accepted)
        /\ out' = [op |-> "send", status |-> "OK", answer |-> "OK",
                   data |-> accepted, sent |-> <<>>, got |-> <<>>]
        /\ UNCHANGED <<state, rx, now, deadline, timeoutSet, lag, waited>>
  BY DEF Send
<1> DEFINE n == Least(Len(data), TxCap - tx.len)
           bytes == SubSeq(data, 1, n)
<1>2. data \in Seq(Bytes) /\ Len(data) \in Nat
  BY TransportAssumption DEF ByteSeqs
<1>3. n \in 0 .. Len(data) /\ tx.len + n <= TxCap /\ n \in Int
  BY <1>2, GoodRings DEF Least
<1>4. bytes \in Seq(Bytes) /\ Len(bytes) = n
  <2> HIDE DEF n
  <2>1. \A i \in 1 .. n : data[i] \in Bytes
    BY <1>2, <1>3
  <2>2. bytes \in Seq(Bytes) /\ Len(bytes) = IF 1 <= n THEN n - 1 + 1 ELSE 0
    BY <1>3, <2>1, SubSeqProperties
  <2> QED
    BY <1>3, <2>2
<1> HIDE DEF n
<1> QED
  BY <1>1, <1>3, <1>4 DEF n

\* Accepted bytes fit the transmit ring (network_transport.c:285-309).
LEMMA SendIInv == IInv /\ Send => IInv'
<1> SUFFICES ASSUME IInv, Send PROVE IInv'
  OBVIOUS
<1>1. CASE state # "CONNECTED"
  <2>1. Answered("send", "NOT_CONNECTED", "OK") /\ UNCHANGED <<state, tx, rx, now, deadline, timeoutSet, lag, waited>>
    BY <1>1 DEF Send, Returns
  <2>2. out' \in Outcomes
    BY <2>1, SilentOutcome DEF Statuses
  <2> QED
    BY <2>1, <2>2, ReportIInv
<1>2. CASE state = "CONNECTED"
  <2>1. PICK bytes \in Seq(Bytes) :
          /\ tx.len + Len(bytes) <= TxCap
          /\ tx' = Put(tx, TxCap, bytes)
          /\ out' = [op |-> "send", status |-> "OK", answer |-> "OK",
                     data |-> bytes, sent |-> <<>>, got |-> <<>>]
          /\ UNCHANGED <<state, rx, now, deadline, timeoutSet, lag, waited>>
    BY <1>2, AcceptedBytes
  <2>2. out' \in Outcomes
    <3>1. <<>> \in Seq(Bytes)
      OBVIOUS
    <3> QED
      BY <2>1, <3>1 DEF Outcomes, Statuses
  <2>3. tx' \in Rings(TxCap) /\ RingConsistent(tx', TxCap)
    BY <2>1, GoodRings, PutAppends
  <2>4. rx' \in Rings(RxCap) /\ RingConsistent(rx', RxCap)
    BY <2>1, GoodRings
  <2> QED
    BY <1>2, <2>1, <2>2, <2>3, <2>4, RingStepIInv
<1> QED
  BY <1>1, <1>2

\* What a Receive on a readable connection does, as the lemmas want it.
LEMMA DeliveredBytes ==
  ASSUME IInv, Receive, state \in {"CONNECTED", "CLOSING"}
  PROVE  \E n \in 0 .. rx.len :
           /\ MinRoom > 0 /\ n = 0 => rx.len = 0
           /\ rx' = Take(rx, RxCap, n)
           /\ out' = [op |-> "receive", status |-> ReceiveStatus(n), answer |-> "OK",
                      data |-> Oldest(rx, RxCap, n), sent |-> <<>>, got |-> <<>>]
           /\ UNCHANGED <<state, tx, now, deadline, timeoutSet, lag, waited>>
<1>1. PICK room \in MinRoom .. MaxSend :
        LET n == Least(rx.len, room) IN
        /\ rx' = Take(rx, RxCap, n)
        /\ out' = [op |-> "receive", status |-> ReceiveStatus(n), answer |-> "OK",
                   data |-> Oldest(rx, RxCap, n), sent |-> <<>>, got |-> <<>>]
        /\ UNCHANGED <<state, tx, now, deadline, timeoutSet, lag, waited>>
  BY DEF Receive
<1> DEFINE n == Least(rx.len, room)
<1>2. n \in 0 .. rx.len /\ (MinRoom > 0 /\ n = 0 => rx.len = 0)
  BY GoodRings, TransportAssumption DEF Least
<1> HIDE DEF n
<1> QED
  BY <1>1, <1>2 DEF n

\* Bytes read leave the receive ring consistent (network_transport.c:311-346).
LEMMA ReceiveIInv == IInv /\ Receive => IInv'
<1> SUFFICES ASSUME IInv, Receive PROVE IInv'
  OBVIOUS
<1>1. CASE state \notin {"CONNECTED", "CLOSING"}
  <2>1. Answered("receive", "NOT_CONNECTED", "OK") /\ UNCHANGED <<state, tx, rx, now, deadline, timeoutSet, lag, waited>>
    BY <1>1 DEF Receive, Returns
  <2>2. out' \in Outcomes
    BY <2>1, SilentOutcome DEF Statuses
  <2> QED
    BY <2>1, <2>2, ReportIInv
<1>2. CASE state \in {"CONNECTED", "CLOSING"}
  <2>1. PICK n \in 0 .. rx.len :
          /\ MinRoom > 0 /\ n = 0 => rx.len = 0
          /\ rx' = Take(rx, RxCap, n)
          /\ out' = [op |-> "receive", status |-> ReceiveStatus(n), answer |-> "OK",
                     data |-> Oldest(rx, RxCap, n), sent |-> <<>>, got |-> <<>>]
          /\ UNCHANGED <<state, tx, now, deadline, timeoutSet, lag, waited>>
    BY <1>2, DeliveredBytes
  <2>2. out' \in Outcomes
    <3>1. <<>> \in Seq(Bytes) /\ Oldest(rx, RxCap, n) \in Seq(Bytes)
      BY GoodRings, OldestSeq
    <3>2. ReceiveStatus(n) \in Statuses
      BY DEF ReceiveStatus, Statuses, Terminal
    <3> QED
      BY <2>1, <3>1, <3>2 DEF Outcomes, Statuses
  <2>3. tx' \in Rings(TxCap) /\ RingConsistent(tx', TxCap)
    BY <2>1, GoodRings
  <2>4. rx' \in Rings(RxCap) /\ RingConsistent(rx', RxCap)
    BY <2>1, GoodRings, TakeSplits
  <2>5. TypeOK' /\ RingsConsistent'
    BY <2>1, <2>2, <2>3, <2>4 DEF IInv, TypeOK, RingsConsistent
  <2>6. NothingLeftOver' /\ DeadlineKept'
    BY <1>2, <2>1 DEF IInv, NothingLeftOver, DeadlineKept
  <2> QED
    BY <2>5, <2>6 DEF IInv
<1> QED
  BY <1>1, <1>2

\* Every step preserves the invariant.
LEMMA NextIInv == IInv /\ [Next]_vars => IInv'
<1> SUFFICES ASSUME IInv, [Next]_vars PROVE IInv'
  OBVIOUS
<1>1. CASE Connect
  BY <1>1, ConnectIInv
<1>2. CASE Disconnect
  BY <1>2, DisconnectIInv
<1>3. CASE Run
  BY <1>3, RunConnectIInv, RunSendFailsIInv, RunReceivesNothingIInv, RunReceivesIInv,
     RunRemoteClosesIInv, RunReceiveFailsIInv, RunIdleIInv DEF Run
<1>4. CASE Send
  BY <1>4, SendIInv
<1>5. CASE Receive
  BY <1>5, ReceiveIInv
<1>6. CASE Tick
  BY <1>6, TickIInv
<1>7. CASE UNCHANGED vars
  BY <1>7 DEF vars, IInv, TypeOK, RingsConsistent, NothingLeftOver, DeadlineKept
<1> QED
  BY <1>1, <1>2, <1>3, <1>4, <1>5, <1>6, <1>7 DEF Next

\* The rings stay consistent, nothing is left over for the next connection, and
\* the deadline stays where Connect put it, for rings and clocks of any size.
THEOREM Invariance == Spec => []IInv
<1>1. Init => IInv
  BY InitIInv
<1>2. IInv /\ [Next]_vars => IInv'
  BY NextIInv
<1> QED
  BY <1>1, <1>2, PTL DEF Spec

\* However the clock wraps, opening a connection ends within the timeout and
\* the longest gap between two calls of NetworkTransport_Run.
THEOREM OpeningIsBounded == Spec => []ConnectBounded
<1>1. IInv => ConnectBounded
  BY TransportAssumption DEF IInv, TypeOK, DeadlineKept, ConnectBounded
<1> QED
  BY <1>1, Invariance, PTL

\* While the adapter is busy connecting, a timeout is never reported before
\* ConnectTimeout ticks have passed since Connect.
THEOREM TimeoutIsNotEarly == Spec => []TimeoutNotEarly
<1>1. Init => TimeoutNotEarly
  BY DEF Init, TimeoutNotEarly
<1>2. IInv /\ TimeoutNotEarly /\ [Next]_vars => TimeoutNotEarly'
  <2> SUFFICES ASSUME IInv, TimeoutNotEarly, [Next]_vars,
                      out'.status = "TIMEOUT", out'.answer = "IN_PROGRESS"
               PROVE  waited' >= ConnectTimeout
    BY DEF TimeoutNotEarly
  <2>1. CASE Connect
    BY <2>1 DEF Connect, Returns, Answered
  <2>2. CASE Disconnect
    BY <2>2 DEF Disconnect, Returns, Answered
  <2>3. CASE RunConnect
    <3>1. DeadlineElapsed(now, deadline) /\ UNCHANGED waited
      BY <2>3 DEF RunConnect, Returns, Answered, Terminal
    <3>2. waited < ConnectTimeout + MaxLag
      BY <2>3, TransportAssumption DEF IInv, TypeOK, DeadlineKept, RunConnect
    <3> QED
      BY <2>3, <3>1, <3>2, DeadlineTest DEF IInv, TypeOK, DeadlineKept, RunConnect
  <2>4. CASE RunSendFails \/ RunReceivesNothing \/ RunReceives \/ RunRemoteCloses \/ RunReceiveFails
    <3>1. out'.status \in {"OK", "REMOTE_CLOSED", "TRANSPORT_ERROR"}
      BY <2>4 DEF RunSendFails, RunReceivesNothing, RunReceives, RunRemoteCloses, RunReceiveFails,
                  Exchanged, Terminal
    <3> QED
      BY <3>1
  <2>5. CASE RunIdle
    BY <2>5 DEF RunIdle, Returns, Answered
  <2>6. CASE Send
    BY <2>6 DEF Send, Returns, Answered
  <2>7. CASE Receive
    BY <2>7 DEF Receive, Returns, Answered, ReceiveStatus
  <2>8. CASE Tick
    BY <2>8, TransportAssumption DEF Tick, TimeoutNotEarly, IInv, TypeOK
  <2>9. CASE UNCHANGED vars
    BY <2>9 DEF vars, TimeoutNotEarly
  <2> QED
    BY <2>1, <2>2, <2>3, <2>4, <2>5, <2>6, <2>7, <2>8, <2>9 DEF Next, Run
<1> QED
  BY <1>1, <1>2, Invariance, PTL DEF Spec

-----------------------------------------------------------------------------
(* The transport implements the byte stream.                               *)

\* The queues of an empty ring are empty.
LEMMA EmptyContents ==
  ASSUME NEW cap \in Nat \ {0}, NEW ring \in Rings(cap), ring.len = 0
  PROVE  Contents(ring, cap) = <<>>
<1>1. Contents(ring, cap) \in Seq(Bytes) /\ Len(Contents(ring, cap)) = 0
  BY ContentsSeq
<1> QED
  BY <1>1, EmptySeq

\* An initial state of the transport is one of the stream.
LEMMA InitMaps == Init => Stream!Init
<1> SUFFICES ASSUME Init PROVE Stream!Init
  OBVIOUS
<1>1. IInv
  BY InitIInv
<1>2. tx.len = 0 /\ rx.len = 0
  BY <1>1 DEF IInv, NothingLeftOver, Init
<1>3. Contents(tx, TxCap) = <<>> /\ Contents(rx, RxCap) = <<>>
  BY <1>1, <1>2, GoodRings, EmptyContents
<1> QED
  BY <1>3 DEF Init, Stream!Init, Phase

\* Where the rings are empty before and after a step, so are the queues.
LEMMA EmptyQueues ==
  ASSUME IInv
  PROVE  state \in {"DISCONNECTED", "CONNECTING", "ERROR"} =>
           Contents(tx, TxCap) = <<>> /\ Contents(rx, RxCap) = <<>>
  BY GoodRings, EmptyContents DEF IInv, NothingLeftOver

\* A ring of length 0 holds no bytes, before and after a step: the queues the abstract
\* stream requires to be empty while no connection is open.
LEMMA EmptyQueuesNext ==
  ASSUME IInv'
  PROVE  state' \in {"DISCONNECTED", "CONNECTING", "ERROR"} =>
           Contents(tx', TxCap) = <<>> /\ Contents(rx', RxCap) = <<>>
<1>1. /\ tx' \in Rings(TxCap) /\ rx' \in Rings(RxCap)
      /\ state' \in {"DISCONNECTED", "CONNECTING", "ERROR"} => tx'.len = 0 /\ rx'.len = 0
  BY DEF IInv, TypeOK, NothingLeftOver
<1>2. TxCap \in Nat \ {0} /\ RxCap \in Nat \ {0}
  BY TransportAssumption
<1> QED
  BY <1>1, <1>2, EmptyContents

\* A call without bytes that leaves state and rings alone only reports.
LEMMA ReportMaps ==
  ASSUME NEW op \in {"connect", "run", "send", "receive"}, NEW status \in Statuses, NEW answer \in Statuses,
         Answered(op, status, answer),
         op = "receive" => status = "NOT_CONNECTED" /\ state \notin {"CONNECTED", "CLOSING"},
         UNCHANGED <<state, tx, rx>>
  PROVE  Stream!Next
<1>1. /\ out'.op = op /\ out'.status = status
      /\ out'.data = <<>> /\ out'.sent = <<>> /\ out'.got = <<>>
  BY SilentOutcome
<1>2. Stream!Report
  BY <1>1 DEF Stream!Report, Stream!Silent, Phase
<1> QED
  BY <1>2 DEF Stream!Next

\* Connect opens the abstract stream, or fails to, or is refused without effect.
LEMMA ConnectMaps == IInv /\ IInv' /\ Connect => Stream!Next
<1> SUFFICES ASSUME IInv, IInv', Connect PROVE Stream!Next
  OBVIOUS
<1>1. CASE state # "DISCONNECTED"
  <2>1. Answered("connect", "ALREADY", "OK") /\ UNCHANGED <<state, tx, rx>>
    BY <1>1 DEF Connect, Returns
  <2> QED
    BY <2>1, ReportMaps DEF Statuses
<1>2. CASE state = "DISCONNECTED"
  <2>1. /\ state' \in {"CONNECTING", "ERROR"}
        /\ \E s \in Statuses, a \in Statuses : Answered("connect", s, a)
    BY <1>2 DEF Connect, Returns, Statuses, Terminal
  <2>2. out'.data = <<>> /\ out'.sent = <<>> /\ out'.got = <<>>
    BY <2>1, SilentOutcome
  <2>3. Contents(tx', TxCap) = <<>> /\ Contents(rx', RxCap) = <<>>
    BY <2>1, EmptyQueuesNext
  <2>4. Stream!Open
    BY <1>2, <2>1, <2>2, <2>3 DEF Stream!Open, Stream!Silent, Stream!Emptied, Phase
  <2> QED
    BY <2>4 DEF Stream!Next
<1> QED
  BY <1>1, <1>2

\* Disconnect takes the abstract stream down.
LEMMA DisconnectMaps == IInv' /\ Disconnect => Stream!Next
<1> SUFFICES ASSUME IInv', Disconnect PROVE Stream!Next
  OBVIOUS
<1>1. out'.data = <<>> /\ out'.sent = <<>> /\ out'.got = <<>>
  BY SilentOutcome DEF Disconnect, Returns, Statuses
<1>2. state' = "DISCONNECTED"
  BY DEF Disconnect
<1>3. Contents(tx', TxCap) = <<>> /\ Contents(rx', RxCap) = <<>>
  BY <1>2, EmptyQueuesNext
<1>4. Stream!Close
  BY <1>1, <1>2, <1>3 DEF Stream!Close, Stream!Silent, Stream!Emptied, Phase
<1> QED
  BY <1>4 DEF Stream!Next

\* A poll of the opening connection opens the stream, fails it, or changes nothing.
LEMMA RunConnectMaps == IInv /\ IInv' /\ RunConnect => Stream!Next
<1> SUFFICES ASSUME IInv, IInv', RunConnect PROVE Stream!Next
  OBVIOUS
<1>1. /\ state = "CONNECTING" /\ state' \in {"CONNECTING", "CONNECTED", "ERROR"}
      /\ \E s \in Statuses, a \in Statuses : Answered("run", s, a)
      /\ UNCHANGED <<tx, rx>>
  BY DEF RunConnect, Returns, Statuses, Terminal
<1>2. out'.op = "run" /\ out'.data = <<>> /\ out'.sent = <<>> /\ out'.got = <<>>
  BY <1>1, SilentOutcome
<1>3. Contents(tx, TxCap) = <<>> /\ Contents(rx, RxCap) = <<>>
  BY <1>1, EmptyQueues
<1>4. CASE state' = "CONNECTED"
  <2>1. Stream!Established
    BY <1>1, <1>2, <1>3, <1>4 DEF Stream!Established, Stream!Silent, Stream!Emptied, Phase
  <2> QED
    BY <2>1 DEF Stream!Next
<1>5. CASE state' = "CONNECTING"
  BY <1>1, <1>5, ReportMaps
<1>6. CASE state' = "ERROR"
  <2>1. \E n \in 0 .. Len(<<>>) : <<>> = SubSeq(<<>>, 1, n)
    <3>1. SubSeq(<<>>, 1, 0) = <<>> /\ 0 \in 0 .. Len(<<>>)
      BY SubSeqEmpty, EmptySeq
    <3> QED
      BY <3>1
  <2>2. Stream!Fail
    BY <1>1, <1>2, <1>3, <1>6, <2>1 DEF Stream!Fail, Stream!Emptied, Phase
  <2> QED
    BY <2>2 DEF Stream!Next
<1> QED
  BY <1>1, <1>4, <1>5, <1>6

\* A failed Run sends some of the oldest bytes and empties both queues.
LEMMA FailMaps ==
  ASSUME IInv, IInv', NEW n \in 0 .. tx.len, NEW s \in Terminal,
         state = "CONNECTED", state' = "ERROR", Exchanged(s, s, n, <<>>)
  PROVE  Stream!Next
<1>1. out'.op = "run" /\ out'.data = <<>> /\ out'.sent = Oldest(tx, TxCap, n) /\ out'.got = <<>>
  <2>1. <<>> \in Seq(Bytes) /\ s \in Statuses
    BY DEF Statuses
  <2> QED
    BY <2>1, ExchangeOutcome
<1>2. Contents(tx', TxCap) = <<>> /\ Contents(rx', RxCap) = <<>>
  BY EmptyQueuesNext
<1>3. \E k \in 0 .. Len(Contents(tx, TxCap)) : out'.sent = SubSeq(Contents(tx, TxCap), 1, k)
  <2>1. Len(Contents(tx, TxCap)) = tx.len
    BY GoodRings, ContentsSeq
  <2> QED
    BY <1>1, <2>1 DEF Oldest
<1>4. Stream!Fail
  BY <1>1, <1>2, <1>3 DEF Stream!Fail, Stream!Emptied, Phase
<1> QED
  BY <1>4 DEF Stream!Next

\* A failure during a Run fails the stream: what was sent before it is a prefix of the queue.
LEMMA RunFailsMaps == IInv /\ IInv' /\ (RunSendFails \/ RunReceiveFails) => Stream!Next
<1> SUFFICES ASSUME IInv, IInv', RunSendFails \/ RunReceiveFails PROVE Stream!Next
  OBVIOUS
<1>1. state = "CONNECTED" /\ state' = "ERROR"
  BY DEF RunSendFails, RunReceiveFails, EnterError
<1>2. CASE RunSendFails
  <2>1. PICK n \in 0 .. tx.len - 1, s \in Terminal : Exchanged(s, s, n, <<>>)
    BY <1>2 DEF RunSendFails
  <2>2. n \in 0 .. tx.len
    BY GoodRings
  <2> QED
    BY <1>1, <2>1, <2>2, FailMaps
<1>3. CASE RunReceiveFails
  <2>1. PICK n \in 0 .. tx.len : Exchanged("TRANSPORT_ERROR", "TRANSPORT_ERROR", n, <<>>)
    BY <1>3 DEF RunReceiveFails
  <2> QED
    BY <1>1, <2>1, FailMaps DEF Terminal
<1> QED
  BY <1>2, <1>3

\* A Run that goes well sends the oldest bytes and appends those it fetched.
LEMMA ExchangeMaps ==
  ASSUME IInv, NEW n \in 0 .. tx.len, NEW got \in Seq(Bytes),
         NEW status \in Statuses, NEW answer \in Statuses,
         Exchanged(status, answer, n, got),
         tx' = TakeZeroed(tx, TxCap, n),
         Contents(rx', RxCap) = Contents(rx, RxCap) \o got,
         state = "CONNECTED",
         state' = "CONNECTED" \/ (state' = "CLOSING" /\ got = <<>>)
  PROVE  Stream!Next
<1>1. out'.op = "run" /\ out'.data = <<>> /\ out'.sent = Oldest(tx, TxCap, n) /\ out'.got = got
  BY ExchangeOutcome
<1>2. Contents(tx, TxCap) = Oldest(tx, TxCap, n) \o Contents(tx', TxCap)
  BY GoodRings, TakeZeroedSplits
<1>3. Stream!Exchange
  BY <1>1, <1>2 DEF Stream!Exchange, Phase
<1> QED
  BY <1>3 DEF Stream!Next

\* Nothing fetched is nothing appended.
LEMMA NothingFetched ==
  ASSUME IInv
  PROVE  Contents(rx, RxCap) = Contents(rx, RxCap) \o <<>>
<1>1. Contents(rx, RxCap) \in Seq(Bytes)
  BY GoodRings, ContentsSeq
<1> QED
  BY <1>1, ConcatEmptySeq

\* A Run that fetches nothing only moves the oldest outgoing bytes on, or ends the stream.
LEMMA RunWithoutBytesMaps == IInv /\ (RunReceivesNothing \/ RunRemoteCloses) => Stream!Next
<1> SUFFICES ASSUME IInv, RunReceivesNothing \/ RunRemoteCloses PROVE Stream!Next
  OBVIOUS
<1>1. PICK n \in 0 .. tx.len, s \in Statuses, a \in Statuses :
        Exchanged(s, a, n, <<>>) /\ tx' = TakeZeroed(tx, TxCap, n)
  BY DEF RunReceivesNothing, RunRemoteCloses, Statuses, Terminal
<1>2. state = "CONNECTED" /\ state' \in {"CONNECTED", "CLOSING"} /\ rx' = rx
  BY DEF RunReceivesNothing, RunRemoteCloses
<1>3. Contents(rx', RxCap) = Contents(rx, RxCap) \o <<>>
  BY <1>2, NothingFetched
<1>4. <<>> \in Seq(Bytes)
  OBVIOUS
<1> QED
  BY <1>1, <1>2, <1>3, <1>4, ExchangeMaps

\* A Run that fetches bytes appends them to the incoming queue.
LEMMA RunReceivesMaps == IInv /\ RunReceives => Stream!Next
<1> SUFFICES ASSUME IInv, RunReceives PROVE Stream!Next
  OBVIOUS
<1>1. PICK n \in 0 .. tx.len, got \in Seq(Bytes) :
        /\ Exchanged("OK", "OK", n, got)
        /\ tx' = TakeZeroed(tx, TxCap, n)
        /\ rx' = Put(rx, RxCap, got)
        /\ rx.len + Len(got) <= RxCap
  BY FetchedBytes
<1>2. Contents(rx', RxCap) = Contents(rx, RxCap) \o got
  BY <1>1, GoodRings, PutAppends
<1>3. state = "CONNECTED" /\ state' = "CONNECTED" /\ "OK" \in Statuses
  BY DEF RunReceives, Statuses
<1> QED
  BY <1>1, <1>2, <1>3, ExchangeMaps

\* A Run with nothing to advance is no step of the stream.
LEMMA RunIdleMaps == RunIdle => Stream!Next
<1> SUFFICES ASSUME RunIdle PROVE Stream!Next
  OBVIOUS
<1>1. (\E s \in Statuses : Answered("run", s, "OK")) /\ UNCHANGED <<state, tx, rx>>
  BY DEF RunIdle, Returns, Statuses, Terminal
<1> QED
  BY <1>1, ReportMaps DEF Statuses

\* Send appends the bytes it accepted to the outgoing queue.
LEMMA SendMaps == IInv /\ Send => Stream!Next
<1> SUFFICES ASSUME IInv, Send PROVE Stream!Next
  OBVIOUS
<1>1. CASE state # "CONNECTED"
  <2>1. Answered("send", "NOT_CONNECTED", "OK") /\ UNCHANGED <<state, tx, rx>>
    BY <1>1 DEF Send, Returns
  <2> QED
    BY <2>1, ReportMaps DEF Statuses
<1>2. CASE state = "CONNECTED"
  <2>1. PICK bytes \in Seq(Bytes) :
          /\ tx.len + Len(bytes) <= TxCap
          /\ tx' = Put(tx, TxCap, bytes)
          /\ out' = [op |-> "send", status |-> "OK", answer |-> "OK",
                     data |-> bytes, sent |-> <<>>, got |-> <<>>]
          /\ UNCHANGED <<state, rx, now, deadline, timeoutSet, lag, waited>>
    BY <1>2, AcceptedBytes
  <2>2. Contents(tx', TxCap) = Contents(tx, TxCap) \o bytes
    BY <2>1, GoodRings, PutAppends
  <2>3. Stream!Accept
    BY <1>2, <2>1, <2>2 DEF Stream!Accept, Phase
  <2> QED
    BY <2>3 DEF Stream!Next
<1> QED
  BY <1>1, <1>2

\* Receive hands out the oldest incoming bytes, and the end only after the last of them.
LEMMA ReceiveMaps ==
  ASSUME MinRoom > 0, IInv, Receive
  PROVE  Stream!Next
<1>1. CASE state \notin {"CONNECTED", "CLOSING"}
  <2>1. Answered("receive", "NOT_CONNECTED", "OK") /\ UNCHANGED <<state, tx, rx>>
    BY <1>1 DEF Receive, Returns
  <2> QED
    BY <1>1, <2>1, ReportMaps DEF Statuses
<1>2. CASE state \in {"CONNECTED", "CLOSING"}
  <2>1. PICK n \in 0 .. rx.len :
          /\ MinRoom > 0 /\ n = 0 => rx.len = 0
          /\ rx' = Take(rx, RxCap, n)
          /\ out' = [op |-> "receive", status |-> ReceiveStatus(n), answer |-> "OK",
                     data |-> Oldest(rx, RxCap, n), sent |-> <<>>, got |-> <<>>]
          /\ UNCHANGED <<state, tx, now, deadline, timeoutSet, lag, waited>>
    BY <1>2, DeliveredBytes
  <2>2. Contents(rx, RxCap) = Oldest(rx, RxCap, n) \o Contents(rx', RxCap)
    BY <2>1, GoodRings, TakeSplits
  <2>3. out'.op = "receive" /\ (out'.status # "OK" =>
          /\ Contents(rx, RxCap) = <<>>
          /\ out'.status = (IF state = "CLOSING" THEN "REMOTE_CLOSED" ELSE "WOULD_BLOCK"))
    <3>1. rx.len = 0 => Contents(rx, RxCap) = <<>>
      BY GoodRings, EmptyContents
    <3>2. ReceiveStatus(n) # "OK" =>
            n = 0 /\ ReceiveStatus(n) = (IF state = "CLOSING" THEN "REMOTE_CLOSED" ELSE "WOULD_BLOCK")
      BY GoodRings DEF ReceiveStatus
    <3> QED
      BY <2>1, <3>1, <3>2
  <2>4. Stream!Deliver
    <3>1. /\ out'.data = Oldest(rx, RxCap, n) /\ out'.sent = <<>> /\ out'.got = <<>>
          /\ state' = state /\ tx' = tx
      BY <2>1
    <3> QED
      BY <1>2, <2>2, <2>3, <3>1 DEF Stream!Deliver, Phase
  <2> QED
    BY <2>4 DEF Stream!Next
<1> QED
  BY <1>1, <1>2

\* Every step of the transport is a step of the stream, or none.
LEMMA StepMaps ==
  ASSUME MinRoom > 0, IInv, IInv', [Next]_vars
  PROVE  [Stream!Next]_(Stream!vars)
<1>1. CASE Connect
  BY <1>1, ConnectMaps
<1>2. CASE Disconnect
  BY <1>2, DisconnectMaps
<1>3. CASE Run
  BY <1>3, RunConnectMaps, RunFailsMaps, RunWithoutBytesMaps, RunReceivesMaps, RunIdleMaps DEF Run
<1>4. CASE Send
  BY <1>4, SendMaps
<1>5. CASE Receive
  BY <1>5, ReceiveMaps
<1>6. CASE Tick
  BY <1>6 DEF Tick, Stream!vars, Phase
<1>7. CASE UNCHANGED vars
  BY <1>7 DEF vars, Stream!vars, Phase
<1> QED
  BY <1>1, <1>2, <1>3, <1>4, <1>5, <1>6, <1>7 DEF Next

\* Whatever the adapter answers and however the calls interleave, the transport
\* is a byte stream per connection, for rings of any size and bytes of any kind,
\* as long as no reader asks for 0 bytes.
THEOREM TransportIsAByteStream == ASSUME MinRoom > 0 PROVE Spec => ImplementsByteStream
<1>1. Init => Stream!Init
  BY InitMaps
<1>2. IInv /\ IInv' /\ [Next]_vars => [Stream!Next]_(Stream!vars)
  BY StepMaps
<1> QED
  BY <1>1, <1>2, Invariance, PTL DEF Spec, ImplementsByteStream, Stream!Spec

=============================================================================
