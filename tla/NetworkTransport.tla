-------------------------- MODULE NetworkTransport --------------------------
(***************************************************************************)
(* The byte-stream transport of Network/Src/network_transport.c: a         *)
(* connection state machine, a ring of bytes per direction and a           *)
(* wrap-safe connect deadline, over an adapter that may answer anything    *)
(* its contract (network_transport.h:77-97) allows.                        *)
(*                                                                         *)
(* Every call is one action.  The adapter's answers are chosen inside the  *)
(* call.  The clock is a 32-bit counter scaled down to 2 * ClockHalf       *)
(* ticks; it is observed only while a connection is being opened, so it    *)
(* moves only then and starts anywhere.                                    *)
(***************************************************************************)
EXTENDS Integers, Sequences

CONSTANTS
  TxCap, RxCap,     \* NETWORK_TX_BUF_CAP and NETWORK_RX_BUF_CAP, 256 in the firmware
  MaxFetch,         \* NETWORK_MAX_RX_FETCH, 64 in the firmware
  Bytes,            \* the values of a byte; 0 is one of them
  MaxSend,          \* the longest buffer a caller sends or reads into
  MinRoom,          \* the smallest one it reads into: 1 for Ingest, the only caller
  ClockHalf,        \* half the range of the millisecond counter, 2^31
  ConnectTimeout,   \* 10000 ms in the firmware
  MaxLag            \* most ticks between two calls of NetworkTransport_Run

ASSUME TransportAssumption ==
  /\ TxCap \in Nat \ {0} /\ RxCap \in Nat \ {0} /\ MaxFetch \in Nat \ {0}
  /\ 0 \in Bytes
  /\ MaxSend \in Nat /\ MinRoom \in Nat
  /\ ClockHalf \in Nat /\ ConnectTimeout \in Nat \ {0} /\ MaxLag \in Nat \ {0}
  \* The deadline is seen before it is half the clock's range away.
  /\ ConnectTimeout < ClockHalf /\ MaxLag <= ClockHalf

ClockMod == 2 * ClockHalf
Clock == 0 .. ClockMod - 1

VARIABLES
  state,       \* NetworkState
  tx, rx,      \* the two rings: buf, head, tail, len
  now,         \* Platform_GetTickMs()
  deadline,    \* connect_deadline_ms
  timeoutSet,  \* connect_timeout_set
  lag,         \* ticks since the last Run, for the bound MaxLag
  waited,      \* ticks since Connect (history: no code reads it)
  out          \* what the last call returned and exchanged with the adapter

vars == <<state, tx, rx, now, deadline, timeoutSet, lag, waited, out>>

States == {"DISCONNECTED", "CONNECTING", "CONNECTED", "CLOSING", "ERROR"}
\* What an adapter may answer for a connection it gives up.
Terminal == {"TRANSPORT_ERROR", "REMOTE_CLOSED"}
Statuses == Terminal \cup {"OK", "WOULD_BLOCK", "IN_PROGRESS", "NOT_CONNECTED", "ALREADY", "TIMEOUT"}

ByteSeqs(n) == UNION {[1 .. k -> Bytes] : k \in 0 .. n}
Rings(cap) ==
  [buf : [0 .. cap - 1 -> Bytes], head : 0 .. cap - 1, tail : 0 .. cap - 1, len : 0 .. cap]
\* A call's result; data are the bytes taken from or given to the caller, sent
\* and got the bytes handed to the adapter and fetched from it.
Outcomes ==
  [op : {"none", "connect", "disconnect", "run", "send", "receive"},
   status : Statuses, answer : Statuses,
   data : Seq(Bytes), sent : Seq(Bytes), got : Seq(Bytes)]

TypeOK ==
  /\ state \in States
  /\ tx \in Rings(TxCap)
  /\ rx \in Rings(RxCap)
  /\ now \in Clock /\ deadline \in Clock
  /\ timeoutSet \in BOOLEAN
  /\ lag \in 0 .. MaxLag
  /\ waited \in Nat
  /\ out \in Outcomes

-----------------------------------------------------------------------------
(* Rings.                                                                  *)

\* (i + 1) % cap, taken at most cap times from an index.
Wrap(i, cap) == IF i >= cap THEN i - cap ELSE i

\* Mutant: the indices are reset, the length is not.
ResetIndices(ring) == [ring EXCEPT !.head = 0, !.tail = 0]
\* head = tail = len = 0; the buffer keeps its bytes.
Reset(ring) == [buf |-> ring.buf, head |-> 0, tail |-> 0, len |-> 0]

\* The bytes waiting in a ring, oldest first.
Contents(ring, cap) == [i \in 1 .. ring.len |-> ring.buf[Wrap(ring.tail + i - 1, cap)]]

\* Mutant: the head stops at the end of the buffer instead of wrapping.
PutFlat(ring, cap, bytes) ==
  LET n == Len(bytes) IN
  [buf |-> [i \in 0 .. cap - 1 |->
              IF ring.head <= i /\ i < ring.head + n THEN bytes[i - ring.head + 1] ELSE ring.buf[i]],
   head |-> Wrap(ring.head + n, cap), tail |-> ring.tail, len |-> ring.len + n]
\* Bytes are copied in at the head, byte by byte, wrapping.
Put(ring, cap, bytes) ==
  LET n == Len(bytes)
      At(i) == IF i >= ring.head THEN i - ring.head ELSE i - ring.head + cap
  IN [buf |-> [i \in 0 .. cap - 1 |-> IF At(i) < n THEN bytes[At(i) + 1] ELSE ring.buf[i]],
      head |-> Wrap(ring.head + n, cap), tail |-> ring.tail, len |-> ring.len + n]

\* The oldest n bytes leave.
Take(ring, cap, n) ==
  [buf |-> ring.buf, head |-> ring.head, tail |-> Wrap(ring.tail + n, cap), len |-> ring.len - n]

\* The transmit ring also overwrites the bytes that left with 0.
Zeroed(ring, cap, n) ==
  [i \in 0 .. cap - 1 |->
     IF (IF i >= ring.tail THEN i - ring.tail ELSE i - ring.tail + cap) < n THEN 0 ELSE ring.buf[i]]
TakeZeroed(ring, cap, n) ==
  [buf |-> Zeroed(ring, cap, n), head |-> ring.head,
   tail |-> Wrap(ring.tail + n, cap), len |-> ring.len - n]

Oldest(ring, cap, n) == SubSeq(Contents(ring, cap), 1, n)

Least(a, b) == IF a <= b THEN a ELSE b

-----------------------------------------------------------------------------
(* The clock.                                                              *)

\* n ticks after t.
Later(t, n) == IF t + n >= ClockMod THEN t + n - ClockMod ELSE t + n
Ticks(from, to) == IF to >= from THEN to - from ELSE to - from + ClockMod

\* Mutant: the naive comparison, wrong across the wrap.
DeadlineReached(t, d) == t >= d
\* Mutant: the difference is taken the wrong way round.
DeadlineAhead(t, d) == Ticks(t, d) < ClockHalf
\* DeadlineElapsed(now, deadline, 0): the unsigned difference is below 2^31.
DeadlineElapsed(t, d) == Ticks(d, t) < ClockHalf

\* Time passes while a connection is being opened.
Tick ==
  /\ state = "CONNECTING"
  /\ lag < MaxLag
  /\ now' = Later(now, 1)
  /\ lag' = lag + 1
  /\ waited' = waited + 1
  /\ UNCHANGED <<state, tx, rx, deadline, timeoutSet, out>>

timeVars == <<now, lag, waited>>

-----------------------------------------------------------------------------
(* The calls.                                                              *)

Answered(op, status, answer) ==
  out' = [op |-> op, status |-> status, answer |-> answer,
          data |-> <<>>, sent |-> <<>>, got |-> <<>>]
Returns(op, status) == Answered(op, status, "OK")

\* NetworkTransport_Connect: the adapter accepts the open or refuses it.
Connect ==
  /\ IF state # "DISCONNECTED"
     THEN Returns("connect", "ALREADY") /\ UNCHANGED <<state, deadline, timeoutSet, lag, waited>>
     ELSE \/ /\ state' = "CONNECTING"
             /\ deadline' = Later(now, ConnectTimeout)
             /\ timeoutSet' = TRUE
             /\ lag' = 0 /\ waited' = 0
             /\ Returns("connect", "IN_PROGRESS")
          \/ /\ state' = "ERROR"
             /\ Answered("connect", "TRANSPORT_ERROR", "TRANSPORT_ERROR")
             /\ UNCHANGED <<deadline, timeoutSet, lag, waited>>
  /\ UNCHANGED <<tx, rx, now>>

\* NetworkTransport_Disconnect, from any state.
Disconnect ==
  /\ state' = "DISCONNECTED"
  /\ tx' = Reset(tx)
  /\ rx' = Reset(rx)
  /\ timeoutSet' = FALSE
  /\ lag' = 0 /\ waited' = 0
  /\ Returns("disconnect", "OK")
  /\ UNCHANGED <<now, deadline>>

\* RunConnect: the adapter's poll succeeds, is still busy, or gives up.
RunConnect ==
  /\ state = "CONNECTING"
  /\ lag' = 0
  /\ IF ~timeoutSet
     THEN Returns("run", "IN_PROGRESS") /\ UNCHANGED <<state, timeoutSet, waited>>
     ELSE \/ /\ state' = "CONNECTED"
             /\ timeoutSet' = FALSE /\ waited' = 0
             /\ Returns("run", "OK")
          \/ /\ DeadlineElapsed(now, deadline)
             /\ state' = "ERROR"
             /\ timeoutSet' = FALSE
             /\ Answered("run", "TIMEOUT", "IN_PROGRESS")
             /\ UNCHANGED waited
          \/ /\ ~DeadlineElapsed(now, deadline)
             /\ Answered("run", "IN_PROGRESS", "IN_PROGRESS")
             /\ UNCHANGED <<state, timeoutSet, waited>>
          \/ /\ state' = "ERROR"
             /\ timeoutSet' = FALSE /\ waited' = 0
             /\ \E s \in Terminal \cup {"TIMEOUT"} : Answered("run", s, s)
  /\ UNCHANGED <<tx, rx, now, deadline>>

\* EnterError: both rings are discarded.
EnterError ==
  /\ state' = "ERROR"
  /\ tx' = Reset(tx)
  /\ rx' = Reset(rx)
  /\ timeoutSet' = FALSE

\* DrainTx: n bytes leave, in as many adapter sends as it takes, before the
\* ring is empty, the adapter blocks, or the adapter gives up.
Exchanged(status, answer, n, got) ==
  out' = [op |-> "run", status |-> status, answer |-> answer, data |-> <<>>,
          sent |-> Oldest(tx, TxCap, n), got |-> got]

\* The adapter gives up during a send.
RunSendFails ==
  /\ state = "CONNECTED"
  /\ \E n \in 0 .. tx.len - 1, s \in Terminal : Exchanged(s, s, n, <<>>)
  /\ EnterError
  /\ UNCHANGED <<now, deadline, lag, waited>>

\* RunRx asks for as many bytes as fit, up to the fetch budget.
FetchWant == Least(RxCap - rx.len, MaxFetch)

\* RunRx gets nothing.  It looks at the number of bytes before it looks for an
\* error, so a failure that comes without bytes counts as nothing to read.
RunReceivesNothing ==
  /\ state = "CONNECTED"
  /\ \E n \in 0 .. tx.len :
       /\ \/ FetchWant = 0 /\ Exchanged("OK", "WOULD_BLOCK", n, <<>>)
          \/ FetchWant > 0 /\ \E answer \in {"WOULD_BLOCK", "OK", "TRANSPORT_ERROR"} :
                                Exchanged("OK", answer, n, <<>>)
       /\ tx' = TakeZeroed(tx, TxCap, n)
  /\ UNCHANGED <<state, rx, timeoutSet, timeVars, deadline>>

\* RunRx fetches bytes.
RunReceives ==
  /\ state = "CONNECTED"
  /\ FetchWant > 0
  /\ \E n \in 0 .. tx.len, k \in 1 .. FetchWant : \E got \in [1 .. k -> Bytes] :
       /\ Exchanged("OK", "OK", n, got)
       /\ tx' = TakeZeroed(tx, TxCap, n)
       /\ rx' = Put(rx, RxCap, got)
  /\ UNCHANGED <<state, timeoutSet, timeVars, deadline>>

\* RunRx sees the end of the stream: the bytes received stay readable.
RunRemoteCloses ==
  /\ state = "CONNECTED"
  /\ FetchWant > 0
  /\ \E n \in 0 .. tx.len :
       /\ Exchanged("REMOTE_CLOSED", "REMOTE_CLOSED", n, <<>>)
       /\ tx' = TakeZeroed(tx, TxCap, n)
  /\ state' = "CLOSING"
  /\ UNCHANGED <<rx, timeoutSet, timeVars, deadline>>

\* RunRx fails and reports bytes with the failure: they are discarded too.
RunReceiveFails ==
  /\ state = "CONNECTED"
  /\ FetchWant > 0
  /\ \E n \in 0 .. tx.len : Exchanged("TRANSPORT_ERROR", "TRANSPORT_ERROR", n, <<>>)
  /\ EnterError
  /\ UNCHANGED <<timeVars, deadline>>

\* NetworkTransport_Run where there is nothing to advance.
RunIdle ==
  /\ \/ state = "DISCONNECTED" /\ Returns("run", "NOT_CONNECTED")
     \/ state = "ERROR" /\ Returns("run", "TRANSPORT_ERROR")
     \/ state = "CLOSING" /\ Returns("run", "OK")
  /\ UNCHANGED <<state, tx, rx, now, deadline, timeoutSet, lag, waited>>

Run ==
  \/ RunConnect
  \/ RunSendFails \/ RunReceivesNothing \/ RunReceives \/ RunRemoteCloses \/ RunReceiveFails
  \/ RunIdle

\* NetworkTransport_Send: as many bytes are accepted as the ring has room for.
Send ==
  \E data \in ByteSeqs(MaxSend) :
    LET accepted == SubSeq(data, 1, Least(Len(data), TxCap - tx.len)) IN
    /\ IF state # "CONNECTED"
       THEN Returns("send", "NOT_CONNECTED") /\ UNCHANGED tx
       ELSE /\ tx' = Put(tx, TxCap, accepted)
            /\ out' = [op |-> "send", status |-> "OK", answer |-> "OK",
                       data |-> accepted, sent |-> <<>>, got |-> <<>>]
    /\ UNCHANGED <<state, rx, now, deadline, timeoutSet, lag, waited>>

\* Bytes first; then the end of the stream, or nothing yet.  A reader that asks
\* for no bytes gets one of the latter answers even while bytes are waiting.
ReceiveStatus(n) == IF n > 0 THEN "OK" ELSE IF state = "CLOSING" THEN "REMOTE_CLOSED" ELSE "WOULD_BLOCK"

\* NetworkTransport_Receive into a buffer of room bytes.
Receive ==
  \E room \in MinRoom .. MaxSend :
    LET n == Least(rx.len, room) IN
    /\ IF state \notin {"CONNECTED", "CLOSING"}
       THEN Returns("receive", "NOT_CONNECTED") /\ UNCHANGED rx
       ELSE /\ rx' = Take(rx, RxCap, n)
            /\ out' = [op |-> "receive", status |-> ReceiveStatus(n), answer |-> "OK",
                       data |-> Oldest(rx, RxCap, n), sent |-> <<>>, got |-> <<>>]
    /\ UNCHANGED <<state, tx, now, deadline, timeoutSet, lag, waited>>

EmptyRing(cap) == [buf |-> [i \in 0 .. cap - 1 |-> 0], head |-> 0, tail |-> 0, len |-> 0]

\* NetworkTransport_Init.
Init ==
  /\ state = "DISCONNECTED"
  /\ tx = EmptyRing(TxCap)
  /\ rx = EmptyRing(RxCap)
  /\ now \in Clock
  /\ deadline = 0
  /\ timeoutSet = FALSE
  /\ lag = 0
  /\ waited = 0
  /\ out = [op |-> "none", status |-> "OK", answer |-> "OK",
            data |-> <<>>, sent |-> <<>>, got |-> <<>>]

Next == Connect \/ Disconnect \/ Run \/ Send \/ Receive \/ Tick

Spec == Init /\ [][Next]_vars

-----------------------------------------------------------------------------
(* Properties.                                                             *)

\* The indices of a ring agree with its length: the head is len bytes after
\* the tail, so that a full and an empty ring are told apart
\* (network_transport.c:167-174, 206-210, 300-306, 330-336).
RingConsistent(ring, cap) == ring.head = Wrap(ring.tail + ring.len, cap)
RingsConsistent == RingConsistent(tx, TxCap) /\ RingConsistent(rx, RxCap)

\* Bytes wait in the rings only as long as their connection lasts: none are
\* left for the next one (network_transport.c:82-88, 228-238).
NothingLeftOver ==
  /\ state \in {"DISCONNECTED", "CONNECTING", "ERROR"} => tx.len = 0 /\ rx.len = 0
  /\ timeoutSet <=> state = "CONNECTING"

\* However the clock wraps, opening a connection is given up at the first call
\* at or after the deadline (network_transport.c:122-131).
ConnectBounded == state = "CONNECTING" => waited < ConnectTimeout + MaxLag
\* While the adapter is still busy it is not given up earlier than that.
TimeoutNotEarly ==
  out.status = "TIMEOUT" /\ out.answer = "IN_PROGRESS" => waited >= ConnectTimeout

\* The deadline is ConnectTimeout after Connect, in the clock's arithmetic.
DeadlineKept ==
  state = "CONNECTING" =>
    /\ waited <= ConnectTimeout => Ticks(now, deadline) = ConnectTimeout - waited
    /\ waited >= ConnectTimeout => Ticks(deadline, now) = waited - ConnectTimeout
    /\ waited < ConnectTimeout + lag

\* Rings, deadline and time: together inductive.
IInv == TypeOK /\ RingsConsistent /\ NothingLeftOver /\ DeadlineKept

\* The document (docs/network_transport.md): a send or receive failure of the
\* adapter immediately moves the transport to ERROR.
ReceiveFailureIsSeen == out.answer = "TRANSPORT_ERROR" => state = "ERROR"

\* The transport is a byte stream per connection: bytes travel in order, none
\* lost, repeated or left over, and the end of the stream comes after them, as
\* long as readers ask for at least one byte (MinRoom).  A reader that asks for
\* none is told REMOTE_CLOSED or WOULD_BLOCK while bytes are waiting
\* (network_transport.c:341-346), which the stream, like docs/network_transport.md
\* (:236-238), does not allow.
Phase ==
  IF state = "DISCONNECTED" THEN "down"
  ELSE IF state = "CONNECTING" THEN "opening"
  ELSE IF state = "CONNECTED" THEN "open"
  ELSE IF state = "CLOSING" THEN "ended" ELSE "failed"
Stream == INSTANCE ByteStream WITH
  phase <- Phase, outgoing <- Contents(tx, TxCap), incoming <- Contents(rx, RxCap)
ImplementsByteStream == Stream!Spec

=============================================================================
