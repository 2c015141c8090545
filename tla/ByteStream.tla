----------------------------- MODULE ByteStream -----------------------------
(***************************************************************************)
(* What a network transport promises the protocol above it: one connection *)
(* at a time, over which bytes travel in order, none lost, none repeated,  *)
(* and none left over from an earlier connection.  Bytes wait in one queue *)
(* per direction.  A failure empties both queues; an orderly end of the    *)
(* stream keeps the bytes already received until the caller has read them. *)
(***************************************************************************)
EXTENDS Naturals, Sequences

CONSTANT Bytes

VARIABLES
  phase,     \* "down", "opening", "open", "ended" or "failed"
  outgoing,  \* bytes accepted from the caller, not yet handed on
  incoming,  \* bytes fetched, not yet read by the caller
  out        \* what the last step gave the caller and the wire

vars == <<phase, outgoing, incoming, out>>

Init ==
  /\ phase = "down"
  /\ outgoing = <<>>
  /\ incoming = <<>>
  /\ out.data = <<>> /\ out.sent = <<>> /\ out.got = <<>>

\* The step exchanges no bytes with anyone.
Silent == out'.data = <<>> /\ out'.sent = <<>> /\ out'.got = <<>>
Emptied == outgoing' = <<>> /\ incoming' = <<>>

Open ==
  /\ phase = "down"
  /\ phase' \in {"opening", "failed"}
  /\ Silent /\ Emptied

Established ==
  /\ phase = "opening"
  /\ phase' = "open"
  /\ Silent /\ Emptied

\* The caller gives bytes to an open connection.
Accept ==
  /\ phase = "open" /\ out'.op = "send"
  /\ outgoing' = outgoing \o out'.data
  /\ out'.sent = <<>> /\ out'.got = <<>>
  /\ UNCHANGED <<phase, incoming>>

\* Bytes go out in the order they were accepted, and come in; then the stream
\* may have ended.
Exchange ==
  /\ phase = "open" /\ out'.op = "run"
  /\ outgoing = out'.sent \o outgoing'
  /\ incoming' = incoming \o out'.got
  /\ out'.data = <<>>
  /\ \/ phase' = "open"
     \/ phase' = "ended" /\ out'.got = <<>>

\* The connection is lost, possibly while bytes go out.
Fail ==
  /\ phase \in {"opening", "open"} /\ out'.op = "run"
  /\ phase' = "failed"
  /\ Emptied
  /\ \E n \in 0 .. Len(outgoing) : out'.sent = SubSeq(outgoing, 1, n)
  /\ out'.data = <<>> /\ out'.got = <<>>

\* The caller reads bytes in the order they came in.  While bytes are waiting it
\* is told neither that there are none nor that the stream has ended.
Deliver ==
  /\ phase \in {"open", "ended"} /\ out'.op = "receive"
  /\ incoming = out'.data \o incoming'
  /\ out'.sent = <<>> /\ out'.got = <<>>
  /\ out'.status # "OK" =>
       incoming = <<>> /\ out'.status = (IF phase = "ended" THEN "REMOTE_CLOSED" ELSE "WOULD_BLOCK")
  /\ UNCHANGED <<phase, outgoing>>

Close ==
  /\ phase' = "down"
  /\ Silent /\ Emptied

\* A call that only reports: a reader learns no more than that there is no stream.
Report ==
  /\ out'.op = "receive" => out'.status = "NOT_CONNECTED" /\ phase \notin {"open", "ended"}
  /\ Silent /\ UNCHANGED <<phase, outgoing, incoming>>

Next == Open \/ Established \/ Accept \/ Exchange \/ Fail \/ Deliver \/ Close \/ Report

Spec == Init /\ [][Next]_vars

=============================================================================
