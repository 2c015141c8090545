---------------------------- MODULE MCMqttIngest ----------------------------
EXTENDS MqttIngest

CONSTANTS Sizes, LastSizes, MaxPackets

\* A packet is its header's length, its own length, and whether it is valid.
Built(sizes, n) ==
  LET End_[i \in 0 .. n] == IF i = 0 THEN 0 ELSE End_[i - 1] + sizes[i][2] IN
  [i \in 1 .. n |-> [from |-> End_[i - 1], to |-> End_[i], header |-> sizes[i][1], valid |-> sizes[i][3]]]
\* Nothing is read behind a packet that ends the connection: it comes last.  A
\* stream may end after any byte, so that shorter ones add nothing.
MCStreams ==
  {Built(Append(sizes, last), MaxPackets) :
     sizes \in [1 .. MaxPackets - 1 -> Sizes], last \in Sizes \cup LastSizes}
MCGarbled == {[total |-> 3, header |-> 2]}

\* PINGRESP is 2 bytes long, CONNACK and PUBACK are 4.
MCSizes == {<<2, 2, TRUE>>, <<2, 4, TRUE>>, <<2, 6, TRUE>>}
\* Too large a packet, and one whose first byte names no packet type.
MCLastSizes == {<<3, 10, TRUE>>, <<2, 5, FALSE>>}
\* A remaining length that is accepted, of a packet that does not fit the buffer.
OverlongSizes == {<<2, 7, TRUE>>}
=============================================================================
