---------------------------- MODULE MqttAppProofs ----------------------------
(***************************************************************************)
(* The safety invariants of MqttApp hold for every backoff schedule.       *)
(*                                                                         *)
(* AppFollowsClient speaks of the moments between two polls; within a poll *)
(* the manager's state lags behind the client's, and WithinPoll says by    *)
(* how much.  OnlineIsSubscribed needs to know that nothing stands in the  *)
(* way of SUBSCRIBE when CONNACK arrives (NothingBefore), and that a       *)
(* SUBSCRIBE is unacknowledged until the broker has it (Awaited).          *)
(***************************************************************************)
EXTENDS MqttApp, TLAPS

USE DEF Client!sessionVars, Client!Alive, Client!Opening

\* Between polls the client is at rest, within one it is where Run left it.
Place == (pc = "client") = (at = "ingest")

Polling == {"CONNECTING", "SUBSCRIBING", "ONLINE"}

\* The manager's view while a poll is under way.
WithinPoll ==
  /\ pc \in {"client", "after"} => app \in Polling
  /\ pc = "client" /\ app = "CONNECTING" => state \in {"WAIT_CONNACK", "CONNECTED"}
  /\ pc = "client" /\ app # "CONNECTING" => state = "CONNECTED"
  /\ pc = "after" => state # "DISCONNECTED"
  /\ pc = "after" /\ app # "CONNECTING" => state \in {"CONNECTED", "ERROR"}

\* Until the manager subscribes, nothing but CONNECT is sent and no more is awaited.
NothingBefore ==
  app \notin {"SUBSCRIBING", "ONLINE"} =>
    /\ ~sub /\ ~ack /\ ~granted
    /\ sending \in {"NONE", "CONNECT"}
    /\ state # "WAIT_CONNACK" => sending = "NONE"

\* An ended connection has left nothing.
Ended == state = "ERROR" => sending = "NONE" /\ ~sub /\ ~ack /\ ~granted

\* A SUBSCRIBE is unacknowledged until the broker has got it.
Awaited == app = "SUBSCRIBING" /\ state = "CONNECTED" => sub \/ granted

Manner == Place /\ WithinPoll /\ NothingBefore /\ Ended /\ Awaited
IInv == TypeOK /\ Manner /\ AppFollowsClient /\ OnlineIsSubscribed /\ SlotIsFree

-----------------------------------------------------------------------------
\* The last step of the schedule is a step.
LEMMA LastStepIsAStep == LastStep \in Steps /\ \A n \in Steps : n <= LastStep
  BY BackoffAssumption DEF LastStep

\* Entering the backoff keeps the step within the schedule.
LEMMA BackoffStays ==
  ASSUME step \in Steps, EnterBackoff
  PROVE  step' \in Steps /\ until' \in Nat
  <1>1. step' \in Steps
    <2>1. CASE step < LastStep
      <3>1. step' = step + 1 /\ step \in Nat /\ LastStep \in Nat
        BY <2>1, LastStepIsAStep, BackoffAssumption DEF EnterBackoff
      <3>2. step + 1 \in 0 .. LastStep
        BY <2>1, <3>1, SMT
      <3> QED
        BY <3>1, <3>2, LastStepIsAStep, BackoffAssumption
    <2>2. CASE ~(step < LastStep)
      BY <2>2 DEF EnterBackoff
    <2> QED
      BY <2>1, <2>2
  <1>2. until' = Backoff[step']
    BY DEF EnterBackoff
  <1> QED
    BY <1>1, <1>2, BackoffAssumption

-----------------------------------------------------------------------------
\* Init establishes the invariant.
LEMMA InitIInv == Init => IInv
  BY BackoffAssumption
     DEF Init, Client!Init, IInv, TypeOK, Manner, Place, WithinPoll, NothingBefore,
         Ended, Awaited, AppFollowsClient, OnlineIsSubscribed, SlotIsFree

\* Every action of the super-loop keeps the types.
LEMMA NextTypeOK == TypeOK /\ [Next]_vars => TypeOK'
  <1> SUFFICES ASSUME TypeOK, [Next]_vars PROVE TypeOK'
    OBVIOUS
  <1> USE DEF TypeOK, Goto, session
  <1>1. CASE PublishTelemetry
    BY <1>1 DEF PublishTelemetry, Client!PublishQos0, Client!CanSend
  <1>2. CASE NoTelemetry \/ NotDue \/ NoCommand
    BY <1>2 DEF NoTelemetry, NotDue, NoCommand
  <1>3. CASE PollConnects \/ PollBacksOff \/ PollOpens \/ PollWaits
    BY <1>3 DEF PollConnects, PollBacksOff, PollOpens, PollWaits, Polls, Client!Connect, Client!RunOpens
  <1>4. CASE PollServes
    BY <1>4 DEF PollServes, Polls, Granted, Client!RunServes
  <1>5. CASE Drops
    BY <1>5 DEF Drops, Client!Fails, Client!Ends
  <1>6. CASE Receive
    <2>1. CASE ReceiveConnack \/ ReceiveSuback \/ ReceivePuback
      BY <2>1 DEF ReceiveConnack, ReceiveSuback, ReceivePuback, Received,
         Client!Reads, Client!ReceiveConnack, Client!ReceiveSuback, Client!ReceivePuback
    <2>2. CASE ReceiveCommand
      BY <2>2 DEF ReceiveCommand, Received, Client!Reads, Client!ReceivePublish, Client!ReceivePublishQos1
    <2> QED
      BY <1>6, <2>1, <2>2 DEF Receive
  <1>7. CASE EndOfRun
    BY <1>7 DEF EndOfRun, Client!RunEnd
  <1>8. CASE After
    <2>1. CASE state = "ERROR"
      <3>1. GiveUp /\ pc' = "command" /\ UNCHANGED <<cmd, lost, granted>>
        BY <2>1, <1>8 DEF After
      <3>2. step' \in Steps /\ until' \in Nat
        BY <3>1, BackoffStays DEF GiveUp
      <3> QED
        BY <2>1, <3>1, <3>2 DEF GiveUp, EnterBackoff, Client!Disconnect, Client!Ends
    <2>2. CASE state = "CONNECTED" /\ app = "CONNECTING"
      BY <2>2, <1>8 DEF After, StartSubscription, Client!Subscribe, Client!CanSend
    <2>3. CASE state = "CONNECTED" /\ app = "SUBSCRIBING"
      <3>1. 0 \in Steps
        BY BackoffAssumption
      <3> QED
        BY <2>3, <3>1, <1>8 DEF After, FinishSubscription
    <2> QED
      BY <2>1, <2>2, <2>3, <1>8 DEF After
  <1>9. CASE ExecuteCommand
    BY <1>9 DEF ExecuteCommand, Client!PublishQos1, Client!CanSend
  <1>10. CASE Tick
    BY <1>10 DEF Tick
  <1>11. CASE UNCHANGED vars
    BY <1>11 DEF vars
  <1> QED
    BY <1>1, <1>2, <1>3, <1>4, <1>5, <1>6, <1>7, <1>8, <1>9, <1>10, <1>11 DEF Next, Loop, Poll

\* A step keeps the manager and the client in agreement.
LEMMA NextManner ==
  TypeOK /\ Manner /\ AppFollowsClient /\ [Next]_vars => Manner' /\ AppFollowsClient'
  <1> SUFFICES ASSUME TypeOK, Manner, AppFollowsClient, [Next]_vars
               PROVE  Manner' /\ AppFollowsClient'
    OBVIOUS
  <1> USE DEF Manner, Place, Polling, WithinPoll, NothingBefore, Ended, Awaited, AppFollowsClient, Goto, session
  <1>1. CASE PublishTelemetry
    BY <1>1 DEF TypeOK, PublishTelemetry, Client!PublishQos0, Client!CanSend
  <1>2. CASE NoTelemetry \/ NotDue \/ NoCommand
    BY <1>2 DEF TypeOK, NoTelemetry, NotDue, NoCommand
  <1>3. CASE PollConnects \/ PollBacksOff
    BY <1>3 DEF TypeOK, PollConnects, PollBacksOff, Client!Connect
  <1>4. CASE PollOpens \/ PollWaits
    BY <1>4 DEF TypeOK, PollOpens, PollWaits, Polls, Client!RunOpens
  <1>5. CASE PollServes
    BY <1>5 DEF TypeOK, PollServes, Polls, Granted, Client!RunServes
  <1>6. CASE Drops
    BY <1>6 DEF TypeOK, Drops, Polls, Client!Fails, Client!Ends
  <1>7. CASE ReceiveConnack \/ ReceivePuback
    <2>1. CASE ReceiveConnack
      <3>1. app = "CONNECTING" /\ sending = "NONE" /\ state' = "CONNECTED"
        BY <2>1 DEF TypeOK, ReceiveConnack, Received, Client!ReceiveConnack
      <3> QED
        BY <2>1, <3>1 DEF TypeOK, ReceiveConnack, Received, Client!Reads, Client!ReceiveConnack
    <2>2. CASE ReceivePuback
      BY <2>2 DEF TypeOK, ReceivePuback, Received, Client!Reads, Client!ReceivePuback
    <2> QED
      BY <1>7, <2>1, <2>2
  <1>8. CASE ReceiveSuback
    BY <1>8 DEF TypeOK, ReceiveSuback, Received, Client!Reads, Client!ReceiveSuback
  <1>9. CASE ReceiveCommand
    BY <1>9 DEF TypeOK, ReceiveCommand, Received, Client!Reads, Client!ReceivePublish, Client!ReceivePublishQos1
  <1>10. CASE EndOfRun
    BY <1>10 DEF TypeOK, EndOfRun, Client!RunEnd
  <1>11. CASE After
    <2>1. CASE state = "ERROR"
      BY <2>1, <1>11 DEF TypeOK, After, GiveUp, EnterBackoff, Client!Disconnect, Client!Ends
    <2>2. CASE state = "CONNECTED" /\ app = "CONNECTING"
      BY <2>2, <1>11 DEF TypeOK, After, StartSubscription, Client!Subscribe, Client!CanSend
    <2>3. CASE state = "CONNECTED" /\ app = "SUBSCRIBING"
      BY <2>3, <1>11 DEF TypeOK, After, FinishSubscription, Subscribed
    <2> QED
      BY <2>1, <2>2, <2>3, <1>11 DEF TypeOK, After
  <1>12. CASE ExecuteCommand
    BY <1>12 DEF TypeOK, ExecuteCommand, Client!PublishQos1, Client!CanSend
  <1>13. CASE Tick
    BY <1>13 DEF TypeOK, Tick
  <1>14. CASE UNCHANGED vars
    BY <1>14 DEF vars
  <1> QED
    BY <1>1, <1>2, <1>3, <1>4, <1>5, <1>6, <1>7, <1>8, <1>9, <1>10, <1>11, <1>12, <1>13, <1>14
    DEF Next, Loop, Poll, Receive

\* Going online needs an acknowledged SUBSCRIBE, and Awaited makes the broker have it.
LEMMA NextOnline ==
  TypeOK /\ Manner /\ OnlineIsSubscribed /\ [Next]_vars => OnlineIsSubscribed'
  <1> SUFFICES ASSUME TypeOK, Manner, OnlineIsSubscribed, [Next]_vars
               PROVE  OnlineIsSubscribed'
    OBVIOUS
  <1> USE DEF OnlineIsSubscribed, Goto, session
  <1>1. CASE After
    BY <1>1 DEF Manner, Awaited, After, GiveUp, EnterBackoff, StartSubscription, FinishSubscription, Subscribed,
       Client!Disconnect, Client!Ends, Client!Subscribe
  <1>2. CASE Drops
    BY <1>2 DEF Drops, Client!Fails, Client!Ends
  <1>3. CASE PollConnects \/ PollBacksOff \/ PollOpens \/ PollWaits \/ PollServes
    BY <1>3 DEF PollConnects, PollBacksOff, PollOpens, PollWaits, PollServes, Polls, Granted, Client!RunOpens, Client!RunServes
  <1>4. CASE Receive
    BY <1>4 DEF Manner, WithinPoll, Receive, ReceiveConnack, ReceiveSuback, ReceivePuback, ReceiveCommand, Received,
       Client!Reads, Client!ReceiveConnack, Client!ReceiveSuback, Client!ReceivePuback,
       Client!ReceivePublish, Client!ReceivePublishQos1
  <1>5. CASE PublishTelemetry \/ NoTelemetry \/ NotDue \/ NoCommand \/ ExecuteCommand \/ EndOfRun \/ Tick
    BY <1>5 DEF PublishTelemetry, NoTelemetry, NotDue, NoCommand, ExecuteCommand, EndOfRun, Tick,
       Client!PublishQos0, Client!PublishQos1, Client!RunEnd
  <1>6. CASE UNCHANGED vars
    BY <1>6 DEF vars
  <1> QED
    BY <1>1, <1>2, <1>3, <1>4, <1>5, <1>6 DEF Next, Loop, Poll

\* A step fills the response slot only as it empties the command slot.
LEMMA NextSlot == TypeOK /\ SlotIsFree /\ [Next]_vars => SlotIsFree'
  <1> SUFFICES ASSUME TypeOK, SlotIsFree, [Next]_vars PROVE SlotIsFree'
    OBVIOUS
  <1> USE DEF SlotIsFree, TypeOK, session
  <1>1. CASE After
    BY <1>1 DEF After, GiveUp, StartSubscription, FinishSubscription, Client!Disconnect, Client!Ends, Client!Subscribe
  <1>2. CASE Drops
    BY <1>2 DEF Drops, Client!Fails, Client!Ends
  <1>3. CASE PollConnects \/ PollBacksOff \/ PollOpens \/ PollWaits \/ PollServes
    BY <1>3 DEF PollConnects, PollBacksOff, PollOpens, PollWaits, PollServes, Client!Connect, Client!RunOpens, Client!RunServes
  <1>4. CASE ReceiveConnack \/ ReceiveSuback \/ ReceivePuback
    BY <1>4 DEF ReceiveConnack, ReceiveSuback, ReceivePuback, Client!ReceiveConnack, Client!ReceiveSuback, Client!ReceivePuback
  <1>5. CASE ReceiveCommand
    BY <1>5 DEF ReceiveCommand, ResponseSlotFree, Client!ReceivePublish, Client!ReceivePublishQos1
  <1>6. CASE PublishTelemetry \/ NoTelemetry \/ NotDue \/ NoCommand \/ EndOfRun \/ Tick
    BY <1>6 DEF PublishTelemetry, NoTelemetry, NotDue, NoCommand, EndOfRun, Tick, Client!PublishQos0, Client!RunEnd
  <1>7. CASE ExecuteCommand
    BY <1>7 DEF ExecuteCommand
  <1>8. CASE UNCHANGED vars
    BY <1>8 DEF vars
  <1> QED
    BY <1>1, <1>2, <1>3, <1>4, <1>5, <1>6, <1>7, <1>8 DEF Next, Loop, Poll, Receive

-----------------------------------------------------------------------------
\* The invariant holds always.
LEMMA Invariant == Spec => []IInv
  <1>1. IInv /\ [Next]_vars => IInv'
    BY NextTypeOK, NextManner, NextOnline, NextSlot DEF IInv
  <1> QED
    BY InitIInv, <1>1, PTL DEF Spec

\* MqttApp_Run and the client agree between two polls, whatever the schedule.
THEOREM ManagerAgreesWithClient == Spec => []AppFollowsClient
  BY Invariant, PTL DEF IInv

\* MqttApp_Run goes online only once the broker has the subscription.
THEOREM OnlineMeansSubscribed == Spec => []OnlineIsSubscribed
  BY Invariant, PTL DEF IInv

\* MqttApp_OnInboundPublish takes a command only if its response has the slot, and
\* nothing takes the slot from it until the command is executed.
THEOREM ACommandFindsItsSlot == Spec => []SlotIsFree
  BY Invariant, PTL DEF IInv
=============================================================================
