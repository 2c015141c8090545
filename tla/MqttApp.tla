------------------------------- MODULE MqttApp -------------------------------
(***************************************************************************)
(* The MQTT connection manager of App/Src/mqtt_app.c with the command slot *)
(* of Command/Src/command.c, over the client's promise MqttSession, as the *)
(* super-loop runs them: App_Run publishes telemetry, calls MqttApp_Run    *)
(* and then Command_Run (app.c:1600-1629).  A network adapter is           *)
(* configured; without one the manager stays DISABLED and does nothing.    *)
(*                                                                         *)
(* The broker keeps to the protocol: it acknowledges what it was sent and  *)
(* publishes commands to a subscriber only.                                *)
(***************************************************************************)
EXTENDS Naturals

CONSTANT Backoff  \* BackoffTable: ticks to wait, by backoff_step

Steps == DOMAIN Backoff
LastStep == CHOOSE n \in Steps : \A m \in Steps : m <= n

ASSUME BackoffAssumption ==
  /\ 0 \in Steps /\ Steps \subseteq Nat
  /\ \A n \in Steps : 0 .. n \subseteq Steps /\ Backoff[n] \in Nat \ {0}
  /\ \E last \in Steps : \A n \in Steps : n <= last

VARIABLES
  state, sending, inflight, sub, ack, at,  \* the client, as in MqttSession
  app,     \* MqttAppState
  step,    \* backoff_step
  until,   \* ticks until backoff_until_ms
  pc,      \* where App_Run is
  cmd,     \* a command waits in the command slot
  lost,    \* a response was refused with MQTT_BUSY
  granted  \* the broker has got the SUBSCRIBE of this connection

Client == INSTANCE MqttSession

session == <<state, sending, inflight, sub, ack, at>>
vars == <<session, app, step, until, pc, cmd, lost, granted>>

TypeOK ==
  /\ state \in {"DISCONNECTED", "CONNECTING", "WAIT_CONNACK", "CONNECTED", "ERROR"}
  /\ sending \in {"NONE", "CONNECT", "SUBSCRIBE", "PUBLISH_QOS0", "PUBLISH_QOS1", "PUBACK", "PINGREQ"}
  /\ inflight \in BOOLEAN /\ sub \in BOOLEAN /\ ack \in BOOLEAN
  /\ cmd \in BOOLEAN /\ lost \in BOOLEAN /\ granted \in BOOLEAN
  /\ at \in {"caller", "ingest"}
  /\ app \in {"DISCONNECTED", "CONNECTING", "SUBSCRIBING", "ONLINE", "BACKOFF"}
  /\ step \in Steps /\ until \in Nat
  /\ pc \in {"loop", "poll", "client", "after", "command"}

-----------------------------------------------------------------------------
(* App_Run before MqttApp_Run.                                             *)

Goto(label) == pc' = label

\* MqttApp_PublishTelemetry: dropped unless online and the client is free.
PublishTelemetry ==
  /\ pc = "loop"
  /\ IF app = "ONLINE" /\ Client!CanSend THEN Client!PublishQos0 ELSE UNCHANGED session
  /\ Goto("poll")
  /\ UNCHANGED <<app, step, until, cmd, lost, granted>>

NoTelemetry == pc = "loop" /\ Goto("poll") /\ UNCHANGED <<session, app, step, until, cmd, lost, granted>>

-----------------------------------------------------------------------------
(* MqttApp_Run.                                                            *)

\* Less than MQTT_APP_POLL_PERIOD_MS since the last poll.
NotDue == pc = "poll" /\ Goto("command") /\ UNCHANGED <<session, app, step, until, cmd, lost, granted>>

\* Whatever Connect answers, a busy client's refusal included.
PollConnects ==
  /\ pc = "poll" /\ app = "DISCONNECTED"
  /\ app' = "CONNECTING"
  /\ IF state = "DISCONNECTED" THEN Client!Connect ELSE UNCHANGED session
  /\ Goto("command")
  /\ UNCHANGED <<step, until, cmd, lost, granted>>

\* Mutant: the wait is taken for unfinished when it is over.
BackoffForgotten == FALSE
BackoffElapsed == until = 0

PollBacksOff ==
  /\ pc = "poll" /\ app = "BACKOFF"
  /\ app' = IF BackoffElapsed THEN "DISCONNECTED" ELSE app
  /\ Goto("command")
  /\ UNCHANGED <<session, step, until, cmd, lost, granted>>

Polls == pc = "poll" /\ app \in {"CONNECTING", "SUBSCRIBING", "ONLINE"}

\* The client hands a packet over to the network; a SUBSCRIBE reaches the broker.
HandsOver == sending # "NONE" /\ sending' # sending
Granted == granted' = (granted \/ (sending = "SUBSCRIBE" /\ sending' # sending))

PollOpens ==
  /\ Polls /\ Client!RunOpens
  /\ Goto("client")
  /\ UNCHANGED <<app, step, until, cmd, lost, granted>>

PollServes ==
  /\ Polls /\ Client!RunServes
  /\ Granted
  /\ Goto("client")
  /\ UNCHANGED <<app, step, until, cmd, lost>>

\* The connection is still being opened.
PollWaits ==
  /\ Polls /\ state \in {"CONNECTING", "ERROR"}
  /\ Goto("after")
  /\ UNCHANGED <<session, app, step, until, cmd, lost, granted>>

\* The connection fails, in MqttClient_Run's first half or later.
Drops ==
  /\ Polls \/ pc = "client"
  /\ Client!Fails
  /\ granted' = FALSE
  /\ Goto("after")
  /\ UNCHANGED <<app, step, until, cmd, lost>>

-----------------------------------------------------------------------------
(* Inbound packets, from a broker that keeps to the protocol.              *)

Received == pc = "client" /\ Goto("client") /\ UNCHANGED <<app, step, until, lost, granted>>

ReceiveConnack ==
  /\ Received /\ Client!ReceiveConnack /\ sending # "CONNECT"
  /\ UNCHANGED cmd

ReceiveSuback ==
  /\ Received /\ Client!ReceiveSuback /\ granted /\ sub /\ ~sub'
  /\ UNCHANGED cmd

ReceivePuback ==
  /\ Received /\ Client!ReceivePuback /\ inflight /\ sending # "PUBLISH_QOS1" /\ ~inflight'
  /\ UNCHANGED cmd

\* Mutant: a command is taken while a response is unacknowledged.
AnySlot == TRUE
\* The gate of MqttApp_OnInboundPublish.
ResponseSlotFree == ~inflight

\* A command on the command topic.  It is acknowledged only if it is taken: the
\* response slot is free, and so is the command slot.
ReceiveCommand ==
  /\ Received /\ granted
  /\ IF ResponseSlotFree /\ ~cmd
     THEN /\ cmd' = TRUE
          /\ Client!ReceivePublish \/ Client!ReceivePublishQos1
     ELSE /\ UNCHANGED cmd
          /\ Client!ReceivePublish

\* MqttClient_Run returns.  The run that accepts CONNACK sends no ping: CONNACK has
\* just restarted the keepalive (mqtt_client.c:236).
EndOfRun ==
  /\ pc = "client" /\ Client!RunEnd
  /\ app = "CONNECTING" => sending' = sending
  /\ Goto("after")
  /\ UNCHANGED <<app, step, until, cmd, lost, granted>>

-----------------------------------------------------------------------------
(* MqttApp_Run after MqttClient_Run.                                       *)

EnterBackoff ==
  /\ app' = "BACKOFF"
  /\ step' = IF step < LastStep THEN step + 1 ELSE step
  /\ until' = Backoff[step']

\* Mutant: the client is left in its error.
BackoffOnly == EnterBackoff /\ UNCHANGED session
GiveUp == EnterBackoff /\ Client!Disconnect

\* Mutant: the SUBACK is not waited for.
SubscribeSent == TRUE
Subscribed == ~sub

\* CONNACK was accepted: subscribe.  A refusal by a busy client is not noticed.
StartSubscription ==
  /\ app' = "SUBSCRIBING"
  /\ IF Client!CanSend /\ ~sub THEN Client!Subscribe ELSE UNCHANGED session
  /\ UNCHANGED <<step, until>>

FinishSubscription ==
  /\ IF Subscribed THEN app' = "ONLINE" /\ step' = 0 ELSE UNCHANGED <<app, step>>
  /\ UNCHANGED <<session, until>>

After ==
  /\ pc = "after"
  /\ IF state = "ERROR" THEN GiveUp
     ELSE IF state = "CONNECTED" /\ app = "CONNECTING" THEN StartSubscription
     ELSE IF state = "CONNECTED" /\ app = "SUBSCRIBING" THEN FinishSubscription
     ELSE UNCHANGED <<session, app, step, until>>
  /\ Goto("command")
  /\ UNCHANGED <<cmd, lost, granted>>

-----------------------------------------------------------------------------
(* Command_Run.                                                            *)

NoCommand == pc = "command" /\ ~cmd /\ Goto("loop") /\ UNCHANGED <<session, app, step, until, cmd, lost, granted>>

\* The command is executed, and MqttApp_PublishResponse publishes its response:
\* dropped unless online, refused if the client is busy.
ExecuteCommand ==
  /\ pc = "command" /\ cmd
  /\ cmd' = FALSE
  /\ IF app # "ONLINE" THEN UNCHANGED <<session, lost>>
     ELSE IF Client!CanSend /\ ~inflight THEN Client!PublishQos1 /\ UNCHANGED lost
     ELSE lost' = TRUE /\ UNCHANGED session
  /\ Goto("loop")
  /\ UNCHANGED <<app, step, until, granted>>

\* Time passes between two iterations of the super-loop.
Tick ==
  /\ pc = "loop" /\ until > 0
  /\ until' = until - 1
  /\ UNCHANGED <<session, app, step, pc, cmd, lost, granted>>

Init ==
  /\ Client!Init
  /\ app = "DISCONNECTED" /\ step = 0 /\ until = 0
  /\ pc = "loop"
  /\ cmd = FALSE /\ lost = FALSE /\ granted = FALSE

Poll == PollConnects \/ PollBacksOff \/ PollOpens \/ PollServes \/ PollWaits
Receive == ReceiveConnack \/ ReceiveSuback \/ ReceivePuback \/ ReceiveCommand
Loop == PublishTelemetry \/ NoTelemetry \/ NotDue \/ Poll \/ EndOfRun \/ After \/ NoCommand \/ ExecuteCommand
Next == Loop \/ Drops \/ Receive \/ Tick

\* The super-loop runs for ever and the poll falls due again and again; the
\* client opens connections and hands packets over, and the broker answers,
\* unless the connection fails first; the clock goes on.
Fairness ==
  /\ WF_vars(Loop) /\ SF_vars(Poll) /\ SF_vars(PollOpens)
  /\ SF_vars(PollServes /\ HandsOver)
  /\ SF_vars(ReceiveConnack) /\ SF_vars(ReceiveSuback)
  /\ SF_vars(Tick)
Spec == Init /\ [][Next]_vars /\ Fairness

-----------------------------------------------------------------------------
(* Properties.                                                             *)

\* Between two polls the manager and the client agree on the connection: the
\* manager never waits for a connection nobody is opening, and Connect and
\* Subscribe always meet a client that can obey (mqtt_app.c:155-246).
AppFollowsClient ==
  pc \in {"loop", "poll", "command"} =>
    /\ app \in {"DISCONNECTED", "BACKOFF"} => state = "DISCONNECTED"
    /\ app = "CONNECTING" => state \in {"CONNECTING", "WAIT_CONNACK", "ERROR"}
    /\ app \in {"SUBSCRIBING", "ONLINE"} => state = "CONNECTED"

\* The manager is online only on a connection whose broker got its subscription,
\* although it ignores what Subscribe answers (mqtt_app.c:180-196).
OnlineIsSubscribed == app = "ONLINE" /\ state = "CONNECTED" => granted

\* A command waits for execution only while its response can take the QoS 1 slot
\* (mqtt_app.c:345-358).
SlotIsFree == cmd => ~inflight

\* mqtt_app.c:291-300: when a response is published, the client "is BUSY" is
\* "defensive: must not occur".
ResponseIsNeverBusy == ~lost

\* If connections no longer fail from some time on, the manager gets online and
\* stays there, whatever happened before (mqtt_app.c:139-262).
ConnectionFails == state # "ERROR" /\ state' = "ERROR"
ReachesOnline == <>[][~ConnectionFails]_vars => <>[](app = "ONLINE")
=============================================================================
