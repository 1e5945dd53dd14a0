----------------------------- MODULE ControlPath -----------------------------
(***************************************************************************)
(* The control path: broker, MQTT event handler, MQTT task, relay task.    *)
(* MqttTask and RelayTask run side by side over relayQueue, priceQueue and *)
(* the status semaphore; the tasks that drain the relay task's outputs are *)
(* still those of RelayTask's environment.                                 *)
(*                                                                         *)
(* Three variables are not in the code: delivered counts the messages      *)
(* while they are bounded; expected is what the relays would be if every   *)
(* message took effect the moment the handler queued it, and disturbed     *)
(* says that something happened that excuses a difference.                 *)
(***************************************************************************)
EXTENDS RelayTask

CONSTANTS Inbox, ReceiveQueueLen,
          MaxDelivered      \* bound: how many messages the broker delivers; 0 for no bound

ASSUME MaxDeliveredAssumption == MaxDelivered \in Nat

VARIABLES mqttReceiveQueue, newMessage, mqttPc, mqtt,
          delivered, expected, disturbed

Mqtt == INSTANCE MqttTask

mqttVars == <<mqttReceiveQueue, newMessage, mqttPc, mqtt>>
history == <<delivered, expected, disturbed>>
pathVars == <<vars, mqttVars, history>>

\* Every command and price the MQTT task can make of a message is one RelayTask
\* provides for.
ASSUME ParsedAssumption ==
    \A m \in Inbox :
        /\ m.topic = "command" /\ Mqtt!ParseRelaySettings(m.tokens).relayNumber # -1 =>
               Mqtt!ParseRelaySettings(m.tokens) \in Commands
        /\ m.topic = "price" => Mqtt!ParsePrice(m.tokens) \in Prices

\* What MqttTask assumes of the messages and of the lengths of the queues.
ASSUME MqttAssumption == Mqtt!InboxAssumption /\ Mqtt!ReceiveAssumption

IsCommand(m) == m.topic = "command" /\ Mqtt!ParseRelaySettings(m.tokens).relayNumber \in Relays
IsPrice(m) == m.topic = "price"

\* A command whose outcome does not depend on the side of a price message it is
\* carried out on: it sets no price of its own, and it does not switch to manual
\* mode with the pin left as the last price put it.
Commutes(c) ==
    /\ c.price = NoPrice
    /\ c.state # "noStateChange" \/ c.mode # "manual"

\* The messages on their way to the relay task.
CommandsOnTheWay ==
    {Mqtt!ParseRelaySettings(mqttReceiveQueue[k].tokens) :
        k \in {j \in 1 .. Len(mqttReceiveQueue) : IsCommand(mqttReceiveQueue[j])}}
    \cup {relayQueue[k] : k \in 1 .. Len(relayQueue)}
    \cup (IF IsCommand(mqtt) THEN {Mqtt!ParseRelaySettings(mqtt.tokens)} ELSE {})

PriceOnTheWay ==
    \/ \E k \in 1 .. Len(mqttReceiveQueue) : IsPrice(mqttReceiveQueue[k])
    \/ IsPrice(mqtt)
    \/ priceQueue # <<>>

-----------------------------------------------------------------------------
PathInit == Init /\ Mqtt!MqttInit /\ delivered = 0 /\ expected = relays /\ disturbed = FALSE

\* The broker's message m is queued by the event handler, or lost before it is.
Arrive(m) ==
    /\ MaxDelivered # 0 => delivered < MaxDelivered
    /\ delivered' = IF MaxDelivered # 0 THEN delivered + 1 ELSE delivered
    /\ Mqtt!Deliver(m)
    /\ IF mqttReceiveQueue' = mqttReceiveQueue THEN UNCHANGED <<expected, disturbed>>
       ELSE LET c == Mqtt!ParseRelaySettings(m.tokens)
            IN  /\ expected' =
                       IF IsCommand(m) THEN [expected EXCEPT ![c.relayNumber] = Control!Commanded(@, c)]
                       ELSE IF IsPrice(m)
                            THEN [r \in Relays |-> Control!Repriced(expected[r], Mqtt!ParsePrice(m.tokens))]
                       ELSE expected
                /\ disturbed' = \/ disturbed
                                \/ IsCommand(m) /\ ~Commutes(c) /\ PriceOnTheWay
                                \/ IsPrice(m) /\ \E d \in CommandsOnTheWay : ~Commutes(d)
    /\ UNCHANGED <<relays, pc, locals, outputs>>

\* A send of the MQTT task that ran into its timeout lost a message that counted.
MqttTaskStep ==
    /\ Mqtt!MqttStep
    /\ disturbed' = (disturbed \/ (mqttPc = "act" /\ UNCHANGED <<relayQueue, priceQueue>>
                                       /\ (IsCommand(mqtt) \/ IsPrice(mqtt))))
    /\ UNCHANGED <<relays, pc, locals, outputs, delivered, expected>>

RelayTaskStep == TaskStep /\ UNCHANGED <<mqttVars, history>>

Drain == (Transmit \/ Draw) /\ UNCHANGED <<mqttVars, history>>

PathNext == (\E m \in Inbox : Arrive(m)) \/ MqttTaskStep \/ RelayTaskStep \/ Drain

PathSpec == PathInit /\ [][PathNext]_pathVars

\* The scheduler gives a ready task the processor again and again, and neither task
\* blocks for ever once it has something to do: each call of the relay task has a
\* timeout of at most 100 ticks, and the MQTT task waits for ever only on an empty
\* queue.  Nothing is assumed of the tasks that drain the outputs.
FairPathSpec == PathSpec /\ WF_pathVars(MqttTaskStep) /\ WF_pathVars(RelayTaskStep)

-----------------------------------------------------------------------------
(* Properties *)

Quiet ==
    /\ mqttReceiveQueue = <<>> /\ mqttPc = "take"
    /\ relayQueue = <<>> /\ priceQueue = <<>>
    /\ pc \in {"receive", "pricewait", "poll"}

\* When everything is carried out, the relays are as if the messages had taken
\* effect in the order the broker delivered them, although commands overtake
\* prices in relayTask.cpp:22-84 (and a price can overtake a command that comes
\* while the task waits at line 80).  The only excuses are a message lost to a
\* full queue and two messages on the way together that do not commute.
ArrivalOrder == Quiet /\ ~disturbed => relays = expected

\* A status request on its way is answered by a report that begins after it: requests
\* may be merged, by the binary semaphore, but none is forgotten, also not when it is
\* given while an earlier one is being answered (mqttTask.cpp:20-22, relayTask.cpp:
\* 86-95), unless commands the relay task refuses keep coming (relayTask.cpp:25).
PingOnTheWay ==
    \/ \E k \in 1 .. Len(mqttReceiveQueue) :
           mqttReceiveQueue[k] = [topic |-> "ping", tokens |-> <<[key |-> "status", value |-> ""]>>]
    \/ sendRelayStatusSemaphore

AnswerBegins == pc = "status" /\ i = 0 /\ ~sendRelayStatusSemaphore

PingAnswered ==
    \/ PingOnTheWay ~> AnswerBegins
    \/ []<><<RejectCommand /\ UNCHANGED <<mqttVars, history>>>>_pathVars
    \/ <>(pc = "fault")

\* The composition behaves, towards the relay task, like the environment RelayTask
\* assumes, so that what is shown of RelayTask holds here.
RelayTaskSpec == Spec
=============================================================================
