------------------------------ MODULE MqttTask ------------------------------
(***************************************************************************)
(* The way of a message from the broker to the relay task: the MQTT event  *)
(* handler, which runs in the client's own task and never waits (mqtt.cpp, *)
(* case MQTT_EVENT_DATA), mqttReceiveQueue, and the MQTT task              *)
(* (mqttTask.cpp), which parses one message at a time.                     *)
(*                                                                         *)
(* The text of a message is a sequence of tokens: the pieces between the   *)
(* ampersands, each split at its equals sign into a key and a value.  The  *)
(* value of a number is the number toInt and toDouble make of it (0 for a  *)
(* text that is none).                                                     *)
(***************************************************************************)
EXTENDS Messages, SequencesExt

CONSTANTS Inbox,                                    \* what the broker may deliver
          ReceiveQueueLen, RelayQueueLen, PriceQueueLen

ASSUME ReceiveAssumption == {ReceiveQueueLen, RelayQueueLen, PriceQueueLen} \subseteq Nat \ {0}

\* A message's tokens are a sequence, and what toInt and toDouble make of the text
\* after one of these keys is a number.
ASSUME InboxAssumption ==
    \A m \in Inbox :
        /\ Len(m.tokens) \in Nat /\ DOMAIN m.tokens = 1 .. Len(m.tokens)
        /\ \A k \in DOMAIN m.tokens :
               m.tokens[k].key \in {"relay", "threshold", "price", "hour0"} => m.tokens[k].value \in Int

VARIABLES
    mqttReceiveQueue,
    newMessage,         \* the bit MQTT_NEW_MESSAGE of mqttEventGroup
    mqttPc,             \* "take" a message, or "act" on the one in hand
    mqtt,               \* the message in hand
    relayQueue, priceQueue, sendRelayStatusSemaphore

mqttVars == <<mqttReceiveQueue, newMessage, mqttPc, mqtt>>
relayInputs == <<relayQueue, priceQueue, sendRelayStatusSemaphore>>

NoMessage == [topic |-> "none", tokens |-> <<>>]

MqttInit ==
    /\ mqttReceiveQueue = <<>>
    /\ newMessage = FALSE
    /\ mqttPc = "take"
    /\ mqtt = NoMessage

-----------------------------------------------------------------------------
(* Parsing *)

\* Mutant of ApplyToken: an unknown state takes back an earlier one.
ApplyTokenForgets(settings, token) ==
    CASE token.key = "relay"     -> [settings EXCEPT !.relayNumber = token.value]
      [] token.key = "mode"      -> IF token.value = "auto" THEN [settings EXCEPT !.mode = "automatic"]
                                    ELSE IF token.value = "manual" THEN [settings EXCEPT !.mode = "manual"]
                                    ELSE settings
      [] token.key = "state"     -> [settings EXCEPT !.state =
                                        IF token.value \in {"on", "off"} THEN token.value ELSE "noStateChange"]
      [] token.key = "threshold" -> [settings EXCEPT !.threshold = token.value]
      [] token.key = "price"     -> [settings EXCEPT !.price = token.value]
      [] OTHER                   -> settings

\* The settings after one more token.  A key, a mode or a state the parser does
\* not know is logged and skipped.
ApplyToken(settings, token) ==
    CASE token.key = "relay"     -> [settings EXCEPT !.relayNumber = token.value]
      [] token.key = "mode"      -> IF token.value = "auto" THEN [settings EXCEPT !.mode = "automatic"]
                                    ELSE IF token.value = "manual" THEN [settings EXCEPT !.mode = "manual"]
                                    ELSE settings
      [] token.key = "state"     -> IF token.value \in {"on", "off"}
                                    THEN [settings EXCEPT !.state = token.value] ELSE settings
      [] token.key = "threshold" -> [settings EXCEPT !.threshold = token.value]
      [] token.key = "price"     -> [settings EXCEPT !.price = token.value]
      [] OTHER                   -> settings

ParseRelaySettings(tokens) ==
    FoldLeft(ApplyToken,
             [relayNumber |-> -1, state |-> "noStateChange", mode |-> "noModeChange",
              threshold |-> NoThreshold, price |-> NoPrice],
             tokens)

\* Of the six prices only that of hour0 is used; it is 0 when the message has none.
ParsePrice(tokens) ==
    FoldLeft(LAMBDA price, token : IF token.key = "hour0" THEN token.value ELSE price, 0, tokens)

-----------------------------------------------------------------------------
(* The handler and the task *)

\* Mutants of Deliver: the queue is taken to be endless; the message goes to its
\* front.
DeliverAlways(m) ==
    /\ newMessage' = TRUE
    /\ mqttReceiveQueue' = Append(mqttReceiveQueue, m)
    /\ UNCHANGED <<mqttPc, mqtt, relayInputs>>
DeliverToFront(m) ==
    /\ newMessage' = TRUE
    /\ mqttReceiveQueue' = IF HasRoom(mqttReceiveQueue, ReceiveQueueLen)
                           THEN <<m>> \o mqttReceiveQueue ELSE mqttReceiveQueue
    /\ UNCHANGED <<mqttPc, mqtt, relayInputs>>

\* MQTT_EVENT_DATA: the message is lost when the queue is full.
Deliver(m) ==
    /\ newMessage' = TRUE
    /\ mqttReceiveQueue' = IF HasRoom(mqttReceiveQueue, ReceiveQueueLen)
                           THEN Append(mqttReceiveQueue, m) ELSE mqttReceiveQueue
    /\ UNCHANGED <<mqttPc, mqtt, relayInputs>>

\* Mutant of TakeMessage: the task waits for MQTT_NEW_MESSAGE, which
\* mqtt_app_start may have cleared.
TakeMessageOnBit ==
    /\ mqttPc = "take"
    /\ newMessage
    /\ mqttReceiveQueue # <<>>
    /\ mqtt' = Head(mqttReceiveQueue)
    /\ mqttReceiveQueue' = Tail(mqttReceiveQueue)
    /\ mqttPc' = "act"
    /\ UNCHANGED <<newMessage, relayInputs>>

TakeMessage ==
    /\ mqttPc = "take"
    /\ mqttReceiveQueue # <<>>
    /\ mqtt' = Head(mqttReceiveQueue)
    /\ mqttReceiveQueue' = Tail(mqttReceiveQueue)
    /\ mqttPc' = "act"
    /\ UNCHANGED <<newMessage, relayInputs>>

\* The end of an iteration.
Done ==
    /\ mqttPc = "act"
    /\ mqttPc' = "take"
    /\ mqtt' = NoMessage
    /\ UNCHANGED <<mqttReceiveQueue, newMessage>>

AnswerPing ==
    /\ Done
    /\ mqtt.topic = "ping"
    /\ IF mqtt.tokens = <<[key |-> "status", value |-> ""]>>
       THEN sendRelayStatusSemaphore' = TRUE ELSE UNCHANGED sendRelayStatusSemaphore
    /\ UNCHANGED <<relayQueue, priceQueue>>

\* A command that names no relay.
RefuseCommand ==
    /\ Done
    /\ mqtt.topic = "command"
    /\ ParseRelaySettings(mqtt.tokens).relayNumber = -1
    /\ UNCHANGED relayInputs

\* Mutants of ForwardCommand: it waits for room for ever; a command that names no
\* relay is sent on.
ForwardCommandWaits ==
    /\ Done
    /\ mqtt.topic = "command"
    /\ HasRoom(relayQueue, RelayQueueLen)
    /\ ParseRelaySettings(mqtt.tokens).relayNumber # -1
    /\ relayQueue' = Append(relayQueue, ParseRelaySettings(mqtt.tokens))
    /\ UNCHANGED <<priceQueue, sendRelayStatusSemaphore>>
ForwardCommandUnchecked ==
    /\ Done
    /\ mqtt.topic = "command"
    /\ relayQueue' = IF HasRoom(relayQueue, RelayQueueLen)
                     THEN Append(relayQueue, ParseRelaySettings(mqtt.tokens)) ELSE relayQueue
    /\ UNCHANGED <<priceQueue, sendRelayStatusSemaphore>>

\* xQueueSend waits up to 100 ticks for room; on a full queue the step is the
\* timeout, and the command is lost.
ForwardCommand ==
    /\ Done
    /\ mqtt.topic = "command"
    /\ LET settings == ParseRelaySettings(mqtt.tokens)
       IN  /\ settings.relayNumber # -1
           /\ relayQueue' = IF HasRoom(relayQueue, RelayQueueLen)
                            THEN Append(relayQueue, settings) ELSE relayQueue
    /\ UNCHANGED <<priceQueue, sendRelayStatusSemaphore>>

ForwardPrice ==
    /\ Done
    /\ mqtt.topic = "price"
    /\ priceQueue' = IF HasRoom(priceQueue, PriceQueueLen)
                     THEN Append(priceQueue, ParsePrice(mqtt.tokens)) ELSE priceQueue
    /\ UNCHANGED <<relayQueue, sendRelayStatusSemaphore>>

IgnoreMessage ==
    /\ Done
    /\ mqtt.topic \notin {"ping", "command", "price"}
    /\ UNCHANGED relayInputs

MqttStep == TakeMessage \/ AnswerPing \/ RefuseCommand \/ ForwardCommand \/ ForwardPrice
                \/ IgnoreMessage

-----------------------------------------------------------------------------
(* The module by itself: the relay task only takes from its queues, and    *)
(* mqtt_app_start clears the bit that tells it a message has come          *)
(* (mqtt.cpp:160-163).                                                     *)

taskVars == <<mqttVars, relayInputs>>

MqttSpecInit ==
    MqttInit /\ relayQueue = <<>> /\ priceQueue = <<>> /\ sendRelayStatusSemaphore = FALSE

RelayTaskTakes ==
    /\ \/ /\ relayQueue # <<>>
          /\ relayQueue' = Tail(relayQueue)
          /\ UNCHANGED <<priceQueue, sendRelayStatusSemaphore>>
       \/ /\ priceQueue # <<>>
          /\ priceQueue' = Tail(priceQueue)
          /\ UNCHANGED <<relayQueue, sendRelayStatusSemaphore>>
       \/ /\ sendRelayStatusSemaphore
          /\ sendRelayStatusSemaphore' = FALSE
          /\ UNCHANGED <<relayQueue, priceQueue>>
    /\ UNCHANGED mqttVars

ClearNewMessage ==
    /\ newMessage
    /\ newMessage' = FALSE
    /\ UNCHANGED <<mqttReceiveQueue, mqttPc, mqtt, relayInputs>>

MqttNext == MqttStep \/ RelayTaskTakes \/ ClearNewMessage \/ \E m \in Inbox : Deliver(m)

\* The scheduler runs the MQTT task again and again; nothing is assumed of the
\* relay task, not even that it goes on.
MqttSpec == MqttSpecInit /\ [][MqttNext]_taskVars /\ WF_taskVars(MqttStep)

-----------------------------------------------------------------------------
(* Properties *)

\* Every variable has its type and no queue exceeds its length.
MqttTypeOK ==
    /\ mqttReceiveQueue \in Seq(Inbox) /\ Len(mqttReceiveQueue) <= ReceiveQueueLen
    /\ newMessage \in BOOLEAN
    /\ mqttPc \in {"take", "act"}
    /\ mqtt \in (IF mqttPc = "act" THEN Inbox ELSE {NoMessage})
    /\ relayQueue \in Seq(RelaySettings) /\ Len(relayQueue) <= RelayQueueLen
    /\ priceQueue \in Seq(Int) /\ Len(priceQueue) <= PriceQueueLen
    /\ sendRelayStatusSemaphore \in BOOLEAN

\* The value of the last token with this key and an acceptable value.
LastValue(tokens, key, acceptable, default) ==
    LET J == {j \in DOMAIN tokens : tokens[j].key = key /\ tokens[j].value \in acceptable}
    IN  IF J = {} THEN default ELSE tokens[Max(J)].value

\* A command means what its last acceptable mention of each setting says, in
\* whatever order the settings come; an unacceptable one neither counts nor wipes
\* out an earlier one (mqttTask.cpp:98-150).
LastMentionCounts ==
    mqttPc = "act" /\ mqtt.topic = "command" =>
        LET s == ParseRelaySettings(mqtt.tokens)
            mode == LastValue(mqtt.tokens, "mode", {"auto", "manual"}, "none")
        IN  /\ s.relayNumber = LastValue(mqtt.tokens, "relay", Int, -1)
            /\ s.state = LastValue(mqtt.tokens, "state", {"on", "off"}, "noStateChange")
            /\ s.mode = CASE mode = "auto" -> "automatic"
                          [] mode = "manual" -> "manual"
                          [] mode = "none" -> "noModeChange"
            /\ s.threshold = LastValue(mqtt.tokens, "threshold", Int, NoThreshold)
            /\ s.price = LastValue(mqtt.tokens, "price", Int, NoPrice)

\* The task is never stuck on a message, whatever happens to the relay task: a
\* send to a full queue gives up (mqttTask.cpp:37, 43).
NeverStuck == mqttPc = "act" ~> mqttPc = "take"

\* A message that found room in mqttReceiveQueue does not stay there for ever,
\* even while new ones keep being lost for want of room (mqttTask.cpp:16).
ReceiveQueueMoves == (mqttReceiveQueue # <<>>) ~> (mqttPc = "act")
=============================================================================
