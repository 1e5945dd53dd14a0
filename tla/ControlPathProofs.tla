-------------------------- MODULE ControlPathProofs --------------------------
(***************************************************************************)
(* The composition implements RelayTask and MqttTask, so every theorem     *)
(* about either task holds in it, for every inbox, every number of relays  *)
(* and every length of the queues.                                         *)
(*                                                                         *)
(* ArrivalOrder, which is about both, is proved here: for each relay, the  *)
(* messages still on their way lead from what the relay task has promised  *)
(* it to what is expected of it (OnTheWay), and those that do not commute  *)
(* are never on the way together (Exclusive).                              *)
(***************************************************************************)
EXTENDS ControlPath, RelayTaskProofs

Parser == INSTANCE MqttTaskProofs       \* MqttTask, as Mqtt is, with what is proved of it

\* What the proof needs of the MQTT task: the message in hand, and those waiting,
\* came from the broker.
FromBroker ==
    /\ mqttReceiveQueue \in Seq(Inbox)
    /\ mqttPc = "act" => mqtt \in Inbox

LEMMA InitFromBroker == PathInit => FromBroker
BY DEF PathInit, FromBroker, Mqtt!MqttInit

LEMMA StepFromBroker == FromBroker /\ [PathNext]_pathVars => FromBroker'
<1> SUFFICES ASSUME FromBroker, [PathNext]_pathVars
             PROVE  FromBroker'
  OBVIOUS
<1>1. ASSUME NEW m \in Inbox, Arrive(m)
      PROVE  FromBroker'
  <2>1. mqttReceiveQueue' \in {mqttReceiveQueue, Append(mqttReceiveQueue, m)}
        /\ UNCHANGED <<mqttPc, mqtt>>
    BY <1>1 DEF Arrive, Mqtt!Deliver
  <2> QED
    BY <2>1 DEF FromBroker
<1>2. CASE MqttTaskStep
  <2>1. CASE Mqtt!TakeMessage
    <3>1. mqttReceiveQueue # <<>> /\ mqtt' = Head(mqttReceiveQueue)
          /\ mqttReceiveQueue' = Tail(mqttReceiveQueue)
      BY <2>1 DEF Mqtt!TakeMessage
    <3> QED
      BY <3>1 DEF FromBroker
  <2>2. CASE Mqtt!Done
    BY <2>2 DEF Mqtt!Done, FromBroker
  <2> QED
    BY <1>2, <2>1, <2>2 DEF MqttTaskStep, Mqtt!MqttStep, Mqtt!AnswerPing, Mqtt!RefuseCommand,
                            Mqtt!ForwardCommand, Mqtt!ForwardPrice, Mqtt!IgnoreMessage
<1>3. CASE RelayTaskStep \/ Drain \/ UNCHANGED pathVars
  BY <1>3 DEF RelayTaskStep, Drain, pathVars, mqttVars, FromBroker
<1> QED
  BY <1>1, <1>2, <1>3 DEF PathNext

\* Towards the relay task, every step of the MQTT task is one of RelayTask's
\* environment, or is not seen.
LEMMA StepOfEnvironment == FromBroker /\ [PathNext]_pathVars => [Next]_vars
<1> SUFFICES ASSUME FromBroker, [PathNext]_pathVars
             PROVE  [Next]_vars
  OBVIOUS
<1> USE DEF inputs, outputs
<1>1. ASSUME NEW m \in Inbox, Arrive(m)
      PROVE  UNCHANGED vars
  BY <1>1 DEF Arrive, Mqtt!Deliver, Mqtt!relayInputs, vars
<1>2. CASE MqttTaskStep
  <2>0. UNCHANGED <<relays, pc, locals, outputs>>
    BY <1>2 DEF MqttTaskStep
  <2>1. CASE Mqtt!TakeMessage \/ Mqtt!RefuseCommand \/ Mqtt!IgnoreMessage
    BY <2>0, <2>1 DEF Mqtt!TakeMessage, Mqtt!RefuseCommand, Mqtt!IgnoreMessage, Mqtt!relayInputs, vars
  <2>2. CASE Mqtt!AnswerPing
    <3>1. CASE mqtt.tokens = <<[key |-> "status", value |-> ""]>>
      <4>1. sendRelayStatusSemaphore' = TRUE
        BY <2>2, <3>1 DEF Mqtt!AnswerPing
      <4> QED
        BY <2>0, <2>2, <4>1 DEF Mqtt!AnswerPing, Next, Environment, RequestStatus
    <3>2. CASE mqtt.tokens # <<[key |-> "status", value |-> ""]>>
      <4>1. UNCHANGED sendRelayStatusSemaphore
        BY <2>2, <3>2 DEF Mqtt!AnswerPing
      <4> QED
        BY <2>0, <2>2, <4>1 DEF Mqtt!AnswerPing, vars
    <3> QED
      BY <3>1, <3>2
  <2>3. CASE Mqtt!ForwardCommand
    <3> DEFINE c == Mqtt!ParseRelaySettings(mqtt.tokens)
    <3>1. c \in Commands
      <4>1. mqtt \in Inbox
        BY <2>3 DEF Mqtt!ForwardCommand, Mqtt!Done, FromBroker
      <4>2. mqtt.topic = "command" /\ c.relayNumber # -1
        BY <2>3 DEF Mqtt!ForwardCommand
      <4> QED
        BY <4>1, <4>2, ParsedAssumption
    <3> HIDE DEF c
    <3>2. \/ relayQueue' = relayQueue
          \/ relayQueue' = Append(relayQueue, c) /\ HasRoom(relayQueue, RelayQueueLen)
      BY <2>3 DEF Mqtt!ForwardCommand, Mqtt!HasRoom, HasRoom, c
    <3>3. UNCHANGED <<priceQueue, sendRelayStatusSemaphore>>
      BY <2>3 DEF Mqtt!ForwardCommand
    <3>4. CASE UNCHANGED relayQueue
      BY <2>0, <3>3, <3>4 DEF vars
    <3>5. CASE relayQueue' = Append(relayQueue, c) /\ HasRoom(relayQueue, RelayQueueLen)
      <4>1. SendCommand(c)
        BY <2>0, <3>3, <3>5 DEF SendCommand
      <4> QED
        BY <3>1, <4>1 DEF Next, Environment
    <3> QED
      BY <3>2, <3>4, <3>5
  <2>4. CASE Mqtt!ForwardPrice
    <3> DEFINE p == Mqtt!ParsePrice(mqtt.tokens)
    <3>1. p \in Prices
      <4>1. mqtt \in Inbox /\ mqtt.topic = "price"
        BY <2>4 DEF Mqtt!ForwardPrice, Mqtt!Done, FromBroker
      <4> QED
        BY <4>1, ParsedAssumption
    <3> HIDE DEF p
    <3>2. \/ priceQueue' = priceQueue
          \/ priceQueue' = Append(priceQueue, p) /\ HasRoom(priceQueue, PriceQueueLen)
      BY <2>4 DEF Mqtt!ForwardPrice, Mqtt!HasRoom, HasRoom, p
    <3>3. UNCHANGED <<relayQueue, sendRelayStatusSemaphore>>
      BY <2>4 DEF Mqtt!ForwardPrice
    <3>4. CASE UNCHANGED priceQueue
      BY <2>0, <3>3, <3>4 DEF vars
    <3>5. CASE priceQueue' = Append(priceQueue, p) /\ HasRoom(priceQueue, PriceQueueLen)
      <4>1. SendPrice(p)
        BY <2>0, <3>3, <3>5 DEF SendPrice
      <4> QED
        BY <3>1, <4>1 DEF Next, Environment
    <3> QED
      BY <3>2, <3>4, <3>5
  <2> QED
    BY <1>2, <2>1, <2>2, <2>3, <2>4 DEF MqttTaskStep, Mqtt!MqttStep
<1>3. CASE RelayTaskStep
  BY <1>3 DEF RelayTaskStep, Next
<1>4. CASE Drain
  BY <1>4 DEF Drain, Next, Environment
<1>5. CASE UNCHANGED pathVars
  BY <1>5 DEF pathVars
<1> QED
  BY <1>1, <1>2, <1>3, <1>4, <1>5 DEF PathNext

\* The MQTT task and the broker are, towards the relay task, an environment as
\* RelayTask assumes it (mqttTask.cpp:16-49).
THEOREM ComposesRelayTask == PathSpec => RelayTaskSpec
<1>1. PathInit => Init
  BY DEF PathInit
<1> QED
  BY <1>1, InitFromBroker, StepFromBroker, StepOfEnvironment, PTL DEF PathSpec, RelayTaskSpec, Spec

\* So, whatever the broker sends and however the two tasks interleave, the relays
\* follow RelayControl, manual relays hold, reports are consistent, and every iteration
\* of the relay task ends.
THEOREM PathKeepsPromises ==
    PathSpec => /\ []AutoFollowsPrice /\ []ReportsFollowPrice
                /\ ManualHolds /\ Refines /\ IterationEnds
BY ComposesRelayTask, AutomaticRelaysFollowPrice, ReportsAreConsistent, ManualRelaysHold,
   ImplementsRelayControl, IterationsEnd
   DEF RelayTaskSpec

-----------------------------------------------------------------------------
(* The MQTT task *)

\* The specification of the MQTT task by itself, but for its fairness.
MqttTaskSpec == Parser!MqttSpecInit /\ [][Parser!MqttNext]_(Parser!taskVars)

\* Mqtt and Parser are two names of one module.
LEMMA SameParser ==
    ASSUME NEW tokens
    PROVE  /\ Parser!ParseRelaySettings(tokens) = Mqtt!ParseRelaySettings(tokens)
           /\ Parser!ParsePrice(tokens) = Mqtt!ParsePrice(tokens)
BY DEF Parser!ParseRelaySettings, Mqtt!ParseRelaySettings, Parser!ParsePrice, Mqtt!ParsePrice,
       Parser!ApplyToken, Mqtt!ApplyToken, Parser!NoThreshold, Mqtt!NoThreshold,
       Parser!NoPrice, Mqtt!NoPrice, Parser!FoldLeft, Mqtt!FoldLeft,
       Parser!MapThenFoldSet, Mqtt!MapThenFoldSet, Parser!Max, Mqtt!Max

\* Towards the MQTT task, the relay task only takes from its queues, and the tasks
\* that drain its outputs are not seen.
LEMMA RelayTaskStepTakes ==
    ASSUME RelayTaskStep
    PROVE  [Parser!MqttNext]_(Parser!taskVars)
<1> USE DEF inputs, outputs, mqttVars, Parser!mqttVars, Parser!relayInputs, Parser!taskVars
<1>0. TaskStep /\ UNCHANGED mqttVars
  BY DEF RelayTaskStep
<1>1. CASE RejectCommand \/ StrayCommand \/ AcceptCommand
  <2>1. /\ relayQueue # <<>> /\ relayQueue' = Tail(relayQueue)
        /\ UNCHANGED <<priceQueue, sendRelayStatusSemaphore>>
    BY <1>1 DEF RejectCommand, StrayCommand, AcceptCommand, TakeCommand
  <2> QED
    BY <1>0, <2>1 DEF Parser!RelayTaskTakes, Parser!MqttNext
<1>2. CASE TakePrice
  <2>1. /\ priceQueue # <<>> /\ priceQueue' = Tail(priceQueue)
        /\ UNCHANGED <<relayQueue, sendRelayStatusSemaphore>>
    BY <1>2 DEF TakePrice
  <2> QED
    BY <1>0, <2>1 DEF Parser!RelayTaskTakes, Parser!MqttNext
<1>3. CASE TakeStatusRequest
  <2>1. /\ sendRelayStatusSemaphore /\ sendRelayStatusSemaphore' = FALSE
        /\ UNCHANGED <<relayQueue, priceQueue>>
    BY <1>3 DEF TakeStatusRequest
  <2> QED
    BY <1>0, <2>1 DEF Parser!RelayTaskTakes, Parser!MqttNext
<1>4. CASE SetThreshold \/ SetPrice \/ SetState \/ SetMode \/ ReportCommand \/ ShowCommand
  BY <1>0, <1>4 DEF SetThreshold, SetPrice, SetState, SetMode, HandleStep, ReportCommand, ShowCommand
<1>5. CASE Announce \/ NoCommandFound \/ PriceTimeout
  BY <1>0, <1>5 DEF Announce, NoCommandFound, PriceTimeout
<1>6. CASE RepriceRelay \/ ReportRepriced \/ ShowRepriced
  BY <1>0, <1>6 DEF RepriceRelay, ReportRepriced, ShowRepriced
<1>7. CASE NoStatusRequest \/ SendStatus
  BY <1>0, <1>7 DEF NoStatusRequest, SendStatus
<1> QED
  BY <1>0, <1>1, <1>2, <1>3, <1>4, <1>5, <1>6, <1>7 DEF TaskStep

LEMMA PathStepOfMqttTask == [PathNext]_pathVars => [Parser!MqttNext]_(Parser!taskVars)
<1> SUFFICES ASSUME [PathNext]_pathVars
             PROVE  [Parser!MqttNext]_(Parser!taskVars)
  OBVIOUS
<1> USE DEF inputs, outputs, mqttVars, Parser!mqttVars, Parser!relayInputs, Parser!taskVars
<1>1. ASSUME NEW m \in Inbox, Arrive(m)
      PROVE  Parser!MqttNext
  <2>1. Parser!Deliver(m)
    BY <1>1 DEF Arrive, Mqtt!Deliver, Parser!Deliver, Mqtt!relayInputs, Mqtt!HasRoom, Parser!HasRoom
  <2> QED
    BY <2>1 DEF Parser!MqttNext
<1>2. CASE MqttTaskStep
  <2>1. Mqtt!MqttStep
    BY <1>2 DEF MqttTaskStep
  <2>2. Parser!MqttStep
    BY <2>1, SameParser
       DEF Mqtt!MqttStep, Mqtt!TakeMessage, Mqtt!Done, Mqtt!AnswerPing, Mqtt!RefuseCommand,
           Mqtt!ForwardCommand, Mqtt!ForwardPrice, Mqtt!IgnoreMessage, Mqtt!relayInputs,
           Mqtt!HasRoom, Mqtt!NoMessage,
           Parser!MqttStep, Parser!TakeMessage, Parser!Done, Parser!AnswerPing, Parser!RefuseCommand,
           Parser!ForwardCommand, Parser!ForwardPrice, Parser!IgnoreMessage, Parser!HasRoom,
           Parser!NoMessage
  <2> QED
    BY <2>2 DEF Parser!MqttNext
<1>3. CASE RelayTaskStep
  BY <1>3, RelayTaskStepTakes
<1>4. CASE Drain
  BY <1>4 DEF Drain, Transmit, Draw
<1>5. CASE UNCHANGED pathVars
  BY <1>5 DEF pathVars, vars
<1> QED
  BY <1>1, <1>2, <1>3, <1>4, <1>5 DEF PathNext

LEMMA InitOfMqttTask == PathInit => Parser!MqttSpecInit
BY DEF PathInit, Init, Mqtt!MqttInit, Parser!MqttSpecInit, Parser!MqttInit, Mqtt!NoMessage, Parser!NoMessage

\* Broker, handler and relay task are, towards the MQTT task, the surroundings that
\* MqttTask assumes (mqtt.cpp:72-81, relayTask.cpp:22-86).
THEOREM ComposesMqttTask == PathSpec => MqttTaskSpec
BY InitOfMqttTask, PathStepOfMqttTask, PTL DEF PathSpec, MqttTaskSpec

LEMMA ParserAssumptions ==
    Parser!InboxAssumption /\ Parser!ReceiveAssumption /\ Parser!NumRelaysAssumption
BY MqttAssumption, NumRelaysAssumption
   DEF Parser!NumRelaysAssumption, Mqtt!InboxAssumption, Parser!InboxAssumption,
       Mqtt!ReceiveAssumption, Parser!ReceiveAssumption

\* So the queues of the MQTT task keep their types on the path, and a command in hand
\* means what its last acceptable mention of each setting says.
THEOREM PathParsesFaithfully == PathSpec => [](Parser!MqttTypeOK /\ Parser!LastMentionCounts)
<1>1. Parser!MqttSpecInit => Parser!MqttTypeOK
  BY Parser!MqttInitType, ParserAssumptions
<1>2. Parser!MqttTypeOK /\ [Parser!MqttNext]_(Parser!taskVars) => Parser!MqttTypeOK'
  BY Parser!MqttStepType, ParserAssumptions
<1>3. Parser!MqttTypeOK => Parser!LastMentionCounts
  BY Parser!TypesMeanLastMention, ParserAssumptions
<1> QED
  BY <1>1, <1>2, <1>3, ComposesMqttTask, PTL DEF MqttTaskSpec

-----------------------------------------------------------------------------
(* Commands and prices that change sides *)

\* What RelayControl makes of a relay, field by field.
LEMMA RepricedIs ==
    ASSUME NEW x \in RelayRecord, NEW p \in Int
    PROVE  /\ Control!Repriced(x, p) \in RelayRecord
           /\ Control!Repriced(x, p).mode = x.mode
           /\ Control!Repriced(x, p).pin = IF x.mode = "automatic" THEN p < x.threshold ELSE x.pin
           /\ Control!Repriced(x, p).price = p
           /\ Control!Repriced(x, p).threshold = x.threshold
<1> DEFINE y == [x EXCEPT !.price = p]
           z == [y EXCEPT !.pin = y.price < y.threshold]
<1>1. /\ y \in RelayRecord /\ y.mode = x.mode /\ y.pin = x.pin
      /\ y.price = p /\ y.threshold = x.threshold
  BY DEF RelayRecord
<1>2. Control!Repriced(x, p) = IF y.mode = "automatic" THEN z ELSE y
  BY DEF Control!Repriced, Control!Follow
<1> HIDE DEF y
<1>3. (y.price < y.threshold) \in BOOLEAN
  BY <1>1 DEF RelayRecord
<1>4. /\ z \in RelayRecord /\ z.mode = y.mode /\ z.pin = (y.price < y.threshold)
      /\ z.price = y.price /\ z.threshold = y.threshold
  BY <1>1, <1>3 DEF RelayRecord
<1> QED
  BY <1>1, <1>2, <1>4

LEMMA CommandedIs ==
    ASSUME NEW x \in RelayRecord, NEW c \in RelaySettings
    PROVE  LET m  == IF c.state # "noStateChange" THEN "manual"
                     ELSE IF c.mode # "noModeChange" THEN c.mode ELSE x.mode
               b  == IF c.state # "noStateChange" THEN c.state = "on" ELSE x.pin
               pr == IF c.price # NoPrice THEN c.price ELSE x.price
               th == IF c.threshold # NoThreshold THEN c.threshold ELSE x.threshold
               y  == Control!Commanded(x, c)
           IN  /\ y \in RelayRecord
               /\ y.mode = m
               /\ y.pin = IF m = "automatic" THEN pr < th ELSE b
               /\ y.price = pr
               /\ y.threshold = th
<1> DEFINE m  == IF c.state # "noStateChange" THEN "manual"
                 ELSE IF c.mode # "noModeChange" THEN c.mode ELSE x.mode
           b  == IF c.state # "noStateChange" THEN c.state = "on" ELSE x.pin
           pr == IF c.price # NoPrice THEN c.price ELSE x.price
           th == IF c.threshold # NoThreshold THEN c.threshold ELSE x.threshold
           d  == [mode |-> m, pin |-> b, price |-> pr, threshold |-> th]
<1>1. m \in Modes
  BY DEF RelayRecord, RelaySettings, RelayMode, Modes
<1>2. b \in BOOLEAN
  BY DEF RelayRecord
<1>3. pr \in Int /\ th \in Int
  BY DEF RelayRecord, RelaySettings
<1>4. Control!Commanded(x, c) = IF d.mode = "automatic" THEN [d EXCEPT !.pin = d.price < d.threshold] ELSE d
  BY DEF Control!Commanded, Control!Follow, NoThreshold, NoPrice, Control!NoThreshold, Control!NoPrice
<1> HIDE DEF m, b, pr, th
<1>5. /\ d.mode = m /\ d.pin = b /\ d.price = pr /\ d.threshold = th
      /\ d \in RelayRecord
  BY <1>1, <1>2, <1>3 DEF RelayRecord
<1>6. (pr < th) \in BOOLEAN
  BY <1>3
<1>7. CASE m = "automatic"
  <2>1. Control!Commanded(x, c) = [mode |-> m, pin |-> pr < th, price |-> pr, threshold |-> th]
    BY <1>4, <1>5, <1>7
  <2> QED
    BY <1>1, <1>3, <1>6, <1>7, <2>1 DEF RelayRecord, m, b, pr, th
<1>8. CASE m # "automatic"
  BY <1>4, <1>5, <1>8 DEF m, b, pr, th
<1> QED
  BY <1>7, <1>8

\* Two relays with the same fields are the same.
LEMMA SameRelay ==
    ASSUME NEW x \in RelayRecord, NEW y \in RelayRecord,
           x.mode = y.mode, x.pin = y.pin, x.price = y.price, x.threshold = y.threshold
    PROVE  x = y
BY DEF RelayRecord

\* What Commutes is for: on either side of a price, such a command gives the same.
LEMMA CommandAndPrice ==
    ASSUME NEW x \in RelayRecord, NEW c \in RelaySettings, Commutes(c), NEW p \in Int
    PROVE  Control!Commanded(Control!Repriced(x, p), c) = Control!Repriced(Control!Commanded(x, c), p)
<1> DEFINE xp == Control!Repriced(x, p)
           xc == Control!Commanded(x, c)
           l  == Control!Commanded(xp, c)
           r  == Control!Repriced(xc, p)
<1>1. /\ xp \in RelayRecord /\ xp.mode = x.mode /\ xp.price = p /\ xp.threshold = x.threshold
      /\ xp.pin = IF x.mode = "automatic" THEN p < x.threshold ELSE x.pin
  BY RepricedIs
<1>2. c.price = NoPrice /\ (c.state # "noStateChange" \/ c.mode # "manual")
      /\ c.mode \in RelayMode
  BY DEF Commutes, RelaySettings
<1>3. /\ xc \in RelayRecord
      /\ xc.mode = IF c.state # "noStateChange" THEN "manual"
                   ELSE IF c.mode # "noModeChange" THEN c.mode ELSE x.mode
      /\ xc.threshold = IF c.threshold # NoThreshold THEN c.threshold ELSE x.threshold
      /\ xc.mode # "automatic" =>
             xc.pin = IF c.state # "noStateChange" THEN c.state = "on" ELSE x.pin
  BY CommandedIs
<1> HIDE DEF xp, xc
<1>4. /\ l \in RelayRecord /\ l.price = p
      /\ l.mode = IF c.state # "noStateChange" THEN "manual"
                  ELSE IF c.mode # "noModeChange" THEN c.mode ELSE xp.mode
      /\ l.threshold = IF c.threshold # NoThreshold THEN c.threshold ELSE xp.threshold
      /\ l.mode = "automatic" => l.pin = (p < l.threshold)
      /\ l.mode # "automatic" =>
             l.pin = IF c.state # "noStateChange" THEN c.state = "on" ELSE xp.pin
  BY <1>1, <1>2, CommandedIs
<1>5. /\ r \in RelayRecord /\ r.price = p /\ r.mode = xc.mode /\ r.threshold = xc.threshold
      /\ r.pin = IF xc.mode = "automatic" THEN p < xc.threshold ELSE xc.pin
  BY <1>3, RepricedIs
<1> HIDE DEF l, r
<1>6. l.mode = r.mode /\ l.threshold = r.threshold /\ l.price = r.price
  BY <1>1, <1>3, <1>4, <1>5
<1>7. l.pin = r.pin
  <2>1. CASE r.mode = "automatic"
    BY <1>4, <1>5, <1>6, <2>1
  <2>2. CASE r.mode # "automatic" /\ c.state # "noStateChange"
    BY <1>3, <1>4, <1>5, <1>6, <2>2
  <2>3. CASE r.mode # "automatic" /\ c.state = "noStateChange"
    <3>1. c.mode = "noModeChange" /\ x.mode # "automatic"
      BY <1>2, <1>3, <1>5, <2>3 DEF RelayMode, Modes
    <3> QED
      BY <1>1, <1>3, <1>4, <1>5, <1>6, <2>3, <3>1
  <2> QED
    BY <2>1, <2>2, <2>3
<1>8. l = r
  BY <1>4, <1>5, <1>6, <1>7, SameRelay
<1> QED
  BY <1>8 DEF l, r, xp, xc

-----------------------------------------------------------------------------
(* What the messages on their way will make of a relay *)

\* Relay x, which has number r, after the command c, and after the message m.
CommandedAt(r, x, c) == IF c.relayNumber = r THEN Control!Commanded(x, c) ELSE x

MessageAt(r, x, m) ==
    IF IsCommand(m) THEN CommandedAt(r, x, Mqtt!ParseRelaySettings(m.tokens))
    ELSE IF IsPrice(m) THEN Control!Repriced(x, Mqtt!ParsePrice(m.tokens)) ELSE x

\* The same for an entry e of one of the three queues.
At(queue, r, x, e) ==
    CASE queue = "relayQueue" -> CommandedAt(r, x, e)
      [] queue = "priceQueue" -> Control!Repriced(x, e)
      [] OTHER                -> MessageAt(r, x, e)

\* f[k] is the relay after the first k entries of q, a value of that queue.
Trace(queue, r, q, f) ==
    /\ f \in [0 .. Len(q) -> RelayRecord]
    /\ \A k \in 1 .. Len(q) : f[k] = At(queue, r, f[k - 1], q[k])

\* The entries of q, one after the other, make y of x.
Leads(queue, r, q, x, y) == \E f : Trace(queue, r, q, f) /\ f[0] = x /\ f[Len(q)] = y

\* No entries lead nowhere.
LEMMA LeadsNowhere ==
    ASSUME NEW queue, NEW r, NEW x, NEW y, Leads(queue, r, <<>>, x, y)
    PROVE  x = y
BY DEF Leads

LEMMA LeadsToItself ==
    ASSUME NEW queue, NEW r, NEW x \in RelayRecord
    PROVE  Leads(queue, r, <<>>, x, x)
<1> DEFINE f == [k \in {0} |-> x]
<1>1. Len(<<>>) = 0 /\ 0 .. 0 = {0} /\ 1 .. 0 = {}
  OBVIOUS
<1>2. f \in [0 .. 0 -> RelayRecord] /\ f[0] = x
  BY <1>1
<1> HIDE DEF f
<1> QED
  BY <1>1, <1>2 DEF Leads, Trace

LEMMA LeadsType ==
    ASSUME NEW S, NEW q \in Seq(S), NEW queue, NEW r, NEW x, NEW y, Leads(queue, r, q, x, y)
    PROVE  x \in RelayRecord /\ y \in RelayRecord
<1>1. 0 \in 0 .. Len(q) /\ Len(q) \in 0 .. Len(q)
  OBVIOUS
<1> QED
  BY <1>1 DEF Leads, Trace

\* An entry more at the end is one more step of the trace.
LEMMA LeadsAppend ==
    ASSUME NEW S, NEW q \in Seq(S), NEW e \in S, NEW queue, NEW r, NEW x, NEW y,
           Leads(queue, r, q, x, y), At(queue, r, y, e) \in RelayRecord
    PROVE  Leads(queue, r, Append(q, e), x, At(queue, r, y, e))
<1>0. PICK f : Trace(queue, r, q, f) /\ f[0] = x /\ f[Len(q)] = y
  BY DEF Leads
<1> DEFINE n == Len(q)
           g == [k \in 0 .. n + 1 |-> IF k = n + 1 THEN At(queue, r, y, e) ELSE f[k]]
<1>1. n \in Nat /\ Len(Append(q, e)) = n + 1
  OBVIOUS
<1>2. g \in [0 .. n + 1 -> RelayRecord]
  BY <1>0, <1>1 DEF Trace
<1>3. ASSUME NEW k \in 1 .. n + 1
      PROVE  g[k] = At(queue, r, g[k - 1], Append(q, e)[k])
  <2>1. CASE k = n + 1
    BY <1>0, <1>1, <2>1
  <2>2. CASE k # n + 1
    <3>1. k \in 1 .. n /\ k - 1 \in 0 .. n /\ Append(q, e)[k] = q[k]
      BY <1>1, <2>2
    <3>2. g[k] = f[k] /\ g[k - 1] = f[k - 1]
      BY <1>1, <3>1
    <3>3. f[k] = At(queue, r, f[k - 1], q[k])
      BY <1>0, <3>1 DEF Trace
    <3> QED
      BY <3>1, <3>2, <3>3
  <2> QED
    BY <2>1, <2>2
<1>4. g[0] = x /\ g[n + 1] = At(queue, r, y, e)
  BY <1>0, <1>1
<1> HIDE DEF g
<1>5. Trace(queue, r, Append(q, e), g)
  BY <1>1, <1>2, <1>3 DEF Trace
<1> QED
  BY <1>1, <1>4, <1>5 DEF Leads

\* The first entry taken is the first step taken off the trace.
LEMMA LeadsTail ==
    ASSUME NEW S, NEW q \in Seq(S), q # <<>>, NEW queue, NEW r, NEW x, NEW y,
           Leads(queue, r, q, x, y)
    PROVE  Leads(queue, r, Tail(q), At(queue, r, x, Head(q)), y)
<1>0. PICK f : Trace(queue, r, q, f) /\ f[0] = x /\ f[Len(q)] = y
  BY DEF Leads
<1> DEFINE n == Len(q)
           g == [k \in 0 .. n - 1 |-> f[k + 1]]
<1>1. n \in Nat /\ n > 0 /\ Len(Tail(q)) = n - 1 /\ q[1] = Head(q)
  OBVIOUS
<1>2. g \in [0 .. n - 1 -> RelayRecord]
  BY <1>0, <1>1 DEF Trace
<1>3. ASSUME NEW k \in 1 .. n - 1
      PROVE  g[k] = At(queue, r, g[k - 1], Tail(q)[k])
  <2>1. k + 1 \in 1 .. n /\ Tail(q)[k] = q[k + 1] /\ (k + 1) - 1 = k
    BY <1>1
  <2>2. g[k] = f[k + 1] /\ g[k - 1] = f[k]
    BY <1>1
  <2>3. f[k + 1] = At(queue, r, f[(k + 1) - 1], q[k + 1])
    BY <1>0, <2>1 DEF Trace
  <2> QED
    BY <2>1, <2>2, <2>3
<1>4. g[0] = f[1] /\ f[1] = At(queue, r, f[0], q[1]) /\ g[n - 1] = f[n]
  <2>1. 1 \in 1 .. n /\ 1 - 1 = 0
    BY <1>1
  <2>2. f[1] = At(queue, r, f[1 - 1], q[1])
    BY <1>0, <2>1 DEF Trace
  <2> QED
    BY <1>1, <2>1, <2>2
<1> HIDE DEF g
<1>5. Trace(queue, r, Tail(q), g)
  BY <1>1, <1>2, <1>3 DEF Trace
<1> QED
  BY <1>0, <1>1, <1>4, <1>5 DEF Leads

\* A price that is carried out before the commands in relayQueue, and not after.
LEMMA PriceOvertakes ==
    ASSUME NEW r, NEW q \in Seq(RelaySettings), NEW x, NEW y, Leads("relayQueue", r, q, x, y),
           NEW p \in Int, \A k \in 1 .. Len(q) : q[k].relayNumber = r => Commutes(q[k])
    PROVE  Leads("relayQueue", r, q, Control!Repriced(x, p), Control!Repriced(y, p))
<1>0. PICK f : Trace("relayQueue", r, q, f) /\ f[0] = x /\ f[Len(q)] = y
  BY DEF Leads
<1> DEFINE n == Len(q)
           g == [k \in 0 .. n |-> Control!Repriced(f[k], p)]
<1>1. n \in Nat /\ \A k \in 0 .. n : f[k] \in RelayRecord
  BY <1>0 DEF Trace
<1>2. g \in [0 .. n -> RelayRecord]
  BY <1>1, RepricedIs
<1>3. ASSUME NEW k \in 1 .. n
      PROVE  g[k] = At("relayQueue", r, g[k - 1], q[k])
  <2>1. k - 1 \in 0 .. n /\ k \in 0 .. n /\ q[k] \in RelaySettings
    BY <1>1
  <2>2. f[k] = CommandedAt(r, f[k - 1], q[k])
    BY <1>0 DEF Trace, At
  <2>3. Control!Repriced(CommandedAt(r, f[k - 1], q[k]), p)
            = CommandedAt(r, Control!Repriced(f[k - 1], p), q[k])
    BY <1>1, <2>1, CommandAndPrice DEF CommandedAt
  <2> QED
    BY <2>1, <2>2, <2>3 DEF At
<1>4. g[0] = Control!Repriced(x, p) /\ g[n] = Control!Repriced(y, p)
  BY <1>0, <1>1
<1> HIDE DEF g
<1>5. Trace("relayQueue", r, q, g)
  BY <1>2, <1>3 DEF Trace
<1> QED
  BY <1>4, <1>5 DEF Leads

\* A command that is carried out before the prices in priceQueue, and not after.
LEMMA CommandOvertakes ==
    ASSUME NEW r, NEW q \in Seq(Int), NEW x, NEW y, Leads("priceQueue", r, q, x, y),
           NEW c \in RelaySettings, q # <<>> /\ c.relayNumber = r => Commutes(c)
    PROVE  Leads("priceQueue", r, q, CommandedAt(r, x, c), CommandedAt(r, y, c))
<1>0. PICK f : Trace("priceQueue", r, q, f) /\ f[0] = x /\ f[Len(q)] = y
  BY DEF Leads
<1> DEFINE n == Len(q)
           g == [k \in 0 .. n |-> CommandedAt(r, f[k], c)]
<1>1. n \in Nat /\ \A k \in 0 .. n : f[k] \in RelayRecord
  BY <1>0 DEF Trace
<1>2. g \in [0 .. n -> RelayRecord]
  BY <1>1, CommandedIs DEF CommandedAt
<1>3. ASSUME NEW k \in 1 .. n
      PROVE  g[k] = At("priceQueue", r, g[k - 1], q[k])
  <2>1. k - 1 \in 0 .. n /\ k \in 0 .. n /\ q[k] \in Int /\ q # <<>>
    BY <1>1
  <2>2. f[k] = Control!Repriced(f[k - 1], q[k])
    BY <1>0 DEF Trace, At
  <2>3. CommandedAt(r, Control!Repriced(f[k - 1], q[k]), c)
            = Control!Repriced(CommandedAt(r, f[k - 1], c), q[k])
    BY <1>1, <2>1, CommandAndPrice DEF CommandedAt
  <2> QED
    BY <2>1, <2>2, <2>3 DEF At
<1>4. g[0] = CommandedAt(r, x, c) /\ g[n] = CommandedAt(r, y, c)
  BY <1>0, <1>1
<1> HIDE DEF g
<1>5. Trace("priceQueue", r, q, g)
  BY <1>2, <1>3 DEF Trace
<1> QED
  BY <1>4, <1>5 DEF Leads

-----------------------------------------------------------------------------
(* The invariant *)

\* The relay as the relay task has promised it becomes the relay expected when the
\* commands queued for the task, then the prices, then the message in hand, then
\* those that wait for it are carried out.
OnTheWay(r) ==
    \E y, z :
        /\ Leads("relayQueue", r, relayQueue, Promised(r), y)
        /\ Leads("priceQueue", r, priceQueue, y, z)
        /\ Leads("mqttReceiveQueue", r, mqttReceiveQueue, MessageAt(r, z, mqtt), expected[r])

\* No price is on its way together with a command that does not commute with it.
Exclusive == PriceOnTheWay => \A c \in CommandsOnTheWay : c.relayNumber \in Relays => Commutes(c)

OrderInv ==
    /\ mqttPc \in {"take", "act"} /\ (mqttPc = "take" => mqtt = Mqtt!NoMessage)
    /\ expected \in [Relays -> RelayRecord]
    /\ disturbed \in BOOLEAN
    /\ ~disturbed => Exclusive /\ \A r \in Relays : OnTheWay(r)

\* The types the proof needs.
PathTypes == TypeOK /\ IndexAtRest /\ FromBroker

\* A sequence over S is one over every larger set.
LEMMA SeqOfMore ==
    ASSUME NEW S, NEW T, S \subseteq T, NEW q \in Seq(S)
    PROVE  q \in Seq(T)
<1>1. Len(q) \in Nat /\ q = [k \in 1 .. Len(q) |-> q[k]] /\ \A k \in 1 .. Len(q) : q[k] \in T
  OBVIOUS
<1> QED
  BY <1>1

LEMMA QueueEntries ==
    ASSUME PathTypes
    PROVE  relayQueue \in Seq(RelaySettings) /\ priceQueue \in Seq(Int) /\ mqttReceiveQueue \in Seq(Inbox)
<1>1. relayQueue \in Seq(Commands) /\ priceQueue \in Seq(Prices) /\ mqttReceiveQueue \in Seq(Inbox)
  BY DEF PathTypes, TypeOK, FromBroker
<1> QED
  BY <1>1, CommandsAssumption, SeqOfMore

LEMMA InboxParsed ==
    ASSUME NEW m \in Inbox
    PROVE  /\ IsCommand(m) => Mqtt!ParseRelaySettings(m.tokens) \in RelaySettings
           /\ IsPrice(m) => Mqtt!ParsePrice(m.tokens) \in Int
<1>1. -1 \notin Relays
  BY DEF Relays
<1>2. IsCommand(m) => m.topic = "command" /\ Mqtt!ParseRelaySettings(m.tokens).relayNumber # -1
  BY <1>1 DEF IsCommand
<1> QED
  BY <1>2, ParsedAssumption, CommandsAssumption DEF IsPrice

LEMMA MessageAtType ==
    ASSUME NEW r, NEW x \in RelayRecord, NEW m \in Inbox
    PROVE  MessageAt(r, x, m) \in RelayRecord
BY InboxParsed, CommandedIs, RepricedIs DEF MessageAt, CommandedAt

\* No message, and any but a command for a relay or a price, does nothing.
LEMMA MessageAtNone ==
    ASSUME NEW r, NEW x, NEW m, ~IsCommand(m), ~IsPrice(m)
    PROVE  MessageAt(r, x, m) = x
BY DEF MessageAt

LEMMA NoMessageIsNone == ~IsCommand(Mqtt!NoMessage) /\ ~IsPrice(Mqtt!NoMessage)
BY DEF IsCommand, IsPrice, Mqtt!NoMessage

-----------------------------------------------------------------------------
(* What each step does to OnTheWay *)

LEMMA KeepsOnTheWay ==
    ASSUME NEW r \in Relays, OnTheWay(r), Promised(r)' = Promised(r),
           UNCHANGED <<relayQueue, priceQueue, mqttReceiveQueue, expected>>,
           \A x : MessageAt(r, x, mqtt') = MessageAt(r, x, mqtt)
    PROVE  OnTheWay(r)'
<1>1. PICK y, z : /\ Leads("relayQueue", r, relayQueue, Promised(r), y)
                  /\ Leads("priceQueue", r, priceQueue, y, z)
                  /\ Leads("mqttReceiveQueue", r, mqttReceiveQueue, MessageAt(r, z, mqtt), expected[r])
  BY DEF OnTheWay
<1>2. MessageAt(r, z, mqtt') = MessageAt(r, z, mqtt)
  OBVIOUS
<1> QED
  BY <1>1, <1>2 DEF OnTheWay

\* A message queued by the handler is expected at once.
LEMMA ArriveOnTheWay ==
    ASSUME PathTypes, OrderInv, NEW r \in Relays, OnTheWay(r), NEW m \in Inbox,
           mqttReceiveQueue' = Append(mqttReceiveQueue, m),
           expected'[r] = MessageAt(r, expected[r], m),
           Promised(r)' = Promised(r), UNCHANGED <<relayQueue, priceQueue, mqtt>>
    PROVE  OnTheWay(r)'
<1>1. PICK y, z : /\ Leads("relayQueue", r, relayQueue, Promised(r), y)
                  /\ Leads("priceQueue", r, priceQueue, y, z)
                  /\ Leads("mqttReceiveQueue", r, mqttReceiveQueue, MessageAt(r, z, mqtt), expected[r])
  BY DEF OnTheWay
<1>2. At("mqttReceiveQueue", r, expected[r], m) = MessageAt(r, expected[r], m)
  BY DEF At
<1>3. MessageAt(r, expected[r], m) \in RelayRecord
  BY MessageAtType DEF OrderInv
<1>4. Leads("mqttReceiveQueue", r, mqttReceiveQueue', MessageAt(r, z, mqtt), expected'[r])
  BY <1>1, <1>2, <1>3, QueueEntries, LeadsAppend
<1> QED
  BY <1>1, <1>4 DEF OnTheWay

\* The MQTT task takes a message in hand.
LEMMA TakeMessageOnTheWay ==
    ASSUME PathTypes, OrderInv, NEW r \in Relays, OnTheWay(r), Mqtt!TakeMessage,
           Promised(r)' = Promised(r), UNCHANGED expected
    PROVE  OnTheWay(r)'
<1>1. PICK y, z : /\ Leads("relayQueue", r, relayQueue, Promised(r), y)
                  /\ Leads("priceQueue", r, priceQueue, y, z)
                  /\ Leads("mqttReceiveQueue", r, mqttReceiveQueue, MessageAt(r, z, mqtt), expected[r])
  BY DEF OnTheWay
<1>2. /\ mqttReceiveQueue # <<>> /\ mqttReceiveQueue' = Tail(mqttReceiveQueue)
      /\ mqtt' = Head(mqttReceiveQueue) /\ mqtt = Mqtt!NoMessage
      /\ UNCHANGED <<relayQueue, priceQueue>>
  BY DEF Mqtt!TakeMessage, Mqtt!relayInputs, OrderInv
<1>3. MessageAt(r, z, mqtt) = z
  BY <1>2, NoMessageIsNone, MessageAtNone
<1>4. Leads("mqttReceiveQueue", r, mqttReceiveQueue', MessageAt(r, z, mqtt'), expected[r])
  BY <1>1, <1>2, <1>3, QueueEntries, LeadsTail DEF At
<1> QED
  BY <1>1, <1>2, <1>4 DEF OnTheWay

\* The MQTT task forwards a command, past the prices that wait.
LEMMA ForwardCommandOnTheWay ==
    ASSUME PathTypes, OrderInv, Exclusive, NEW r \in Relays, OnTheWay(r), Mqtt!ForwardCommand,
           relayQueue' = Append(relayQueue, Mqtt!ParseRelaySettings(mqtt.tokens)),
           Promised(r)' = Promised(r), UNCHANGED expected
    PROVE  OnTheWay(r)'
<1>1. PICK y, z : /\ Leads("relayQueue", r, relayQueue, Promised(r), y)
                  /\ Leads("priceQueue", r, priceQueue, y, z)
                  /\ Leads("mqttReceiveQueue", r, mqttReceiveQueue, MessageAt(r, z, mqtt), expected[r])
  BY DEF OnTheWay
<1>2. /\ mqtt \in Inbox /\ mqtt.topic = "command"
      /\ Mqtt!ParseRelaySettings(mqtt.tokens).relayNumber # -1
      /\ mqtt' = Mqtt!NoMessage /\ UNCHANGED <<priceQueue, mqttReceiveQueue>>
  BY DEF Mqtt!ForwardCommand, Mqtt!Done, PathTypes, FromBroker
<1>3. PICK c \in RelaySettings : c = Mqtt!ParseRelaySettings(mqtt.tokens)
  BY <1>2, ParsedAssumption, CommandsAssumption
<1>4. IsCommand(mqtt) <=> c.relayNumber \in Relays
  BY <1>2, <1>3 DEF IsCommand
<1>5. MessageAt(r, z, mqtt) = CommandedAt(r, z, c)
  BY <1>2, <1>3, <1>4 DEF MessageAt, CommandedAt, IsPrice
<1>6. priceQueue # <<>> /\ c.relayNumber = r => Commutes(c)
  BY <1>3, <1>4 DEF Exclusive, PriceOnTheWay, CommandsOnTheWay
<1>7. At("relayQueue", r, y, c) = CommandedAt(r, y, c) /\ CommandedAt(r, y, c) \in RelayRecord
  <2>1. y \in RelayRecord
    BY <1>1, QueueEntries, LeadsType
  <2> QED
    BY <2>1, CommandedIs DEF At, CommandedAt
<1>8. Leads("relayQueue", r, relayQueue', Promised(r), CommandedAt(r, y, c))
  BY <1>1, <1>3, <1>7, QueueEntries, LeadsAppend
<1>9. Leads("priceQueue", r, priceQueue, CommandedAt(r, y, c), CommandedAt(r, z, c))
  BY <1>1, <1>6, QueueEntries, CommandOvertakes
<1>10. MessageAt(r, CommandedAt(r, z, c), mqtt') = MessageAt(r, z, mqtt)
  BY <1>2, <1>5, NoMessageIsNone, MessageAtNone
<1> QED
  BY <1>1, <1>2, <1>8, <1>9, <1>10 DEF OnTheWay

\* It forwards a price.
LEMMA ForwardPriceOnTheWay ==
    ASSUME PathTypes, OrderInv, NEW r \in Relays, OnTheWay(r), Mqtt!ForwardPrice,
           priceQueue' = Append(priceQueue, Mqtt!ParsePrice(mqtt.tokens)),
           Promised(r)' = Promised(r), UNCHANGED expected
    PROVE  OnTheWay(r)'
<1>1. PICK y, z : /\ Leads("relayQueue", r, relayQueue, Promised(r), y)
                  /\ Leads("priceQueue", r, priceQueue, y, z)
                  /\ Leads("mqttReceiveQueue", r, mqttReceiveQueue, MessageAt(r, z, mqtt), expected[r])
  BY DEF OnTheWay
<1>2. /\ mqtt \in Inbox /\ mqtt.topic = "price"
      /\ mqtt' = Mqtt!NoMessage /\ UNCHANGED <<relayQueue, mqttReceiveQueue>>
  BY DEF Mqtt!ForwardPrice, Mqtt!Done, PathTypes, FromBroker
<1>3. PICK p \in Int : p = Mqtt!ParsePrice(mqtt.tokens)
  BY <1>2, ParsedAssumption, CommandsAssumption
<1>4. MessageAt(r, z, mqtt) = Control!Repriced(z, p)
  BY <1>2, <1>3 DEF MessageAt, IsCommand, IsPrice
<1>5. At("priceQueue", r, z, p) = Control!Repriced(z, p) /\ Control!Repriced(z, p) \in RelayRecord
  <2>1. z \in RelayRecord
    BY <1>1, QueueEntries, LeadsType
  <2> QED
    BY <2>1, RepricedIs DEF At
<1>6. Leads("priceQueue", r, priceQueue', y, Control!Repriced(z, p))
  BY <1>1, <1>3, <1>5, QueueEntries, LeadsAppend
<1>7. MessageAt(r, Control!Repriced(z, p), mqtt') = MessageAt(r, z, mqtt)
  BY <1>2, <1>4, NoMessageIsNone, MessageAtNone
<1> QED
  BY <1>1, <1>2, <1>6, <1>7 DEF OnTheWay

\* The relay task takes a command: accepted, it is promised; else it names no relay.
LEMMA TakeCommandOnTheWay ==
    ASSUME PathTypes, NEW r \in Relays, OnTheWay(r), TakeCommand,
           Promised(r)' = CommandedAt(r, Promised(r), Head(relayQueue)),
           UNCHANGED <<mqttVars, history>>
    PROVE  OnTheWay(r)'
<1>1. PICK y, z : /\ Leads("relayQueue", r, relayQueue, Promised(r), y)
                  /\ Leads("priceQueue", r, priceQueue, y, z)
                  /\ Leads("mqttReceiveQueue", r, mqttReceiveQueue, MessageAt(r, z, mqtt), expected[r])
  BY DEF OnTheWay
<1>2. /\ relayQueue # <<>> /\ relayQueue' = Tail(relayQueue)
      /\ UNCHANGED <<priceQueue, mqttReceiveQueue, mqtt, expected>>
  BY DEF TakeCommand, mqttVars, history
<1>3. Leads("relayQueue", r, relayQueue', Promised(r)', y)
  BY <1>1, <1>2, QueueEntries, LeadsTail DEF At
<1> QED
  BY <1>1, <1>2, <1>3 DEF OnTheWay

\* It takes a price, past the commands that wait.
LEMMA TakePriceOnTheWay ==
    ASSUME PathTypes, Exclusive, NEW r \in Relays, OnTheWay(r), TakePrice,
           UNCHANGED <<mqttVars, history>>
    PROVE  OnTheWay(r)'
<1>1. PICK y, z : /\ Leads("relayQueue", r, relayQueue, Promised(r), y)
                  /\ Leads("priceQueue", r, priceQueue, y, z)
                  /\ Leads("mqttReceiveQueue", r, mqttReceiveQueue, MessageAt(r, z, mqtt), expected[r])
  BY DEF OnTheWay
<1>2. /\ priceQueue # <<>> /\ priceQueue' = Tail(priceQueue)
      /\ UNCHANGED <<relayQueue, mqttReceiveQueue, mqtt, expected>>
  BY DEF TakePrice, mqttVars, history
<1>3. PICK p \in Int : p = Head(priceQueue)
  BY TakePriceSeen, CommandsAssumption DEF PathTypes
<1>4. Promised(r)' = Control!Repriced(Promised(r), p)
  BY <1>3, TakePriceSeen DEF PathTypes
<1>5. \A k \in 1 .. Len(relayQueue) : relayQueue[k].relayNumber = r => Commutes(relayQueue[k])
  BY <1>2 DEF Exclusive, PriceOnTheWay, CommandsOnTheWay
<1>6. Leads("relayQueue", r, relayQueue, Promised(r)', Control!Repriced(y, p))
  BY <1>1, <1>4, <1>5, QueueEntries, PriceOvertakes
<1>7. Leads("priceQueue", r, priceQueue', Control!Repriced(y, p), z)
  BY <1>1, <1>2, <1>3, QueueEntries, LeadsTail DEF At
<1> QED
  BY <1>1, <1>2, <1>6, <1>7 DEF OnTheWay

-----------------------------------------------------------------------------
(* What each step does to Exclusive *)

Entries(q) == {q[k] : k \in 1 .. Len(q)}

LEMMA EntriesAppend ==
    ASSUME NEW S, NEW q \in Seq(S), NEW e \in S
    PROVE  Entries(Append(q, e)) = Entries(q) \cup {e}
<1> DEFINE n == Len(q)
           s == Append(q, e)
<1>1. n \in Nat /\ Len(s) = n + 1 /\ s[n + 1] = e /\ \A k \in 1 .. n : s[k] = q[k]
  OBVIOUS
<1> HIDE DEF s
<1>2. \A k \in 1 .. n + 1 : k \in 1 .. n \/ k = n + 1
  BY <1>1
<1>3. n + 1 \in 1 .. n + 1 /\ \A k \in 1 .. n : k \in 1 .. n + 1
  BY <1>1
<1>4. Entries(s) \subseteq Entries(q) \cup {e}
  BY <1>1, <1>2 DEF Entries
<1>5. Entries(q) \cup {e} \subseteq Entries(s)
  BY <1>1, <1>3 DEF Entries
<1> QED
  BY <1>4, <1>5 DEF s

LEMMA EntriesTail ==
    ASSUME NEW S, NEW q \in Seq(S), q # <<>>
    PROVE  Head(q) \in Entries(q) /\ Entries(Tail(q)) \subseteq Entries(q)
<1>1. /\ Len(q) \in Nat /\ Len(q) > 0 /\ Head(q) = q[1] /\ Len(Tail(q)) = Len(q) - 1
      /\ \A k \in 1 .. Len(q) - 1 : Tail(q)[k] = q[k + 1] /\ k + 1 \in 1 .. Len(q)
  OBVIOUS
<1>2. 1 \in 1 .. Len(q)
  BY <1>1
<1> QED
  BY <1>1, <1>2 DEF Entries

Waiting(c) == \E m \in Entries(mqttReceiveQueue) : IsCommand(m) /\ c = Mqtt!ParseRelaySettings(m.tokens)
InHand(c) == IsCommand(mqtt) /\ c = Mqtt!ParseRelaySettings(mqtt.tokens)

LEMMA WhatIsOnTheWay ==
    /\ \A c : c \in CommandsOnTheWay <=> Waiting(c) \/ InHand(c) \/ c \in Entries(relayQueue)
    /\ PriceOnTheWay <=> \/ \E m \in Entries(mqttReceiveQueue) : IsPrice(m)
                         \/ IsPrice(mqtt)
                         \/ priceQueue # <<>>
<1>1. \A c : c \in CommandsOnTheWay <=> Waiting(c) \/ InHand(c) \/ c \in Entries(relayQueue)
  BY DEF CommandsOnTheWay, Waiting, InHand, Entries
<1> QED
  BY <1>1 DEF PriceOnTheWay, Entries

LEMMA WhatIsOnTheWayNext ==
    /\ \A c : c \in CommandsOnTheWay' <=> Waiting(c)' \/ InHand(c)' \/ c \in Entries(relayQueue')
    /\ PriceOnTheWay' <=> \/ \E m \in Entries(mqttReceiveQueue') : IsPrice(m)
                          \/ IsPrice(mqtt')
                          \/ priceQueue' # <<>>
<1>1. \A c : c \in CommandsOnTheWay' <=> Waiting(c)' \/ InHand(c)' \/ c \in Entries(relayQueue')
  BY DEF CommandsOnTheWay, Waiting, InHand, Entries
<1> QED
  BY <1>1 DEF PriceOnTheWay, Entries

\* A step that puts nothing more on the way.
LEMMA FewerOnTheWay ==
    ASSUME Exclusive, PriceOnTheWay' => PriceOnTheWay,
           \A c \in CommandsOnTheWay' : c.relayNumber \in Relays => c \in CommandsOnTheWay
    PROVE  Exclusive'
BY DEF Exclusive

LEMMA ArriveExclusive ==
    ASSUME PathTypes, Exclusive, NEW m \in Inbox, Arrive(m), ~disturbed'
    PROVE  Exclusive'
<1>1. UNCHANGED <<mqtt, relayQueue, priceQueue>>
  BY DEF Arrive, Mqtt!Deliver, Mqtt!relayInputs
<1>2. CASE mqttReceiveQueue' = mqttReceiveQueue
  BY <1>1, <1>2, WhatIsOnTheWay, WhatIsOnTheWayNext, FewerOnTheWay DEF Waiting, InHand
<1>3. CASE mqttReceiveQueue' # mqttReceiveQueue
  <2>1. mqttReceiveQueue' = Append(mqttReceiveQueue, m)
    BY <1>3 DEF Arrive, Mqtt!Deliver
  <2>2. Entries(mqttReceiveQueue') = Entries(mqttReceiveQueue) \cup {m}
    BY <2>1, QueueEntries, EntriesAppend
  <2> DEFINE c0 == Mqtt!ParseRelaySettings(m.tokens)
  <2>3. /\ ~(IsCommand(m) /\ ~Commutes(c0) /\ PriceOnTheWay)
        /\ ~(IsPrice(m) /\ \E d \in CommandsOnTheWay : ~Commutes(d))
    BY <1>3 DEF Arrive
  <2>4. ~(IsCommand(m) /\ IsPrice(m))
    BY DEF IsCommand, IsPrice
  <2>5. PriceOnTheWay' => PriceOnTheWay \/ IsPrice(m)
    BY <1>1, <2>2, WhatIsOnTheWay, WhatIsOnTheWayNext
  <2>6. \A c \in CommandsOnTheWay' : c \in CommandsOnTheWay \/ (IsCommand(m) /\ c = c0)
    <3>1. \A c : Waiting(c)' => Waiting(c) \/ (IsCommand(m) /\ c = c0)
      BY <2>2 DEF Waiting
    <3>2. \A c : InHand(c)' => InHand(c)
      BY <1>1 DEF InHand
    <3> HIDE DEF c0
    <3> QED
      BY <1>1, <3>1, <3>2, WhatIsOnTheWay, WhatIsOnTheWayNext
  <2> QED
    BY <2>3, <2>4, <2>5, <2>6 DEF Exclusive
<1> QED
  BY <1>2, <1>3

LEMMA MqttStepExclusive ==
    ASSUME PathTypes, Exclusive, Mqtt!MqttStep
    PROVE  Exclusive'
<1>1. CASE Mqtt!TakeMessage
  <2>1. /\ Head(mqttReceiveQueue) \in Entries(mqttReceiveQueue)
        /\ Entries(mqttReceiveQueue') \subseteq Entries(mqttReceiveQueue)
        /\ mqtt' = Head(mqttReceiveQueue) /\ UNCHANGED <<relayQueue, priceQueue>>
    BY <1>1, QueueEntries, EntriesTail DEF Mqtt!TakeMessage, Mqtt!relayInputs
  <2>2. \A c \in CommandsOnTheWay' : c \in CommandsOnTheWay
    <3>1. \A c : Waiting(c)' => Waiting(c)
      BY <2>1 DEF Waiting
    <3>2. \A c : InHand(c)' => Waiting(c)
      BY <2>1 DEF Waiting, InHand
    <3> QED
      BY <2>1, <3>1, <3>2, WhatIsOnTheWay, WhatIsOnTheWayNext
  <2>3. PriceOnTheWay' => PriceOnTheWay
    BY <2>1, WhatIsOnTheWay, WhatIsOnTheWayNext
  <2> QED
    BY <2>2, <2>3, FewerOnTheWay
<1>2. CASE Mqtt!AnswerPing \/ Mqtt!RefuseCommand \/ Mqtt!IgnoreMessage
           \/ Mqtt!ForwardCommand \/ Mqtt!ForwardPrice
  <2>1. mqtt \in Inbox /\ mqtt' = Mqtt!NoMessage /\ UNCHANGED mqttReceiveQueue
    BY <1>2 DEF Mqtt!AnswerPing, Mqtt!RefuseCommand, Mqtt!IgnoreMessage, Mqtt!ForwardCommand,
                Mqtt!ForwardPrice, Mqtt!Done, PathTypes, FromBroker
  <2>2. ~IsCommand(mqtt') /\ ~IsPrice(mqtt')
    BY <2>1, NoMessageIsNone
  <2> DEFINE c0 == Mqtt!ParseRelaySettings(mqtt.tokens)
  <2>3. Entries(relayQueue') \subseteq Entries(relayQueue)
                                 \cup (IF mqtt.topic = "command" THEN {c0} ELSE {})
    <3>1. CASE relayQueue' = relayQueue
      BY <3>1
    <3>2. CASE relayQueue' # relayQueue
      <4>1. /\ mqtt.topic = "command" /\ c0.relayNumber # -1
            /\ relayQueue' = Append(relayQueue, c0)
        BY <1>2, <3>2 DEF Mqtt!AnswerPing, Mqtt!RefuseCommand, Mqtt!IgnoreMessage,
                          Mqtt!ForwardCommand, Mqtt!ForwardPrice, Mqtt!relayInputs
      <4>2. c0 \in RelaySettings
        BY <2>1, <4>1, ParsedAssumption, CommandsAssumption
      <4> QED
        BY <4>1, <4>2, QueueEntries, EntriesAppend
    <3> QED
      BY <3>1, <3>2
  <2>4. priceQueue' # <<>> => priceQueue # <<>> \/ IsPrice(mqtt)
    BY <1>2 DEF Mqtt!AnswerPing, Mqtt!RefuseCommand, Mqtt!IgnoreMessage, Mqtt!ForwardCommand,
                Mqtt!ForwardPrice, Mqtt!relayInputs, IsPrice
  <2>5. \A c \in CommandsOnTheWay' : c.relayNumber \in Relays => c \in CommandsOnTheWay
    <3>1. mqtt.topic = "command" /\ c0.relayNumber \in Relays => InHand(c0)
      BY DEF InHand, IsCommand
    <3> HIDE DEF c0
    <3>2. ASSUME NEW c \in CommandsOnTheWay', c.relayNumber \in Relays
          PROVE  c \in CommandsOnTheWay
      <4>1. Waiting(c) \/ c \in Entries(relayQueue')
        BY <2>1, <2>2, <3>2, WhatIsOnTheWayNext DEF Waiting, InHand
      <4>2. Waiting(c) \/ InHand(c) \/ c \in Entries(relayQueue)
        BY <2>3, <3>1, <3>2, <4>1
      <4> QED
        BY <4>2, WhatIsOnTheWay
    <3> QED
      BY <3>2
  <2>6. PriceOnTheWay' => PriceOnTheWay
    BY <2>1, <2>2, <2>4, WhatIsOnTheWay, WhatIsOnTheWayNext
  <2> QED
    BY <2>5, <2>6, FewerOnTheWay
<1> QED
  BY <1>1, <1>2 DEF Mqtt!MqttStep

\* The relay task takes from its queues, and puts nothing into them.
LEMMA TaskStepTakes ==
    ASSUME TaskStep
    PROVE  /\ \/ relayQueue' = relayQueue
              \/ /\ RejectCommand \/ StrayCommand \/ AcceptCommand
                 /\ relayQueue # <<>> /\ relayQueue' = Tail(relayQueue)
           /\ \/ priceQueue' = priceQueue
              \/ TakePrice /\ priceQueue # <<>> /\ priceQueue' = Tail(priceQueue)
<1> USE DEF inputs, outputs
<1>1. CASE RejectCommand \/ StrayCommand \/ AcceptCommand
  BY <1>1 DEF RejectCommand, StrayCommand, AcceptCommand, TakeCommand
<1>2. CASE SetThreshold \/ SetPrice \/ SetState \/ SetMode \/ ReportCommand \/ ShowCommand
  BY <1>2 DEF SetThreshold, SetPrice, SetState, SetMode, HandleStep, ReportCommand, ShowCommand
<1>3. CASE Announce \/ NoCommandFound \/ TakePrice \/ PriceTimeout
  BY <1>3 DEF Announce, NoCommandFound, TakePrice, PriceTimeout
<1>4. CASE RepriceRelay \/ ReportRepriced \/ ShowRepriced
  BY <1>4 DEF RepriceRelay, ReportRepriced, ShowRepriced
<1>5. CASE TakeStatusRequest \/ NoStatusRequest \/ SendStatus
  BY <1>5 DEF TakeStatusRequest, NoStatusRequest, SendStatus
<1> QED
  BY <1>1, <1>2, <1>3, <1>4, <1>5 DEF TaskStep

LEMMA TaskStepExclusive ==
    ASSUME PathTypes, Exclusive, TaskStep, UNCHANGED mqttVars
    PROVE  Exclusive'
<1>1. UNCHANGED <<mqttReceiveQueue, mqtt>>
  BY DEF mqttVars
<1>2. Entries(relayQueue') \subseteq Entries(relayQueue)
  BY TaskStepTakes, QueueEntries, EntriesTail
<1>3. priceQueue' # <<>> => priceQueue # <<>>
  BY TaskStepTakes
<1>4. \A c \in CommandsOnTheWay' : c \in CommandsOnTheWay
  BY <1>1, <1>2, WhatIsOnTheWay, WhatIsOnTheWayNext DEF Waiting, InHand
<1>5. PriceOnTheWay' => PriceOnTheWay
  BY <1>1, <1>3, WhatIsOnTheWay, WhatIsOnTheWayNext
<1> QED
  BY <1>4, <1>5, FewerOnTheWay

-----------------------------------------------------------------------------
(* The invariant is one *)

\* What RelayControl sees of a relay depends on the relay task alone.
LEMMA PromiseKept ==
    ASSUME UNCHANGED <<relays, pc, locals>>, NEW r \in Relays
    PROVE  Promised(r)' = Promised(r)
BY DEF Promised, StillToReprice, AfterThreshold, AfterPrice, AfterState, locals

LEMMA InitOrder == PathInit => OrderInv
<1> SUFFICES ASSUME PathInit PROVE OrderInv
  OBVIOUS
<1>1. /\ Init /\ mqttReceiveQueue = <<>> /\ mqttPc = "take" /\ mqtt = Mqtt!NoMessage
      /\ relayQueue = <<>> /\ priceQueue = <<>> /\ expected = relays /\ disturbed = FALSE
      /\ pc = "announce"
  BY DEF PathInit, Init, Mqtt!MqttInit
<1>2. relays \in [Relays -> RelayRecord]
  BY <1>1, InitType DEF TypeOK
<1>3. Exclusive
  BY <1>1, NoMessageIsNone DEF Exclusive, PriceOnTheWay
<1>4. ASSUME NEW r \in Relays
      PROVE  OnTheWay(r)
  <2>1. Promised(r) = relays[r] /\ relays[r] \in RelayRecord
    BY <1>1, <1>2, SeenAtRest
  <2>2. MessageAt(r, relays[r], mqtt) = expected[r]
    BY <1>1, NoMessageIsNone, MessageAtNone
  <2>3. /\ Leads("relayQueue", r, relayQueue, Promised(r), relays[r])
        /\ Leads("priceQueue", r, priceQueue, relays[r], relays[r])
        /\ Leads("mqttReceiveQueue", r, mqttReceiveQueue, MessageAt(r, relays[r], mqtt), expected[r])
    BY <1>1, <2>1, <2>2, LeadsToItself
  <2> QED
    BY <2>3 DEF OnTheWay
<1> QED
  BY <1>1, <1>2, <1>3, <1>4 DEF OrderInv

\* A message is expected, in the order of arrival.
LEMMA ArriveOrder ==
    ASSUME PathTypes, OrderInv, NEW m \in Inbox, Arrive(m)
    PROVE  OrderInv'
<1>1. UNCHANGED <<mqttPc, mqtt, relayQueue, priceQueue, relays, pc, locals>>
  BY DEF Arrive, Mqtt!Deliver, Mqtt!relayInputs
<1>2. \A r \in Relays : Promised(r)' = Promised(r)
  BY <1>1, PromiseKept
<1>3. CASE mqttReceiveQueue' = mqttReceiveQueue
  <2>1. UNCHANGED <<expected, disturbed>>
    BY <1>3 DEF Arrive
  <2>2. ASSUME ~disturbed, NEW r \in Relays
        PROVE  OnTheWay(r)'
    BY <1>1, <1>2, <1>3, <2>1, <2>2, KeepsOnTheWay DEF OrderInv
  <2> QED
    BY <1>1, <2>1, <2>2, ArriveExclusive DEF OrderInv
<1>4. CASE mqttReceiveQueue' # mqttReceiveQueue
  <2>1. /\ mqttReceiveQueue' = Append(mqttReceiveQueue, m)
        /\ expected' =
               IF IsCommand(m)
               THEN [expected EXCEPT ![Mqtt!ParseRelaySettings(m.tokens).relayNumber] =
                         Control!Commanded(@, Mqtt!ParseRelaySettings(m.tokens))]
               ELSE IF IsPrice(m)
                    THEN [r \in Relays |-> Control!Repriced(expected[r], Mqtt!ParsePrice(m.tokens))]
               ELSE expected
        /\ disturbed' \in BOOLEAN /\ (disturbed => disturbed')
    BY <1>4 DEF Arrive, Mqtt!Deliver
  <2>2. ASSUME NEW r \in Relays
        PROVE  expected'[r] = MessageAt(r, expected[r], m)
    BY <2>1 DEF MessageAt, CommandedAt, OrderInv
  <2>3. expected' \in [Relays -> RelayRecord]
    <3>1. \A r \in Relays : expected'[r] \in RelayRecord
      BY <2>2, MessageAtType DEF OrderInv
    <3>2. expected' = [r \in Relays |-> expected'[r]]
      BY <2>1 DEF OrderInv
    <3> QED
      BY <3>1, <3>2
  <2>4. ASSUME ~disturbed, NEW r \in Relays
        PROVE  OnTheWay(r)'
    BY <1>1, <1>2, <2>1, <2>2, <2>4, ArriveOnTheWay DEF OrderInv
  <2>5. ~disturbed' => Exclusive'
    BY <2>1, ArriveExclusive DEF OrderInv
  <2> QED
    BY <1>1, <2>1, <2>3, <2>4, <2>5 DEF OrderInv
<1> QED
  BY <1>3, <1>4

LEMMA MqttStepOrder ==
    ASSUME PathTypes, OrderInv, MqttTaskStep
    PROVE  OrderInv'
<1>1. /\ Mqtt!MqttStep /\ UNCHANGED <<relays, pc, locals, expected>>
      /\ disturbed' \in BOOLEAN /\ (disturbed => disturbed')
      /\ mqttPc = "act" /\ UNCHANGED <<relayQueue, priceQueue>> /\ ~disturbed'
             => ~IsCommand(mqtt) /\ ~IsPrice(mqtt)
  BY DEF MqttTaskStep
<1>2. \A r \in Relays : Promised(r)' = Promised(r)
  BY <1>1, PromiseKept
<1>3. mqttPc' \in {"take", "act"} /\ (mqttPc' = "take" => mqtt' = Mqtt!NoMessage)
  BY <1>1 DEF Mqtt!MqttStep, Mqtt!TakeMessage, Mqtt!AnswerPing, Mqtt!RefuseCommand, Mqtt!IgnoreMessage,
              Mqtt!ForwardCommand, Mqtt!ForwardPrice, Mqtt!Done
<1>4. ASSUME ~disturbed', NEW r \in Relays
      PROVE  OnTheWay(r)'
  <2>0. OnTheWay(r) /\ Exclusive
    BY <1>1, <1>4 DEF OrderInv
  <2>1. ASSUME Mqtt!Done, UNCHANGED <<relayQueue, priceQueue>>
        PROVE  OnTheWay(r)'
    <3>1. mqtt' = Mqtt!NoMessage /\ ~IsCommand(mqtt) /\ ~IsPrice(mqtt) /\ UNCHANGED mqttReceiveQueue
      BY <1>1, <1>4, <2>1 DEF Mqtt!Done
    <3>2. \A x : MessageAt(r, x, mqtt') = MessageAt(r, x, mqtt)
      BY <3>1, NoMessageIsNone, MessageAtNone
    <3> QED
      BY <1>1, <1>2, <2>0, <2>1, <3>1, <3>2, KeepsOnTheWay
  <2>2. CASE Mqtt!TakeMessage
    BY <1>1, <1>2, <2>0, <2>2, TakeMessageOnTheWay
  <2>3. CASE Mqtt!AnswerPing \/ Mqtt!RefuseCommand \/ Mqtt!IgnoreMessage
    BY <2>1, <2>3 DEF Mqtt!AnswerPing, Mqtt!RefuseCommand, Mqtt!IgnoreMessage, Mqtt!relayInputs
  <2>4. CASE Mqtt!ForwardCommand
    <3>1. /\ Mqtt!Done /\ UNCHANGED priceQueue
          /\ \/ relayQueue' = relayQueue
             \/ relayQueue' = Append(relayQueue, Mqtt!ParseRelaySettings(mqtt.tokens))
      BY <2>4 DEF Mqtt!ForwardCommand
    <3> QED
      BY <1>1, <1>2, <2>0, <2>1, <2>4, <3>1, ForwardCommandOnTheWay
  <2>5. CASE Mqtt!ForwardPrice
    <3>1. /\ Mqtt!Done /\ UNCHANGED relayQueue
          /\ \/ priceQueue' = priceQueue
             \/ priceQueue' = Append(priceQueue, Mqtt!ParsePrice(mqtt.tokens))
      BY <2>5 DEF Mqtt!ForwardPrice
    <3> QED
      BY <1>1, <1>2, <2>0, <2>1, <2>5, <3>1, ForwardPriceOnTheWay
  <2> QED
    BY <1>1, <2>2, <2>3, <2>4, <2>5 DEF Mqtt!MqttStep
<1>5. ~disturbed' => Exclusive'
  BY <1>1, MqttStepExclusive DEF OrderInv
<1> QED
  BY <1>1, <1>3, <1>4, <1>5 DEF OrderInv

LEMMA TaskStepOrder ==
    ASSUME PathTypes, OrderInv, RelayTaskStep
    PROVE  OrderInv'
<1>1. /\ TaskStep /\ UNCHANGED <<mqttVars, history>>
      /\ UNCHANGED <<mqttReceiveQueue, mqttPc, mqtt, expected, disturbed>>
  BY DEF RelayTaskStep, mqttVars, history
<1>2. TypeOK /\ IndexAtRest /\ [Next]_vars
  BY <1>1 DEF PathTypes, Next
<1>3. ASSUME ~disturbed, NEW r \in Relays
      PROVE  OnTheWay(r)'
  <2>0. OnTheWay(r) /\ Exclusive
    BY <1>3 DEF OrderInv
  <2>1. CASE AcceptCommand
    <3>1. Promised(r)' = CommandedAt(r, Promised(r), Head(relayQueue))
      BY <1>2, <2>1, AcceptSeen DEF CommandedAt
    <3> QED
      BY <1>1, <2>0, <2>1, <3>1, TakeCommandOnTheWay DEF AcceptCommand
  <2>2. CASE RejectCommand \/ StrayCommand
    <3>1. /\ TakeCommand /\ pc = "receive"
          /\ \/ Head(relayQueue).relayNumber > NumRelays - 1
             \/ Head(relayQueue).relayNumber < 0
      BY <2>2 DEF RejectCommand, StrayCommand, TakeCommand
    <3>2. Head(relayQueue).relayNumber \notin Relays
      <4>1. Head(relayQueue) \in RelaySettings
        BY <3>1, QueueEntries DEF TakeCommand
      <4>2. Head(relayQueue).relayNumber \in Int
        BY <4>1 DEF RelaySettings
      <4> QED
        BY <3>1, <4>2, NumRelaysAssumption DEF Relays
    <3>3. ~AcceptCommand /\ ~TakePrice
      BY <3>1, <3>2 DEF AcceptCommand, TakePrice
    <3>4. Promised(r)' = CommandedAt(r, Promised(r), Head(relayQueue))
      BY <1>2, <3>2, <3>3, OthersUnseen DEF CommandedAt
    <3> QED
      BY <1>1, <2>0, <3>1, <3>4, TakeCommandOnTheWay
  <2>3. CASE TakePrice
    BY <1>1, <2>0, <2>3, TakePriceOnTheWay
  <2>4. CASE ~(AcceptCommand \/ RejectCommand \/ StrayCommand \/ TakePrice)
    <3>1. UNCHANGED <<relayQueue, priceQueue>>
      BY <1>1, <2>4, TaskStepTakes
    <3>2. Promised(r)' = Promised(r)
      BY <1>2, <2>4, OthersUnseen
    <3> QED
      BY <1>1, <2>0, <3>1, <3>2, KeepsOnTheWay
  <2> QED
    BY <2>1, <2>2, <2>3, <2>4
<1>4. ~disturbed => Exclusive'
  BY <1>1, TaskStepExclusive DEF OrderInv
<1> QED
  BY <1>1, <1>3, <1>4 DEF OrderInv

LEMMA StepOrder == PathTypes /\ OrderInv /\ [PathNext]_pathVars => OrderInv'
<1> SUFFICES ASSUME PathTypes, OrderInv, [PathNext]_pathVars
             PROVE  OrderInv'
  OBVIOUS
<1>1. ASSUME NEW m \in Inbox, Arrive(m)
      PROVE  OrderInv'
  BY <1>1, ArriveOrder
<1>2. CASE Drain \/ UNCHANGED pathVars
  <2>1. /\ UNCHANGED <<mqttReceiveQueue, mqttPc, mqtt, expected, disturbed>>
        /\ UNCHANGED <<relayQueue, priceQueue, relays, pc, locals>>
    BY <1>2 DEF Drain, Transmit, Draw, pathVars, vars, mqttVars, history, inputs
  <2>2. \A r \in Relays : Promised(r)' = Promised(r)
    BY <2>1, PromiseKept
  <2>3. ASSUME ~disturbed, NEW r \in Relays
        PROVE  OnTheWay(r)'
    BY <2>1, <2>2, <2>3, KeepsOnTheWay DEF OrderInv
  <2>4. ~disturbed => Exclusive'
    BY <2>1, WhatIsOnTheWay, WhatIsOnTheWayNext, FewerOnTheWay DEF OrderInv, Waiting, InHand
  <2> QED
    BY <2>1, <2>3, <2>4 DEF OrderInv
<1> QED
  BY <1>1, <1>2, MqttStepOrder, TaskStepOrder DEF PathNext

LEMMA InitTypes == PathInit => PathTypes
BY InitType, InitFromBroker DEF PathInit, PathTypes, IndexAtRest, Init

LEMMA StepTypes == PathTypes /\ [PathNext]_pathVars => PathTypes'
BY StepType, StepIndex, StepFromBroker, StepOfEnvironment DEF PathTypes

LEMMA OrderInvSuffices == PathTypes /\ OrderInv => ArrivalOrder
<1> SUFFICES ASSUME PathTypes, OrderInv, Quiet, ~disturbed
             PROVE  relays = expected
  BY DEF ArrivalOrder
<1>1. relays \in [Relays -> RelayRecord] /\ expected \in [Relays -> RelayRecord]
  BY DEF PathTypes, TypeOK, OrderInv
<1>2. ASSUME NEW r \in Relays
      PROVE  relays[r] = expected[r]
  <2>1. PICK y, z : /\ Leads("relayQueue", r, <<>>, Promised(r), y)
                    /\ Leads("priceQueue", r, <<>>, y, z)
                    /\ Leads("mqttReceiveQueue", r, <<>>, MessageAt(r, z, mqtt), expected[r])
    BY DEF OnTheWay, OrderInv, Quiet
  <2>2. MessageAt(r, z, mqtt) = z
    BY NoMessageIsNone, MessageAtNone DEF OrderInv, Quiet
  <2>3. Promised(r) = expected[r]
    BY <2>1, <2>2, LeadsNowhere
  <2>4. Promised(r) = relays[r]
    BY SeenAtRest DEF Quiet
  <2> QED
    BY <2>3, <2>4
<1> QED
  BY <1>1, <1>2

\* When everything is carried out, the relays are as if the messages had taken
\* effect in the order in which the broker delivered them, although the relay task
\* looks at its commands before its prices (relayTask.cpp:22-84), unless a message
\* was lost to a full queue or two that do not commute were on the way together:
\* for every inbox, number of relays and length of the queues.
THEOREM ArrivalOrderKept == PathSpec => []ArrivalOrder
BY InitTypes, StepTypes, InitOrder, StepOrder, OrderInvSuffices, PTL DEF PathSpec
=============================================================================
