--------------------------- MODULE RelayTaskProofs ---------------------------
(***************************************************************************)
(* Proofs about RelayTask, for every number of relays, every set of        *)
(* commands and prices, and every length of the queues.                    *)
(***************************************************************************)
EXTENDS RelayTask, TLAPS

-----------------------------------------------------------------------------
(* The operations of class Relay *)

\* Every operation of a relay yields a relay.
LEMMA ChangeStateType ==
    ASSUME NEW r \in RelayRecord, NEW b \in BOOLEAN
    PROVE  ChangeState(r, b) \in RelayRecord
BY DEF ChangeState, RelayRecord

LEMMA FollowPriceType ==
    ASSUME NEW r \in RelayRecord
    PROVE  FollowPrice(r) \in RelayRecord
<1>1. Cheap(r) \in BOOLEAN
  BY DEF Cheap
<1> QED
  BY <1>1, ChangeStateType DEF FollowPrice

LEMMA UpdateType ==
    ASSUME NEW r \in RelayRecord, NEW x \in Int
    PROVE  UpdatePriceThreshold(r, x) \in RelayRecord /\ UpdatePrice(r, x) \in RelayRecord
<1>1. [r EXCEPT !.threshold = x] \in RelayRecord /\ [r EXCEPT !.price = x] \in RelayRecord
  BY DEF RelayRecord
<1> QED
  BY <1>1, FollowPriceType DEF UpdatePriceThreshold, UpdatePrice

LEMMA ChangeModeType ==
    ASSUME NEW r \in RelayRecord, NEW m \in Modes
    PROVE  ChangeMode(r, m) \in RelayRecord
<1>1. [r EXCEPT !.mode = m] \in RelayRecord
  BY DEF RelayRecord
<1> QED
  BY <1>1, FollowPriceType DEF ChangeMode

\* The first two steps of a command's handler yield relays.
LEMMA HandlerStepType ==
    ASSUME NEW r \in RelayRecord, NEW c \in RelaySettings
    PROVE  ThresholdStep(r, c) \in RelayRecord /\ PriceStep(r, c) \in RelayRecord
<1>1. c.threshold \in Int /\ c.price \in Int
  BY DEF RelaySettings
<1> QED
  BY <1>1, UpdateType DEF ThresholdStep, PriceStep

\* What Send puts in a queue keeps the queue's type and its bound.
LEMMA SendType ==
    ASSUME NEW S, NEW q \in Seq(S), NEW m \in S, NEW n \in Nat, Len(q) <= n
    PROVE  Send(q, n, m) \in Seq(S) /\ Len(Send(q, n, m)) <= n
BY DEF Send, HasRoom

\* Taking the first message of a queue keeps its type and its bound.
LEMMA TakeType ==
    ASSUME NEW S, NEW q \in Seq(S), q # <<>>, NEW n \in Nat, Len(q) <= n
    PROVE  Head(q) \in S /\ Tail(q) \in Seq(S) /\ Len(Tail(q)) <= n
OBVIOUS

\* Printing rounds: it keeps the order of two numbers, but may make them equal.
LEMMA PrintedType ==
    ASSUME NEW x \in Int
    PROVE  Printed(x) \in Int
BY DEF Printed

LEMMA PrintedMonotone ==
    ASSUME NEW x \in Int, NEW y \in Int, x <= y
    PROVE  Printed(x) <= Printed(y)
BY DEF Printed

LEMMA MessageTypes ==
    ASSUME TypeOK, NEW n \in Relays
    PROVE  Status(n) \in StatusMessage /\ RelayUpdate(n) \in DisplayMessage
<1>1. relays[n] \in RelayRecord
  BY DEF TypeOK
<1>2. Printed(relays[n].price) \in Int /\ Printed(relays[n].threshold) \in Int
  BY <1>1, PrintedType DEF RelayRecord
<1> QED
  BY <1>1, <1>2 DEF Status, RelayUpdate, StatusMessage, DisplayMessage, RelayRecord

-----------------------------------------------------------------------------
(* Type correctness *)

LEMMA InitType == Init => TypeOK
<1> SUFFICES ASSUME Init PROVE TypeOK
  OBVIOUS
<1> USE DEF Init
<1>1. relays \in [Relays -> RelayRecord]
  BY DEF RelayRecord, Modes
<1>2. /\ pc \in Places
      /\ pc \in Handling => relaySettings.relayNumber \in Relays
  BY DEF Places, Handling
<1>3. relaySettings \in RelaySettings /\ target \in [mode : Modes, state : BOOLEAN]
  BY DEF RelaySettings, RelayState, RelayMode, Modes, NoCommand, NoTarget, NoThreshold, NoPrice
<1>4. electricPrice \in Int /\ i \in Relays
  BY NumRelaysAssumption DEF Relays
<1>6. sendRelayStatusSemaphore \in BOOLEAN
  OBVIOUS
<1>5. /\ relayQueue \in Seq(Commands) /\ Len(relayQueue) <= RelayQueueLen
      /\ priceQueue \in Seq(Prices) /\ Len(priceQueue) <= PriceQueueLen
      /\ mqttTransmitQueue \in Seq(StatusMessage) /\ Len(mqttTransmitQueue) <= TransmitQueueLen
      /\ displayQueue \in Seq(DisplayMessage) /\ Len(displayQueue) <= DisplayQueueLen
  BY QueueLenAssumption
<1> QED
  BY <1>1, <1>2, <1>3, <1>4, <1>5, <1>6 DEF TypeOK

\* The steps that leave the relays alone and only move the task.
LEMMA MoveType ==
    ASSUME TypeOK, pc' \in Places, UNCHANGED <<relays, locals, inputs, outputs>>,
           pc' \in Handling => pc \in Handling
    PROVE  TypeOK'
BY DEF TypeOK, locals, inputs, outputs

\* The index of the loops stays within the array.
LEMMA NextRelayType ==
    ASSUME TypeOK, NEW body, NEW done, NextRelay(body, done)
    PROVE  i' \in Relays /\ pc' \in {body, done}
BY NumRelaysAssumption DEF TypeOK, NextRelay, Relays

LEMMA TakeCommandType ==
    ASSUME TypeOK, TakeCommand
    PROVE  /\ Head(relayQueue) \in RelaySettings
           /\ relayQueue' \in Seq(Commands) /\ Len(relayQueue') <= RelayQueueLen
<1>1. /\ Head(relayQueue) \in Commands
      /\ relayQueue' \in Seq(Commands) /\ Len(relayQueue') <= RelayQueueLen
  BY TakeType, QueueLenAssumption DEF TypeOK, TakeCommand
<1> QED
  BY <1>1, CommandsAssumption

LEMMA TargetType ==
    ASSUME NEW r \in RelayRecord, NEW c \in RelaySettings
    PROVE  [mode |-> TargetMode(r, c), state |-> TargetState(r, c)] \in [mode : Modes, state : BOOLEAN]
<1>1. TargetMode(r, c) \in Modes
  BY DEF TargetMode, RelayRecord, RelaySettings, RelayMode, Modes
<1>2. r.pin \in BOOLEAN /\ (c.state = "on") \in BOOLEAN
  BY DEF RelayRecord
<1>3. TargetState(r, c) \in BOOLEAN
  BY <1>2 DEF TargetState
<1> QED
  BY <1>1, <1>3

LEMMA StepType == TypeOK /\ [Next]_vars => TypeOK'
<1> SUFFICES ASSUME TypeOK, [Next]_vars
             PROVE  TypeOK'
  OBVIOUS
<1> USE DEF locals, inputs, outputs
<1> DEFINE TransmitOK == mqttTransmitQueue' \in Seq(StatusMessage)
                             /\ Len(mqttTransmitQueue') <= TransmitQueueLen
           DisplayOK  == displayQueue' \in Seq(DisplayMessage)
                             /\ Len(displayQueue') <= DisplayQueueLen
<1>t. ASSUME NEW n \in Relays, mqttTransmitQueue' = Send(mqttTransmitQueue, TransmitQueueLen, Status(n))
      PROVE  TransmitOK
  BY <1>t, MessageTypes, SendType, QueueLenAssumption DEF TypeOK
<1>d. ASSUME NEW m \in DisplayMessage, displayQueue' = Send(displayQueue, DisplayQueueLen, m)
      PROVE  DisplayOK
  BY <1>d, SendType, QueueLenAssumption DEF TypeOK
<1>u. ASSUME NEW n \in Relays
      PROVE  RelayUpdate(n) \in DisplayMessage
  BY MessageTypes
<1>1. CASE Announce
  <2>1. i' \in Relays /\ pc' \in Places \ Handling
    BY <1>1, NextRelayType DEF Announce, Places, Handling
  <2>2. DisplayOK
    BY <1>1, <1>d, <1>u DEF Announce, TypeOK
  <2> QED
    BY <1>1, <2>1, <2>2 DEF Announce, TypeOK
<1>2. CASE RejectCommand
  BY <1>2, TakeCommandType DEF RejectCommand, TakeCommand, TypeOK
<1>3. CASE StrayCommand
  BY <1>3, TakeCommandType DEF StrayCommand, TakeCommand, TypeOK, Places, Handling
<1>4. CASE AcceptCommand
  <2> DEFINE c == Head(relayQueue)
  <2>1. c \in RelaySettings /\ c.relayNumber \in Relays
    BY <1>4, TakeCommandType DEF AcceptCommand
  <2>2. relaySettings' \in RelaySettings /\ relaySettings'.relayNumber \in Relays
    BY <1>4, <2>1 DEF AcceptCommand, RelaySettings, RelayMode, Modes
  <2>3. target' \in [mode : Modes, state : BOOLEAN]
    BY <1>4, <2>1, TargetType DEF AcceptCommand, TypeOK
  <2>4. pc' \in Places
    BY <1>4 DEF AcceptCommand, Places
  <2> QED
    BY <1>4, <2>2, <2>3, <2>4, TakeCommandType DEF AcceptCommand, TakeCommand, TypeOK
<1>5. ASSUME NEW at \in Handling, NEW next \in Handling, NEW r \in RelayRecord,
             HandleStep(at, next, r)
      PROVE  TypeOK'
  BY <1>5 DEF HandleStep, TypeOK, Handling, Places
<1>6. ASSUME pc \in Handling
      PROVE  handled \in RelayRecord /\ relaySettings \in RelaySettings
                 /\ target.mode \in Modes /\ target.state \in BOOLEAN
  BY <1>6 DEF TypeOK, handled
<1>7. CASE SetThreshold
  BY <1>5, <1>6, <1>7, HandlerStepType DEF SetThreshold, HandleStep, Handling
<1>8. CASE SetPrice
  BY <1>5, <1>6, <1>8, HandlerStepType DEF SetPrice, HandleStep, Handling
<1>9. CASE SetState
  BY <1>5, <1>6, <1>9, ChangeStateType DEF SetState, HandleStep, Handling
<1>10. CASE SetMode
  BY <1>5, <1>6, <1>10, ChangeModeType DEF SetMode, HandleStep, Handling
<1>11. CASE ReportCommand
  <2>1. TransmitOK
    BY <1>11, <1>t DEF ReportCommand, TypeOK, Handling
  <2> QED
    BY <1>11, <2>1 DEF ReportCommand, TypeOK, Places, Handling
<1>12. CASE ShowCommand
  <2>1. DisplayOK
    BY <1>12, <1>d, <1>u DEF ShowCommand, TypeOK, Handling
  <2>2. relaySettings' \in RelaySettings /\ target' \in [mode : Modes, state : BOOLEAN]
    BY <1>12 DEF ShowCommand, RelaySettings, RelayState, RelayMode, Modes,
                 NoCommand, NoTarget, NoThreshold, NoPrice
  <2> QED
    BY <1>12, <2>1, <2>2 DEF ShowCommand, TypeOK, Places, Handling
<1>13. CASE NoCommandFound
  BY <1>13, MoveType DEF NoCommandFound, Places, Handling
<1>14. CASE TakePrice
  <2>1. /\ electricPrice' \in Prices
        /\ priceQueue' \in Seq(Prices) /\ Len(priceQueue') <= PriceQueueLen
    BY <1>14, TakeType, QueueLenAssumption DEF TakePrice, TypeOK
  <2> QED
    BY <1>14, <2>1, CommandsAssumption DEF TakePrice, TypeOK, Places, Handling
<1>15. CASE PriceTimeout
  BY <1>15, MoveType DEF PriceTimeout, Places, Handling
<1>16. CASE RepriceRelay
  <2>1. UpdatePrice(relays[i], electricPrice) \in RelayRecord
    BY UpdateType DEF TypeOK
  <2> QED
    BY <1>16, <2>1 DEF RepriceRelay, TypeOK, Places, Handling
<1>17. CASE ReportRepriced
  <2>1. TransmitOK
    BY <1>17, <1>t DEF ReportRepriced, TypeOK
  <2> QED
    BY <1>17, <2>1 DEF ReportRepriced, TypeOK, Places, Handling
<1>18. CASE ShowRepriced
  <2>1. DisplayOK
    BY <1>18, <1>d, <1>u DEF ShowRepriced, TypeOK
  <2>2. i' \in Relays /\ pc' \in Places \ Handling
    BY <1>18, NextRelayType DEF ShowRepriced, Places, Handling
  <2>3. electricPrice' \in Int
    BY <1>18 DEF ShowRepriced, TypeOK
  <2> QED
    BY <1>18, <2>1, <2>2, <2>3 DEF ShowRepriced, TypeOK
<1>19. CASE TakeStatusRequest
  <2>1. sendRelayStatusSemaphore' \in BOOLEAN
    BY <1>19 DEF TakeStatusRequest
  <2> QED
    BY <1>19, <2>1 DEF TakeStatusRequest, TypeOK, Places, Handling
<1>20. CASE NoStatusRequest
  BY <1>20, MoveType DEF NoStatusRequest, Places, Handling
<1>21. CASE SendStatus
  <2>1. TransmitOK
    BY <1>21, <1>t DEF SendStatus, TypeOK
  <2>2. i' \in Relays /\ pc' \in Places \ Handling
    BY <1>21, NextRelayType DEF SendStatus, Places, Handling
  <2> QED
    BY <1>21, <2>1, <2>2 DEF SendStatus, TypeOK
<1>22. ASSUME NEW c \in Commands, SendCommand(c)
       PROVE  TypeOK'
  <2>1. relayQueue' = Send(relayQueue, RelayQueueLen, c)
    BY <1>22 DEF SendCommand, Send
  <2>2. relayQueue' \in Seq(Commands) /\ Len(relayQueue') <= RelayQueueLen
    BY <2>1, SendType, QueueLenAssumption DEF TypeOK
  <2> QED
    BY <1>22, <2>2 DEF SendCommand, TypeOK
<1>23. ASSUME NEW p \in Prices, SendPrice(p)
       PROVE  TypeOK'
  <2>1. priceQueue' = Send(priceQueue, PriceQueueLen, p)
    BY <1>23 DEF SendPrice, Send
  <2>2. priceQueue' \in Seq(Prices) /\ Len(priceQueue') <= PriceQueueLen
    BY <2>1, SendType, QueueLenAssumption DEF TypeOK
  <2> QED
    BY <1>23, <2>2 DEF SendPrice, TypeOK
<1>24. CASE RequestStatus
  <2>1. sendRelayStatusSemaphore' \in BOOLEAN
    BY <1>24 DEF RequestStatus
  <2> QED
    BY <1>24, <2>1 DEF RequestStatus, TypeOK
<1>25. CASE Transmit
  <2>1. TransmitOK
    BY <1>25, TakeType, QueueLenAssumption DEF Transmit, TypeOK
  <2> QED
    BY <1>25, <2>1 DEF Transmit, TypeOK
<1>26. CASE Draw
  <2>1. DisplayOK
    BY <1>26, TakeType, QueueLenAssumption DEF Draw, TypeOK
  <2> QED
    BY <1>26, <2>1 DEF Draw, TypeOK
<1>27. ASSUME NEW m \in ConnectionUpdates, ShowConnection(m)
       PROVE  TypeOK'
  <2>1. DisplayOK
    BY <1>27, <1>d, UpdatesAssumption DEF ShowConnection
  <2> QED
    BY <1>27, <2>1 DEF ShowConnection, TypeOK
<1>28. CASE UNCHANGED vars
  BY <1>28, MoveType DEF vars, TypeOK
<1> QED
  BY <1>1, <1>2, <1>3, <1>4, <1>7, <1>8, <1>9, <1>10, <1>11, <1>12, <1>13, <1>14, <1>15,
     <1>16, <1>17, <1>18, <1>19, <1>20, <1>21, <1>22, <1>23, <1>24, <1>25, <1>26, <1>27, <1>28
     DEF Next, TaskStep, Environment

\* Every variable keeps its type, no queue exceeds its length, and the indices
\* into the array of relays stay within it (relayTask.cpp:6-115).
THEOREM TypeCorrect == Spec => []TypeOK
BY InitType, StepType, PTL DEF Spec

-----------------------------------------------------------------------------
(* Relays in automatic mode follow their price *)

Obeys(r) == r.mode = "automatic" => r.pin = Cheap(r)

\* A relay that was just made to follow its price obeys it, whatever it did before.
LEMMA FollowPriceObeys ==
    ASSUME NEW r \in RelayRecord
    PROVE  Obeys(FollowPrice(r))
<1>1. CASE r.mode = "automatic"
  <2> DEFINE f == [r EXCEPT !.pin = Cheap(r)]
  <2>1. FollowPrice(r) = f
    BY <1>1 DEF FollowPrice, ChangeState
  <2>2. f.pin = Cheap(r) /\ f.price = r.price /\ f.threshold = r.threshold
    BY DEF RelayRecord
  <2>3. Cheap(f) = Cheap(r)
    BY <2>2 DEF Cheap
  <2> QED
    BY <2>1, <2>2, <2>3 DEF Obeys
<1>2. CASE r.mode # "automatic"
  BY <1>2 DEF FollowPrice, Obeys
<1> QED
  BY <1>1, <1>2

LEMMA UpdateObeys ==
    ASSUME NEW r \in RelayRecord, NEW x \in Int
    PROVE  Obeys(UpdatePriceThreshold(r, x)) /\ Obeys(UpdatePrice(r, x))
<1>1. [r EXCEPT !.threshold = x] \in RelayRecord /\ [r EXCEPT !.price = x] \in RelayRecord
  BY DEF RelayRecord
<1> QED
  BY <1>1, FollowPriceObeys DEF UpdatePriceThreshold, UpdatePrice

LEMMA ChangeModeObeys ==
    ASSUME NEW r \in RelayRecord, NEW m \in Modes
    PROVE  Obeys(ChangeMode(r, m))
<1>1. [r EXCEPT !.mode = m] \in RelayRecord
  BY DEF RelayRecord
<1> QED
  BY <1>1, FollowPriceObeys DEF ChangeMode

LEMMA HandlerStepObeys ==
    ASSUME NEW r \in RelayRecord, NEW c \in RelaySettings, Obeys(r)
    PROVE  Obeys(ThresholdStep(r, c)) /\ Obeys(PriceStep(r, c))
<1>1. c.threshold \in Int /\ c.price \in Int
  BY DEF RelaySettings
<1> QED
  BY <1>1, UpdateObeys DEF ThresholdStep, PriceStep

\* AutoFollowsPrice, relay by relay.
LEMMA AutoObeys == AutoFollowsPrice <=> \A r \in Relays : Settling(r) \/ Obeys(relays[r])
BY DEF AutoFollowsPrice, Obeys

\* A step that writes relay n, and leaves it obedient or settling, keeps
\* AutoFollowsPrice.
LEMMA WriteObeys ==
    ASSUME TypeOK, AutoFollowsPrice, NEW n \in Relays, NEW r,
           relays' = [relays EXCEPT ![n] = r],
           Settling(n)' \/ Obeys(r),
           \A k \in Relays \ {n} : ~Settling(k)
    PROVE  AutoFollowsPrice'
<1> SUFFICES ASSUME NEW k \in Relays
             PROVE  Settling(k)' \/ Obeys(relays'[k])
  BY DEF AutoFollowsPrice, Obeys
<1>1. CASE k = n
  <2>1. relays'[k] = r
    BY <1>1 DEF TypeOK
  <2> QED
    BY <1>1, <2>1
<1>2. CASE k # n
  <2>1. relays'[k] = relays[k]
    BY <1>2 DEF TypeOK
  <2>2. Obeys(relays[k])
    BY <1>2, AutoObeys
  <2> QED
    BY <2>1, <2>2
<1> QED
  BY <1>1, <1>2

LEMMA StepAuto == TypeOK /\ AutoFollowsPrice /\ [Next]_vars => AutoFollowsPrice'
<1> SUFFICES ASSUME TypeOK, AutoFollowsPrice, [Next]_vars
             PROVE  AutoFollowsPrice'
  OBVIOUS
<1> USE DEF locals, inputs, outputs
<1>1. ASSUME UNCHANGED relays, pc # "mode", pc' # "mode"
      PROVE  AutoFollowsPrice'
  BY <1>1 DEF AutoFollowsPrice, Settling
<1>2. ASSUME UNCHANGED <<relays, pc, relaySettings>>
      PROVE  AutoFollowsPrice'
  BY <1>2 DEF AutoFollowsPrice, Settling
<1>3. ASSUME pc \in Handling
      PROVE  /\ relaySettings \in RelaySettings /\ relaySettings.relayNumber \in Relays
             /\ handled \in RelayRecord /\ target.mode \in Modes
  BY <1>3 DEF TypeOK, handled
<1>4. CASE SetThreshold
  <2>1. pc = "threshold" /\ pc' = "price"
        /\ relays' = [relays EXCEPT ![relaySettings.relayNumber] = ThresholdStep(handled, relaySettings)]
    BY <1>4 DEF SetThreshold, HandleStep
  <2>2. Obeys(handled)
    BY <1>3, <2>1, AutoObeys DEF Handling, Settling, handled
  <2>3. Obeys(ThresholdStep(handled, relaySettings))
    BY <1>3, <2>1, <2>2, HandlerStepObeys DEF Handling
  <2> QED
    BY <1>3, <2>1, <2>3, WriteObeys DEF Handling, Settling
<1>5. CASE SetPrice
  <2>1. pc = "price" /\ pc' = "state"
        /\ relays' = [relays EXCEPT ![relaySettings.relayNumber] = PriceStep(handled, relaySettings)]
    BY <1>5 DEF SetPrice, HandleStep
  <2>2. Obeys(handled)
    BY <1>3, <2>1, AutoObeys DEF Handling, Settling, handled
  <2>3. Obeys(PriceStep(handled, relaySettings))
    BY <1>3, <2>1, <2>2, HandlerStepObeys DEF Handling
  <2> QED
    BY <1>3, <2>1, <2>3, WriteObeys DEF Handling, Settling
<1>6. CASE SetState
  <2>1. pc = "state" /\ pc' = "mode" /\ UNCHANGED relaySettings
        /\ relays' = [relays EXCEPT ![relaySettings.relayNumber] = ChangeState(handled, target.state)]
    BY <1>6 DEF SetState, HandleStep
  <2> QED
    BY <1>3, <2>1, WriteObeys DEF Handling, Settling
<1>7. CASE SetMode
  <2>1. pc = "mode" /\ pc' = "report"
        /\ relays' = [relays EXCEPT ![relaySettings.relayNumber] = ChangeMode(handled, target.mode)]
    BY <1>7 DEF SetMode, HandleStep
  <2>2. Obeys(ChangeMode(handled, target.mode))
    BY <1>3, <2>1, ChangeModeObeys DEF Handling
  <2> QED
    BY <1>3, <2>1, <2>2, WriteObeys DEF Handling, Settling
<1>8. CASE RepriceRelay
  <2>1. pc = "reprice" /\ relays' = [relays EXCEPT ![i] = UpdatePrice(relays[i], electricPrice)]
    BY <1>8 DEF RepriceRelay
  <2>2. Obeys(UpdatePrice(relays[i], electricPrice))
    BY UpdateObeys DEF TypeOK
  <2> QED
    BY <2>1, <2>2, WriteObeys DEF Settling, TypeOK
<1>9. CASE Announce \/ ShowRepriced \/ SendStatus
  BY <1>1, <1>9 DEF Announce, ShowRepriced, SendStatus, NextRelay
<1>10. CASE RejectCommand \/ StrayCommand \/ AcceptCommand \/ NoCommandFound
  BY <1>1, <1>10 DEF RejectCommand, StrayCommand, AcceptCommand, TakeCommand, NoCommandFound
<1>11. CASE ReportCommand \/ ShowCommand \/ ReportRepriced
  BY <1>1, <1>11 DEF ReportCommand, ShowCommand, ReportRepriced
<1>12. CASE TakePrice \/ PriceTimeout \/ TakeStatusRequest \/ NoStatusRequest
  BY <1>1, <1>12 DEF TakePrice, PriceTimeout, TakeStatusRequest, NoStatusRequest
<1>13. CASE Environment
  BY <1>2, <1>13 DEF Environment, SendCommand, SendPrice, RequestStatus, Transmit, Draw, ShowConnection
<1>14. CASE UNCHANGED vars
  BY <1>2, <1>14 DEF vars
<1> QED
  BY <1>4, <1>5, <1>6, <1>7, <1>8, <1>9, <1>10, <1>11, <1>12, <1>13, <1>14 DEF Next, TaskStep

\* A relay in automatic mode is on exactly when its price is below its threshold,
\* between the steps of a command and between the relays of a price message too;
\* the one exception is the relay between changeState and changeMode of its own
\* command (relayTask.cpp:66-67, Relay.cpp:50-85).
THEOREM AutomaticRelaysFollowPrice == Spec => []AutoFollowsPrice
<1>1. Init => AutoFollowsPrice
  BY DEF Init, AutoFollowsPrice
<1> QED
  BY <1>1, TypeCorrect, StepAuto, PTL DEF Spec

-----------------------------------------------------------------------------
(* So do the reports on their way to the broker *)

\* A report of a relay that is not settling is consistent, because printing keeps
\* the order of price and threshold.
LEMMA StatusConsistent ==
    ASSUME TypeOK, AutoFollowsPrice, NEW n \in Relays, pc # "mode"
    PROVE  Consistent(Status(n))
<1> DEFINE r == relays[n]
<1>1. r.price \in Int /\ r.threshold \in Int
  BY DEF TypeOK, RelayRecord
<1>2. /\ r.price <= r.threshold => Printed(r.price) <= Printed(r.threshold)
      /\ r.threshold <= r.price => Printed(r.threshold) <= Printed(r.price)
  BY <1>1, PrintedMonotone
<1>3. Printed(r.price) \in Int /\ Printed(r.threshold) \in Int
  BY <1>1, PrintedType
<1>4. r.mode = "automatic" => r.pin = (r.price < r.threshold)
  BY DEF AutoFollowsPrice, Settling, Cheap
<1> DEFINE m == Status(n)
<1>5. /\ m.mode = r.mode /\ m.pin = r.pin
      /\ m.price = Printed(r.price) /\ m.threshold = Printed(r.threshold)
  BY DEF Status
<1>6. CASE r.mode = "automatic" /\ r.price < r.threshold
  <2>1. m.pin
    BY <1>4, <1>5, <1>6
  <2>2. m.price <= m.threshold
    BY <1>1, <1>2, <1>5, <1>6
  <2> QED
    BY <2>1, <2>2 DEF Consistent
<1>7. CASE r.mode = "automatic" /\ ~(r.price < r.threshold)
  <2>1. ~m.pin
    BY <1>4, <1>5, <1>7
  <2>2. m.price >= m.threshold
    BY <1>1, <1>2, <1>3, <1>5, <1>7
  <2> QED
    BY <2>1, <2>2 DEF Consistent
<1> QED
  BY <1>5, <1>6, <1>7 DEF Consistent

LEMMA SendConsistent ==
    ASSUME TypeOK, ReportsFollowPrice, NEW m \in StatusMessage, Consistent(m),
           mqttTransmitQueue' = Send(mqttTransmitQueue, TransmitQueueLen, m)
    PROVE  ReportsFollowPrice'
<1> SUFFICES ASSUME NEW k \in 1 .. Len(mqttTransmitQueue')
             PROVE  Consistent(mqttTransmitQueue'[k])
  BY DEF ReportsFollowPrice, Consistent
<1>1. ASSUME NEW j \in 1 .. Len(mqttTransmitQueue)
      PROVE  Consistent(mqttTransmitQueue[j])
  BY DEF ReportsFollowPrice
<1>2. CASE mqttTransmitQueue' = mqttTransmitQueue
  BY <1>1, <1>2
<1>3. CASE mqttTransmitQueue' = Append(mqttTransmitQueue, m)
  <2>1. CASE k <= Len(mqttTransmitQueue)
    <3>1. mqttTransmitQueue'[k] = mqttTransmitQueue[k]
      BY <1>3, <2>1 DEF TypeOK
    <3> QED
      BY <1>1, <2>1, <3>1
  <2>2. CASE k > Len(mqttTransmitQueue)
    <3>1. mqttTransmitQueue'[k] = m
      BY <1>3, <2>2 DEF TypeOK
    <3> QED
      BY <3>1
  <2> QED
    BY <2>1, <2>2 DEF TypeOK
<1> QED
  BY <1>2, <1>3 DEF Send

LEMMA StepReports ==
    TypeOK /\ AutoFollowsPrice /\ ReportsFollowPrice /\ [Next]_vars => ReportsFollowPrice'
<1> SUFFICES ASSUME TypeOK, AutoFollowsPrice, ReportsFollowPrice, [Next]_vars
             PROVE  ReportsFollowPrice'
  OBVIOUS
<1> USE DEF inputs, outputs
<1>1. ASSUME UNCHANGED mqttTransmitQueue
      PROVE  ReportsFollowPrice'
  BY <1>1 DEF ReportsFollowPrice, Consistent
<1>2. ASSUME NEW n \in Relays, pc # "mode",
             mqttTransmitQueue' = Send(mqttTransmitQueue, TransmitQueueLen, Status(n))
      PROVE  ReportsFollowPrice'
  BY <1>2, StatusConsistent, MessageTypes, SendConsistent
<1>3. CASE ReportCommand
  BY <1>2, <1>3 DEF ReportCommand, TypeOK, Handling
<1>4. CASE ReportRepriced
  BY <1>2, <1>4 DEF ReportRepriced, TypeOK
<1>5. CASE SendStatus
  BY <1>2, <1>5 DEF SendStatus, TypeOK
<1>6. CASE Transmit
  <2>1. \A k \in 1 .. Len(mqttTransmitQueue') : k + 1 \in 1 .. Len(mqttTransmitQueue)
                                                  /\ mqttTransmitQueue'[k] = mqttTransmitQueue[k + 1]
    BY <1>6 DEF Transmit, TypeOK
  <2> QED
    BY <2>1 DEF ReportsFollowPrice
<1>7. CASE Announce \/ RejectCommand \/ StrayCommand \/ AcceptCommand \/ NoCommandFound
  BY <1>1, <1>7 DEF Announce, RejectCommand, StrayCommand, AcceptCommand, TakeCommand, NoCommandFound
<1>8. CASE SetThreshold \/ SetPrice \/ SetState \/ SetMode \/ ShowCommand
  BY <1>1, <1>8 DEF SetThreshold, SetPrice, SetState, SetMode, HandleStep, ShowCommand
<1>9. CASE TakePrice \/ PriceTimeout \/ RepriceRelay \/ ShowRepriced
  BY <1>1, <1>9 DEF TakePrice, PriceTimeout, RepriceRelay, ShowRepriced
<1>10. CASE TakeStatusRequest \/ NoStatusRequest \/ UNCHANGED vars
  BY <1>1, <1>10 DEF TakeStatusRequest, NoStatusRequest, vars
<1>11. ASSUME Environment, ~Transmit
       PROVE  ReportsFollowPrice'
  BY <1>1, <1>11 DEF Environment, SendCommand, SendPrice, RequestStatus, Draw, ShowConnection
<1> QED
  BY <1>3, <1>4, <1>5, <1>6, <1>7, <1>8, <1>9, <1>10, <1>11 DEF Next, TaskStep

\* No report queued for the broker shows an automatic relay in a state that
\* contradicts the price and the threshold printed, with two decimals, in the same
\* report (relayTask.cpp:70-75, 88-93, 106-111, Relay.cpp:36-38).
THEOREM ReportsAreConsistent == Spec => []ReportsFollowPrice
<1>1. Init => ReportsFollowPrice
  BY DEF Init, ReportsFollowPrice
<1> QED
  BY <1>1, TypeCorrect, AutomaticRelaysFollowPrice, StepReports, PTL DEF Spec

-----------------------------------------------------------------------------
(* Relays in manual mode hold their state *)

\* The command in hand and the relay it names, until its mode is written: if the
\* relay is in manual mode, its pin is already what the command does not change,
\* and it becomes automatic only if the command says so.
CommandInHand ==
    pc \in {"threshold", "price", "state", "mode"} =>
        /\ relaySettings.state # "noStateChange" => target.state = (relaySettings.state = "on")
        /\ relaySettings.state = "noStateChange" /\ handled.mode = "manual" =>
               target.state = handled.pin
        /\ target.mode = "automatic" =>
               handled.mode = "automatic" \/ relaySettings.mode = "automatic"

\* A relay in manual mode keeps its mode and its pin when its price or its
\* threshold is written, and every relay keeps its mode.
LEMMA UpdateHolds ==
    ASSUME NEW r \in RelayRecord, NEW x \in Int
    PROVE  /\ UpdatePriceThreshold(r, x).mode = r.mode /\ UpdatePrice(r, x).mode = r.mode
           /\ r.mode = "manual" =>
                  UpdatePriceThreshold(r, x).pin = r.pin /\ UpdatePrice(r, x).pin = r.pin
BY DEF UpdatePriceThreshold, UpdatePrice, FollowPrice, ChangeState, RelayRecord

LEMMA HandlerStepHolds ==
    ASSUME NEW r \in RelayRecord, NEW c \in RelaySettings
    PROVE  /\ ThresholdStep(r, c).mode = r.mode /\ PriceStep(r, c).mode = r.mode
           /\ r.mode = "manual" =>
                  ThresholdStep(r, c).pin = r.pin /\ PriceStep(r, c).pin = r.pin
<1>1. c.threshold \in Int /\ c.price \in Int
  BY DEF RelaySettings
<1> QED
  BY <1>1, UpdateHolds DEF ThresholdStep, PriceStep

LEMMA StepInHand == TypeOK /\ CommandInHand /\ [Next]_vars => CommandInHand'
<1> SUFFICES ASSUME TypeOK, CommandInHand, [Next]_vars
             PROVE  CommandInHand'
  OBVIOUS
<1> USE DEF locals, inputs, outputs
<1>1. ASSUME UNCHANGED <<relays, relaySettings, target, pc>>
      PROVE  CommandInHand'
  BY <1>1 DEF CommandInHand, handled
<1>2. ASSUME pc' \notin {"threshold", "price", "state", "mode"}
      PROVE  CommandInHand'
  BY <1>2 DEF CommandInHand
<1>3. ASSUME pc \in Handling
      PROVE  /\ relaySettings \in RelaySettings /\ relaySettings.relayNumber \in Relays
             /\ handled \in RelayRecord
  BY <1>3 DEF TypeOK, handled
<1>4. ASSUME NEW at \in {"threshold", "price"}, NEW next \in {"price", "state"}, NEW r,
             HandleStep(at, next, r), r.mode = handled.mode,
             handled.mode = "manual" => r.pin = handled.pin
      PROVE  CommandInHand'
  <2>1. handled' = r
    BY <1>3, <1>4 DEF HandleStep, handled, TypeOK, Handling
  <2> QED
    BY <1>4, <2>1 DEF CommandInHand, HandleStep
<1>5. CASE SetThreshold
  BY <1>3, <1>4, <1>5, HandlerStepHolds DEF SetThreshold, HandleStep, Handling
<1>6. CASE SetPrice
  BY <1>3, <1>4, <1>6, HandlerStepHolds DEF SetPrice, HandleStep, Handling
<1>7. CASE SetState
  <2>1. pc = "state" /\ UNCHANGED <<relaySettings, target>>
        /\ relays' = [relays EXCEPT ![relaySettings.relayNumber] = ChangeState(handled, target.state)]
    BY <1>7 DEF SetState, HandleStep
  <2>2. handled' = ChangeState(handled, target.state)
    BY <1>3, <2>1 DEF handled, TypeOK, Handling
  <2>3. handled'.mode = handled.mode /\ handled'.pin = target.state
    BY <1>3, <2>1, <2>2 DEF ChangeState, RelayRecord, Handling
  <2> QED
    BY <2>1, <2>3 DEF CommandInHand
<1>8. CASE AcceptCommand
  <2> DEFINE c == Head(relayQueue)
             r == relays[c.relayNumber]
  <2>1. /\ c \in RelaySettings /\ r \in RelayRecord
        /\ UNCHANGED relays
        /\ relaySettings' = [c EXCEPT !.mode = IF c.state # "noStateChange" THEN "manual" ELSE c.mode]
        /\ target' = [mode |-> TargetMode(r, c), state |-> TargetState(r, c)]
    BY <1>8, TakeCommandType DEF AcceptCommand, TakeCommand, TypeOK
  <2>2. /\ relaySettings'.relayNumber = c.relayNumber /\ relaySettings'.state = c.state
        /\ relaySettings'.mode = IF c.state # "noStateChange" THEN "manual" ELSE c.mode
        /\ handled' = r
    BY <2>1 DEF RelaySettings, handled
  <2>3. target'.mode = "automatic" => r.mode = "automatic" \/ relaySettings'.mode = "automatic"
    BY <2>1, <2>2 DEF TargetMode
  <2>4. /\ c.state # "noStateChange" => target'.state = (c.state = "on")
        /\ c.state = "noStateChange" => target'.state = r.pin
    BY <2>1 DEF TargetState
  <2> QED
    BY <2>2, <2>3, <2>4 DEF CommandInHand
<1>9. CASE RejectCommand
  BY <1>1, <1>9 DEF RejectCommand, TakeCommand
<1>10. CASE Announce \/ StrayCommand \/ SetMode \/ ReportCommand \/ ShowCommand
  BY <1>2, <1>10 DEF Announce, NextRelay, StrayCommand, SetMode, HandleStep, ReportCommand, ShowCommand
<1>11. CASE NoCommandFound \/ TakePrice \/ PriceTimeout \/ RepriceRelay \/ ReportRepriced \/ ShowRepriced
  BY <1>2, <1>11 DEF NoCommandFound, TakePrice, PriceTimeout, RepriceRelay, ReportRepriced,
                     ShowRepriced, NextRelay
<1>12. CASE TakeStatusRequest \/ NoStatusRequest \/ SendStatus
  BY <1>2, <1>12 DEF TakeStatusRequest, NoStatusRequest, SendStatus, NextRelay
<1>13. CASE Environment
  BY <1>1, <1>13 DEF Environment, SendCommand, SendPrice, RequestStatus, Transmit, Draw, ShowConnection
<1>14. CASE UNCHANGED vars
  BY <1>1, <1>14 DEF vars
<1> QED
  BY <1>5, <1>6, <1>7, <1>8, <1>9, <1>10, <1>11, <1>12, <1>13, <1>14 DEF Next, TaskStep

\* A step of the handler that writes only the relay the command names.
LEMMA HandleStepWrites ==
    ASSUME TypeOK, NEW at \in Handling, NEW next, NEW q, HandleStep(at, next, q),
           NEW r \in Relays
    PROVE  /\ pc = at
           /\ r = relaySettings.relayNumber => relays[r] = handled /\ relays'[r] = q
           /\ r # relaySettings.relayNumber => relays'[r] = relays[r]
BY DEF TypeOK, HandleStep, handled, Handling

LEMMA StepManual ==
    ASSUME TypeOK, CommandInHand, [Next]_vars, NEW r \in Relays, ManualPinChange(r)
    PROVE  SwitchedByCommand(r)
<1> USE DEF ManualPinChange, locals, inputs, outputs
<1>1. ASSUME pc \in Handling
      PROVE  relaySettings \in RelaySettings /\ handled \in RelayRecord
                 /\ target.state \in BOOLEAN /\ target.mode \in Modes
  BY <1>1 DEF TypeOK, handled
<1>2. CASE SetThreshold
  <2>1. /\ pc = "threshold" /\ r = relaySettings.relayNumber
        /\ relays[r] = handled /\ relays'[r] = ThresholdStep(handled, relaySettings)
    BY <1>2, HandleStepWrites DEF SetThreshold, Handling
  <2> QED
    BY <1>1, <2>1, HandlerStepHolds DEF Handling
<1>3. CASE SetPrice
  <2>1. /\ pc = "price" /\ r = relaySettings.relayNumber
        /\ relays[r] = handled /\ relays'[r] = PriceStep(handled, relaySettings)
    BY <1>3, HandleStepWrites DEF SetPrice, Handling
  <2> QED
    BY <1>1, <2>1, HandlerStepHolds DEF Handling
<1>4. CASE SetState
  <2>1. /\ pc = "state" /\ r = relaySettings.relayNumber
        /\ relays[r] = handled /\ relays'[r] = ChangeState(handled, target.state)
    BY <1>4, HandleStepWrites DEF SetState, Handling
  <2>2. relays'[r].pin = target.state
    BY <1>1, <2>1 DEF ChangeState, RelayRecord, Handling
  <2>3. relaySettings.state # "noStateChange"
    BY <2>1, <2>2 DEF CommandInHand
  <2> QED
    BY <2>1, <2>2, <2>3 DEF CommandInHand, SwitchedByCommand
<1>5. CASE SetMode
  <2>1. /\ pc = "mode" /\ r = relaySettings.relayNumber
        /\ relays[r] = handled /\ relays'[r] = ChangeMode(handled, target.mode)
    BY <1>5, HandleStepWrites DEF SetMode, Handling
  <2>2. target.mode = "automatic"
    BY <1>1, <2>1 DEF ChangeMode, FollowPrice, RelayRecord, Handling
  <2> QED
    BY <2>1, <2>2 DEF CommandInHand, SwitchedByCommand
<1>6. CASE RepriceRelay
  <2>1. r = i => relays'[r] = UpdatePrice(relays[r], electricPrice)
    BY <1>6 DEF RepriceRelay, TypeOK
  <2>2. r # i => relays'[r] = relays[r]
    BY <1>6 DEF RepriceRelay, TypeOK
  <2> QED
    BY <2>1, <2>2, UpdateHolds DEF TypeOK
<1>7. CASE UNCHANGED relays
  BY <1>7
<1> QED
  <2>1. SetThreshold \/ SetPrice \/ SetState \/ SetMode \/ RepriceRelay \/ UNCHANGED relays
    BY DEF Next, TaskStep, Announce, RejectCommand, StrayCommand, AcceptCommand, TakeCommand,
           ReportCommand, ShowCommand, NoCommandFound, TakePrice, PriceTimeout, ReportRepriced,
           ShowRepriced, TakeStatusRequest, NoStatusRequest, SendStatus, Environment, SendCommand,
           SendPrice, RequestStatus, Transmit, Draw, ShowConnection, vars
  <2> QED
    BY <1>2, <1>3, <1>4, <1>5, <1>6, <1>7, <2>1

\* The pin of a relay in manual mode changes only in the handling of a command
\* that names it and asks for that state or for automatic mode; prices and
\* thresholds never reach it (relayTask.cpp:42-67, 101-115).
THEOREM ManualRelaysHold == Spec => ManualHolds
<1> DEFINE Holds == \A r \in Relays : ManualPinChange(r) => SwitchedByCommand(r)
<1>1. Init => CommandInHand
  BY DEF Init, CommandInHand
<1>2. TypeOK /\ CommandInHand /\ [Next]_vars => [Holds]_vars
  BY StepManual
<1> QED
  BY <1>1, <1>2, TypeCorrect, StepInHand, PTL DEF Spec, ManualHolds

-----------------------------------------------------------------------------
(* The task implements RelayControl *)

Seen == [r \in Relays |-> Promised(r)]

\* The four writes of a command's handler, made one after the other, give what
\* RelayControl says of the command.
LEMMA HandlerComputesCommanded ==
    ASSUME NEW r \in RelayRecord, NEW c \in RelaySettings
    PROVE  ChangeMode(ChangeState(PriceStep(ThresholdStep(r, c), c), TargetState(r, c)), TargetMode(r, c))
               = Control!Commanded(r, c)
<1> DEFINE r1 == ThresholdStep(r, c)
           r2 == PriceStep(r1, c)
           m  == TargetMode(r, c)
           s  == TargetState(r, c)
           x  == IF c.threshold # NoThreshold THEN c.threshold ELSE r.threshold
           p  == IF c.price # NoPrice THEN c.price ELSE r.price
           d  == [mode |-> m, pin |-> s, price |-> p, threshold |-> x]
<1>1. /\ r1 \in RelayRecord /\ r2 \in RelayRecord
      /\ r1.threshold = x /\ r1.price = r.price
  <2>1. /\ UpdatePriceThreshold(r, c.threshold).threshold = c.threshold
        /\ UpdatePriceThreshold(r, c.threshold).price = r.price
    BY DEF UpdatePriceThreshold, FollowPrice, ChangeState, RelayRecord
  <2> QED
    BY <2>1, HandlerStepType DEF ThresholdStep
<1>2. r2.threshold = x /\ r2.price = p
  <2>1. /\ UpdatePrice(r1, c.price).threshold = r1.threshold
        /\ UpdatePrice(r1, c.price).price = c.price
    BY <1>1 DEF UpdatePrice, FollowPrice, ChangeState, RelayRecord
  <2> HIDE DEF r1
  <2> QED
    BY <1>1, <2>1 DEF PriceStep
<1>3. m \in Modes /\ s \in BOOLEAN
  BY TargetType
<1>4. [[r2 EXCEPT !.pin = s] EXCEPT !.mode = m] = d
  <2> DEFINE e == [r2 EXCEPT !.pin = s]
             f == [e EXCEPT !.mode = m]
  <2>1. x \in Int /\ p \in Int
    BY DEF RelayRecord, RelaySettings
  <2> HIDE DEF r2, m, s, x, p
  <2>2. e \in RelayRecord /\ e.pin = s /\ e.threshold = x /\ e.price = p
    BY <1>1, <1>2, <1>3 DEF RelayRecord
  <2> HIDE DEF e
  <2>3. f \in RelayRecord /\ f.pin = s /\ f.threshold = x /\ f.price = p /\ f.mode = m
    BY <1>3, <2>2 DEF RelayRecord
  <2>4. f = [mode |-> f.mode, pin |-> f.pin, price |-> f.price, threshold |-> f.threshold]
    BY <2>3 DEF RelayRecord
  <2> QED
    BY <2>3, <2>4 DEF e
<1>5. ChangeMode(ChangeState(r2, s), m) = FollowPrice(d)
  BY <1>4 DEF ChangeMode, ChangeState
<1>6. FollowPrice(d) = Control!Follow(d)
  <2> HIDE DEF m, s, x, p
  <2> QED
    BY DEF FollowPrice, ChangeState, Cheap, Control!Follow
<1>8. Control!NoPrice = NoPrice /\ Control!NoThreshold = NoThreshold
  BY DEF Control!NoPrice, Control!NoThreshold, NoPrice, NoThreshold
<1>7. d = [mode      |-> IF c.state # "noStateChange" THEN "manual"
                         ELSE IF c.mode # "noModeChange" THEN c.mode ELSE r.mode,
           pin       |-> IF c.state # "noStateChange" THEN c.state = "on" ELSE r.pin,
           price     |-> IF c.price # NoPrice THEN c.price ELSE r.price,
           threshold |-> IF c.threshold # NoThreshold THEN c.threshold ELSE r.threshold]
  BY DEF TargetMode, TargetState
<1> HIDE DEF d
<1>9. Control!Follow(d) = Control!Commanded(r, c)
  BY <1>7, <1>8 DEF Control!Commanded
<1> QED
  BY <1>5, <1>6, <1>9

LEMMA UpdateComputesRepriced ==
    ASSUME NEW r \in RelayRecord, NEW p \in Int
    PROVE  UpdatePrice(r, p) = Control!Repriced(r, p)
BY DEF UpdatePrice, FollowPrice, ChangeState, Cheap, RelayRecord, Control!Repriced, Control!Follow

\* Outside the handling of a command and of a price, RelayControl sees the relays
\* as they are.
LEMMA SeenAtRest ==
    ASSUME NEW r \in Relays,
           pc \notin {"threshold", "price", "state", "mode", "reprice", "reportRepriced", "showRepriced"}
    PROVE  Promised(r) = relays[r]
BY DEF Promised, StillToReprice

\* In the handling of a command it sees the rest of the steps.
LEMMA SeenInHand ==
    ASSUME NEW r \in Relays,
           pc \in {"threshold", "price", "state", "mode"}
    PROVE  /\ r # relaySettings.relayNumber => Promised(r) = relays[r]
           /\ r = relaySettings.relayNumber =>
                  /\ pc = "threshold" => Promised(r) = AfterThreshold(relays[r])
                  /\ pc = "price" => Promised(r) = AfterPrice(relays[r])
                  /\ pc = "state" => Promised(r) = AfterState(relays[r])
                  /\ pc = "mode" => Promised(r) = ChangeMode(relays[r], target.mode)
BY DEF Promised, StillToReprice

\* In the handling of a price it sees the relays still to come.
LEMMA SeenRepriced ==
    ASSUME NEW r \in Relays,
           pc \in {"reprice", "reportRepriced", "showRepriced"}
    PROVE  Promised(r) = IF StillToReprice(r) THEN UpdatePrice(relays[r], electricPrice)
                         ELSE relays[r]
<1>1. CASE StillToReprice(r)
  BY <1>1 DEF Promised
<1>2. CASE ~StillToReprice(r)
  BY <1>2 DEF Promised
<1> QED
  BY <1>1, <1>2

\* A loop over the relays leaves its index at 0, so the next one starts there.
IndexAtRest == pc \notin {"announce", "reprice", "reportRepriced", "showRepriced", "status"} => i = 0

LEMMA StepIndex == IndexAtRest /\ [Next]_vars => IndexAtRest'
<1> SUFFICES ASSUME IndexAtRest, [Next]_vars
             PROVE  IndexAtRest'
  OBVIOUS
<1> USE DEF IndexAtRest, locals, inputs, outputs
<1>1. CASE Announce \/ ShowRepriced \/ SendStatus
  BY <1>1 DEF Announce, ShowRepriced, SendStatus, NextRelay
<1>2. CASE RejectCommand \/ StrayCommand \/ AcceptCommand \/ NoCommandFound
  BY <1>2 DEF RejectCommand, StrayCommand, AcceptCommand, TakeCommand, NoCommandFound
<1>3. CASE SetThreshold \/ SetPrice \/ SetState \/ SetMode \/ ReportCommand \/ ShowCommand
  BY <1>3 DEF SetThreshold, SetPrice, SetState, SetMode, HandleStep, ReportCommand, ShowCommand
<1>4. CASE TakePrice \/ PriceTimeout \/ RepriceRelay \/ ReportRepriced
  BY <1>4 DEF TakePrice, PriceTimeout, RepriceRelay, ReportRepriced
<1>5. CASE TakeStatusRequest \/ NoStatusRequest \/ UNCHANGED vars
  BY <1>5 DEF TakeStatusRequest, NoStatusRequest, vars
<1>6. CASE Environment
  BY <1>6 DEF Environment, SendCommand, SendPrice, RequestStatus, Transmit, Draw, ShowConnection
<1> QED
  BY <1>1, <1>2, <1>3, <1>4, <1>5, <1>6 DEF Next, TaskStep

\* Accepting a command changes what RelayControl sees of the relay it names, at
\* once and as RelayControl says.
LEMMA AcceptSeen ==
    ASSUME TypeOK, AcceptCommand
    PROVE  LET c == Head(relayQueue)
           IN  /\ c \in Commands /\ c \in RelaySettings /\ c.relayNumber \in Relays
               /\ \A r \in Relays :
                      Promised(r)' = IF r = c.relayNumber THEN Control!Commanded(Promised(r), c)
                                     ELSE Promised(r)
<1>0. Head(relayQueue) \in Commands /\ Head(relayQueue) \in RelaySettings
  BY TakeCommandType, TakeType, QueueLenAssumption DEF AcceptCommand, TakeCommand, TypeOK
<1>c. PICK c \in RelaySettings : c = Head(relayQueue)
  BY <1>0
<1> DEFINE k == c.relayNumber
           r0 == relays[k]
<1>1. /\ k \in Relays /\ r0 \in RelayRecord
      /\ pc = "receive" /\ pc' = "threshold" /\ UNCHANGED relays
      /\ relaySettings' = [c EXCEPT !.mode = IF c.state # "noStateChange" THEN "manual" ELSE c.mode]
      /\ target' = [mode |-> TargetMode(r0, c), state |-> TargetState(r0, c)]
  BY <1>c DEF AcceptCommand, TakeCommand, TypeOK
<1>2. /\ relaySettings'.relayNumber = k /\ relaySettings'.threshold = c.threshold
      /\ relaySettings'.price = c.price
      /\ target'.mode = TargetMode(r0, c) /\ target'.state = TargetState(r0, c)
  BY <1>1 DEF RelaySettings
<1>3. \A r \in Relays : Promised(r) = relays[r]
  BY <1>1, SeenAtRest
<1>4. \A r \in Relays \ {k} : Promised(r)' = relays[r]
  BY <1>1, <1>2 DEF Promised, StillToReprice
<1>5. Promised(k)' = Control!Commanded(r0, c)
  <2>1. Promised(k)' = AfterThreshold(relays[k])'
    BY <1>1, <1>2 DEF Promised, StillToReprice
  <2>2. AfterThreshold(relays[k])' =
            ChangeMode(ChangeState(PriceStep(ThresholdStep(r0, c), c), TargetState(r0, c)),
                       TargetMode(r0, c))
    BY <1>1, <1>2 DEF AfterThreshold, AfterPrice, AfterState, PriceStep, ThresholdStep
  <2> QED
    BY <1>1, <2>1, <2>2, HandlerComputesCommanded
<1>6. ASSUME NEW r \in Relays
      PROVE  Promised(r)' = IF r = k THEN Control!Commanded(Promised(r), c) ELSE Promised(r)
  BY <1>1, <1>3, <1>4, <1>5
<1> QED
  BY <1>0, <1>c, <1>1, <1>6

\* Taking a price changes what it sees of every relay.
LEMMA TakePriceSeen ==
    ASSUME TypeOK, IndexAtRest, TakePrice
    PROVE  /\ Head(priceQueue) \in Prices
           /\ \A r \in Relays : Promised(r)' = Control!Repriced(Promised(r), Head(priceQueue))
<1>1. /\ electricPrice' \in Prices /\ electricPrice' \in Int /\ electricPrice' = Head(priceQueue)
      /\ pc = "pricewait" /\ pc' = "reprice" /\ UNCHANGED <<relays, i>>
  BY CommandsAssumption, TakeType, QueueLenAssumption DEF TakePrice, TypeOK
<1>2. PICK p \in Prices : p = electricPrice' /\ p \in Int
  BY <1>1
<1>3. \A r \in Relays : Promised(r) = relays[r]
  BY <1>1, SeenAtRest
<1>4. ASSUME NEW r \in Relays
      PROVE  Promised(r)' = Control!Repriced(relays[r], p)
  <2>1. i = 0 /\ r >= 0
    BY <1>1 DEF IndexAtRest, Relays
  <2>2. StillToReprice(r)'
    BY <1>1, <2>1 DEF StillToReprice
  <2>3. Promised(r)' = UpdatePrice(relays[r], p)
    BY <1>1, <1>2, <2>2 DEF Promised
  <2> QED
    BY <1>2, <2>3, UpdateComputesRepriced DEF TypeOK
<1> QED
  BY <1>1, <1>2, <1>3, <1>4

\* No other step changes what it sees.
LEMMA OthersUnseen ==
    ASSUME TypeOK, [Next]_vars, ~AcceptCommand, ~TakePrice
    PROVE  \A r \in Relays : Promised(r)' = Promised(r)
<1> USE DEF locals, inputs, outputs
<1>1. ASSUME UNCHANGED <<relays, pc, relaySettings, target, electricPrice, i>>
      PROVE  \A r \in Relays : Promised(r)' = Promised(r)
  BY <1>1 DEF Promised, StillToReprice, AfterThreshold, AfterPrice, AfterState
<1>2. ASSUME UNCHANGED relays,
             {pc, pc'} \cap {"threshold", "price", "state", "mode",
                             "reprice", "reportRepriced", "showRepriced"} = {}
      PROVE  \A r \in Relays : Promised(r)' = Promised(r)
  BY <1>2, SeenAtRest DEF Promised, StillToReprice
<1> DEFINE n == relaySettings.relayNumber
<1>3. ASSUME NEW at \in Handling, NEW next, NEW q, HandleStep(at, next, q), NEW r \in Relays
      PROVE  /\ pc = at /\ pc' = next /\ UNCHANGED <<relaySettings, target>>
             /\ r = n => relays[r] = handled /\ relays'[r] = q
             /\ r # n => relays'[r] = relays[r]
  BY <1>3, HandleStepWrites DEF HandleStep
<1>4. CASE SetThreshold
  <2> SUFFICES ASSUME NEW r \in Relays
               PROVE  Promised(r)' = Promised(r)
    OBVIOUS
  <2>1. /\ pc = "threshold" /\ pc' = "price" /\ UNCHANGED <<relaySettings, target>>
        /\ r = n => relays'[r] = ThresholdStep(relays[r], relaySettings)
        /\ r # n => relays'[r] = relays[r]
    BY <1>3, <1>4 DEF SetThreshold, Handling
  <2>2. CASE r = n
    <3>1. Promised(r)' = AfterPrice(relays[r])'
      BY <2>1, <2>2 DEF Promised, StillToReprice
    <3>2. Promised(r) = AfterThreshold(relays[r])
      BY <2>1, <2>2, SeenInHand
    <3> QED
      BY <2>1, <2>2, <3>1, <3>2 DEF AfterThreshold, AfterPrice, AfterState
  <2>3. CASE r # n
    BY <2>1, <2>3 DEF Promised, StillToReprice
  <2> QED
    BY <2>2, <2>3
<1>5. CASE SetPrice
  <2> SUFFICES ASSUME NEW r \in Relays
               PROVE  Promised(r)' = Promised(r)
    OBVIOUS
  <2>1. /\ pc = "price" /\ pc' = "state" /\ UNCHANGED <<relaySettings, target>>
        /\ r = n => relays'[r] = PriceStep(relays[r], relaySettings)
        /\ r # n => relays'[r] = relays[r]
    BY <1>3, <1>5 DEF SetPrice, Handling
  <2>2. CASE r = n
    <3>1. Promised(r)' = AfterState(relays[r])'
      BY <2>1, <2>2 DEF Promised, StillToReprice
    <3>2. Promised(r) = AfterPrice(relays[r])
      BY <2>1, <2>2, SeenInHand
    <3> QED
      BY <2>1, <2>2, <3>1, <3>2 DEF AfterPrice, AfterState
  <2>3. CASE r # n
    BY <2>1, <2>3 DEF Promised, StillToReprice
  <2> QED
    BY <2>2, <2>3
<1>6. CASE SetState
  <2> SUFFICES ASSUME NEW r \in Relays
               PROVE  Promised(r)' = Promised(r)
    OBVIOUS
  <2>1. /\ pc = "state" /\ pc' = "mode" /\ UNCHANGED <<relaySettings, target>>
        /\ r = n => relays'[r] = ChangeState(relays[r], target.state)
        /\ r # n => relays'[r] = relays[r]
    BY <1>3, <1>6 DEF SetState, Handling
  <2>2. CASE r = n
    <3>1. Promised(r)' = ChangeMode(relays[r], target.mode)'
      BY <2>1, <2>2 DEF Promised, StillToReprice
    <3>2. Promised(r) = AfterState(relays[r])
      BY <2>1, <2>2, SeenInHand
    <3> QED
      BY <2>1, <2>2, <3>1, <3>2 DEF AfterState
  <2>3. CASE r # n
    BY <2>1, <2>3 DEF Promised, StillToReprice
  <2> QED
    BY <2>2, <2>3
<1>7. CASE SetMode
  <2> SUFFICES ASSUME NEW r \in Relays
               PROVE  Promised(r)' = Promised(r)
    OBVIOUS
  <2>1. /\ pc = "mode" /\ pc' = "report" /\ UNCHANGED <<relaySettings, target>>
        /\ r = n => relays'[r] = ChangeMode(relays[r], target.mode)
        /\ r # n => relays'[r] = relays[r]
    BY <1>3, <1>7 DEF SetMode, Handling
  <2>2. Promised(r)' = relays'[r]
    BY <2>1 DEF Promised, StillToReprice
  <2> QED
    BY <2>1, <2>2, SeenInHand
<1>8. CASE RepriceRelay
  <2> SUFFICES ASSUME NEW r \in Relays
               PROVE  Promised(r)' = Promised(r)
    OBVIOUS
  <2>1. /\ pc = "reprice" /\ pc' = "reportRepriced" /\ UNCHANGED <<i, electricPrice>>
        /\ i \in Int /\ r \in Int
        /\ r = i => relays'[r] = UpdatePrice(relays[r], electricPrice)
        /\ r # i => relays'[r] = relays[r]
    BY <1>8 DEF RepriceRelay, TypeOK, Relays
  <2>2. CASE r = i
    <3>1. StillToReprice(r) /\ ~StillToReprice(r)'
      BY <2>1, <2>2 DEF StillToReprice
    <3>2. Promised(r)' = relays'[r]
      BY <2>1, <3>1 DEF Promised
    <3>3. Promised(r) = UpdatePrice(relays[r], electricPrice)
      BY <2>1, <3>1, SeenRepriced
    <3> QED
      BY <2>1, <2>2, <3>2, <3>3
  <2>3. CASE r # i
    <3>1. StillToReprice(r)' <=> StillToReprice(r)
      BY <2>1, <2>3 DEF StillToReprice
    <3> QED
      BY <2>1, <2>3, <3>1 DEF Promised
  <2> QED
    BY <2>2, <2>3
<1>9. CASE ReportRepriced
  <2> SUFFICES ASSUME NEW r \in Relays
               PROVE  Promised(r)' = Promised(r)
    OBVIOUS
  <2>1. pc = "reportRepriced" /\ pc' = "showRepriced" /\ UNCHANGED <<relays, locals>>
    BY <1>9 DEF ReportRepriced
  <2>2. StillToReprice(r)' <=> StillToReprice(r)
    BY <2>1 DEF StillToReprice
  <2> QED
    BY <2>1, <2>2 DEF Promised
<1>10. CASE ShowRepriced
  <2> SUFFICES ASSUME NEW r \in Relays
               PROVE  Promised(r)' = Promised(r)
    OBVIOUS
  <2>1. /\ pc = "showRepriced" /\ UNCHANGED <<relays, relaySettings, target>>
        /\ i \in Int /\ r \in Int /\ r < NumRelays /\ NumRelays \in Int
    BY <1>10, NumRelaysAssumption DEF ShowRepriced, TypeOK, Relays
  <2>2. CASE i + 1 < NumRelays
    <3>1. i' = i + 1 /\ pc' = "reprice" /\ electricPrice' = electricPrice
      BY <1>10, <2>2 DEF ShowRepriced, NextRelay
    <3>2. StillToReprice(r)' <=> StillToReprice(r)
      BY <2>1, <3>1 DEF StillToReprice
    <3> QED
      BY <2>1, <3>1, <3>2 DEF Promised
  <2>3. CASE ~(i + 1 < NumRelays)
    <3>1. pc' = "poll"
      BY <1>10, <2>3 DEF ShowRepriced, NextRelay
    <3>2. ~StillToReprice(r)
      BY <2>1, <2>3 DEF StillToReprice
    <3> QED
      BY <2>1, <3>1, <3>2, SeenRepriced DEF Promised, StillToReprice
  <2> QED
    BY <2>2, <2>3
<1>11. CASE Announce \/ SendStatus
  BY <1>2, <1>11 DEF Announce, SendStatus, NextRelay
<1>12. CASE RejectCommand \/ StrayCommand \/ NoCommandFound \/ PriceTimeout
  BY <1>2, <1>12 DEF RejectCommand, StrayCommand, TakeCommand, NoCommandFound, PriceTimeout
<1>13. CASE ReportCommand \/ ShowCommand \/ TakeStatusRequest \/ NoStatusRequest
  BY <1>2, <1>13 DEF ReportCommand, ShowCommand, TakeStatusRequest, NoStatusRequest
<1>14. CASE Environment
  BY <1>1, <1>14 DEF Environment, SendCommand, SendPrice, RequestStatus, Transmit, Draw,
                           ShowConnection
<1>15. CASE UNCHANGED vars
  BY <1>1, <1>15 DEF vars
<1> QED
  BY <1>4, <1>5, <1>6, <1>7, <1>8, <1>9, <1>10, <1>11, <1>12, <1>13, <1>14, <1>15
     DEF Next, TaskStep

\* So every step is one of RelayControl or a stutter.
LEMMA StepSeen ==
    ASSUME TypeOK, IndexAtRest, [Next]_vars
    PROVE  [Control!Next]_Seen
<1>1. Relays = Control!Relays
  BY DEF Relays, Control!Relays
<1>2. CASE AcceptCommand
  <2> DEFINE c == Head(relayQueue)
  <2>1. /\ c \in Commands /\ c.relayNumber \in Relays
        /\ \A r \in Relays : Seen'[r] = IF r = c.relayNumber THEN Control!Commanded(Seen[r], c) ELSE Seen[r]
    BY <1>2, AcceptSeen DEF Seen
  <2>2. Seen' = [Seen EXCEPT ![c.relayNumber] = Control!Commanded(Seen[c.relayNumber], c)]
    BY <2>1 DEF Seen
  <2>3. Control!Command(c)
    BY <1>1, <2>1, <2>2 DEF Control!Command, Seen
  <2> QED
    BY <2>1, <2>3 DEF Control!Next
<1>3. CASE TakePrice
  <2> DEFINE p == Head(priceQueue)
  <2>1. p \in Prices /\ Seen' = [r \in Relays |-> Control!Repriced(Seen[r], p)]
    BY <1>3, TakePriceSeen DEF Seen
  <2>2. Control!Reprice(p)
    BY <1>1, <2>1 DEF Control!Reprice, Seen
  <2> QED
    BY <2>1, <2>2 DEF Control!Next
<1>4. CASE ~AcceptCommand /\ ~TakePrice
  BY <1>4, OthersUnseen DEF Seen
<1> QED
  BY <1>2, <1>3, <1>4

\* Every run of the task is a run of RelayControl: the steps of a command, and of
\* a price message for all the relays, take effect as one, with the outcome
\* RelayControl states (relayTask.cpp:22-84, 101-115, Relay.cpp:50-85).
THEOREM ImplementsRelayControl == Spec => Refines
<1>1. Init => Control!Init
  <2> SUFFICES ASSUME Init PROVE Control!Init
    OBVIOUS
  <2>1. \A r \in Relays : Promised(r) = relays[r]
    BY SeenAtRest DEF Init
  <2>2. Seen = relays
    BY <2>1 DEF Seen, Init
  <2> QED
    BY <2>2 DEF Seen, Init, Control!Init, Relays, Control!Relays
<1>2. Init => IndexAtRest
  BY DEF Init, IndexAtRest
<1> QED
  BY <1>1, <1>2, TypeCorrect, StepIndex, StepSeen, PTL DEF Spec, Refines, Control!Spec, Seen

-----------------------------------------------------------------------------
(* Every iteration ends                                                    *)

\* A loop over the relays comes nearer to its end.
LEMMA NextRelayNearer ==
    ASSUME i \in Relays, NEW body, NEW done, NextRelay(body, done)
    PROVE  \/ pc' = body /\ i' = i + 1 /\ i' \in Relays
           \/ pc' = done /\ i' = 0
BY NumRelaysAssumption DEF NextRelay, Relays

\* The table StepsLeft is.
StepsLeftTable ==
    /\ pc \in {"announce", "status"} => StepsLeft = NumRelays - i
    /\ pc = "poll"                   => StepsLeft = NumRelays + 1
    /\ pc = "reprice"                => StepsLeft = 3 * (NumRelays - i) + NumRelays + 1
    /\ pc = "reportRepriced"         => StepsLeft = 3 * (NumRelays - i) + NumRelays
    /\ pc = "showRepriced"           => StepsLeft = 3 * (NumRelays - i) + NumRelays - 1
    /\ pc = "pricewait"              => StepsLeft = 4 * NumRelays + 2
    /\ pc = "threshold"              => StepsLeft = NumRelays + 7
    /\ pc = "price"                  => StepsLeft = NumRelays + 6
    /\ pc = "state"                  => StepsLeft = NumRelays + 5
    /\ pc = "mode"                   => StepsLeft = NumRelays + 4
    /\ pc = "report"                 => StepsLeft = NumRelays + 3
    /\ pc = "show"                   => StepsLeft = NumRelays + 2
    /\ pc \in {"receive", "fault"}   => StepsLeft = 0

LEMMA StepsLeftIs == StepsLeftTable
BY DEF StepsLeft, StepsLeftTable

LEMMA StepsLeftIsNext == StepsLeftTable'
BY StepsLeftIs, PTL

LEMMA StepNearer ==
    ASSUME TypeOK, TaskStep
    PROVE  IF pc = "receive" THEN StepsLeft' <= 4 * NumRelays + 4
                             ELSE StepsLeft' \in 0 .. StepsLeft - 1
<1>0. NumRelays \in Nat /\ NumRelays > 0 /\ i \in Int /\ 0 <= i /\ i < NumRelays
  BY NumRelaysAssumption DEF TypeOK, Relays
<1>1. CASE RejectCommand \/ StrayCommand \/ AcceptCommand \/ NoCommandFound
  <2>1. pc = "receive" /\ pc' \in {"receive", "fault", "threshold", "pricewait"}
    BY <1>1 DEF RejectCommand, StrayCommand, AcceptCommand, TakeCommand, NoCommandFound
  <2>2. StepsLeft' <= 4 * NumRelays + 4
    BY <1>0, <2>1, StepsLeftIs, StepsLeftIsNext DEF StepsLeftTable
  <2> QED
    BY <2>1, <2>2
<1>2. CASE SetThreshold \/ SetPrice \/ SetState \/ SetMode \/ ReportCommand \/ ShowCommand
  <2>1. <<pc, pc'>> \in {<<"threshold", "price">>, <<"price", "state">>, <<"state", "mode">>,
                         <<"mode", "report">>, <<"report", "show">>, <<"show", "poll">>}
    BY <1>2 DEF SetThreshold, SetPrice, SetState, SetMode, HandleStep, ReportCommand, ShowCommand
  <2>2. StepsLeft \in Int /\ StepsLeft' = StepsLeft - 1 /\ StepsLeft' >= 0 /\ pc # "receive"
    BY <1>0, <2>1, StepsLeftIs, StepsLeftIsNext DEF StepsLeftTable
  <2> QED
    BY <2>2
<1>3. CASE TakePrice \/ PriceTimeout
  <2>1. pc = "pricewait" /\ i' = i /\ pc' \in {"reprice", "poll"}
    BY <1>3 DEF TakePrice, PriceTimeout, locals
  <2> QED
    BY <1>0, <2>1, StepsLeftIs, StepsLeftIsNext DEF StepsLeftTable
<1>4. CASE RepriceRelay \/ ReportRepriced
  <2>1. /\ i' = i
        /\ \/ pc = "reprice" /\ pc' = "reportRepriced"
           \/ pc = "reportRepriced" /\ pc' = "showRepriced"
    BY <1>4 DEF RepriceRelay, ReportRepriced, locals
  <2> QED
    BY <1>0, <2>1, StepsLeftIs, StepsLeftIsNext DEF StepsLeftTable
<1>5. CASE TakeStatusRequest \/ NoStatusRequest
  <2>1. pc = "poll" /\ i' = i /\ pc' \in {"status", "receive"}
    BY <1>5 DEF TakeStatusRequest, NoStatusRequest, locals
  <2> QED
    BY <1>0, <2>1, StepsLeftIs, StepsLeftIsNext DEF StepsLeftTable
<1>6. CASE Announce
  <2>1. pc = "announce" /\ NextRelay("announce", "receive")
    BY <1>6 DEF Announce
  <2> QED
    BY <1>0, <2>1, StepsLeftIs, StepsLeftIsNext, NextRelayNearer DEF StepsLeftTable, Relays
<1>7. CASE SendStatus
  <2>1. pc = "status" /\ NextRelay("status", "receive")
    BY <1>7 DEF SendStatus
  <2> QED
    BY <1>0, <2>1, StepsLeftIs, StepsLeftIsNext, NextRelayNearer DEF StepsLeftTable, Relays
<1>8. CASE ShowRepriced
  <2>1. pc = "showRepriced" /\ NextRelay("reprice", "poll")
    BY <1>8 DEF ShowRepriced
  <2> QED
    BY <1>0, <2>1, StepsLeftIs, StepsLeftIsNext, NextRelayNearer DEF StepsLeftTable, Relays
<1> QED
  BY <1>1, <1>2, <1>3, <1>4, <1>5, <1>6, <1>7, <1>8 DEF TaskStep

\* However many relays there are and whatever the other tasks do, the relay task is
\* back at its queues after at most 4 * NumRelays + 5 steps of its own
\* (relayTask.cpp:22-97): with a scheduler that keeps running it, it receives
\* for ever.
THEOREM IterationsEnd == Spec => IterationEnds
<1> DEFINE Nearer == TaskStep => IF pc = "receive" THEN StepsLeft' <= 4 * NumRelays + 4
                                                   ELSE StepsLeft' \in 0 .. StepsLeft - 1
<1>1. TypeOK /\ [Next]_vars => [Nearer]_vars
  BY StepNearer
<1> QED
  BY <1>1, TypeCorrect, PTL DEF Spec, IterationEnds
=============================================================================
