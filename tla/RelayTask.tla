------------------------------ MODULE RelayTask ------------------------------
(***************************************************************************)
(* The relay task (relayTask.cpp) and the relays it owns (Relay.cpp).      *)
(*                                                                         *)
(* The task takes commands from relayQueue and, when there is none, prices *)
(* from priceQueue; it drives one output pin per relay and reports every   *)
(* change to mqttTransmitQueue (drained by the internet task) and to       *)
(* displayQueue (drained by the display task).  One action is one step of  *)
(* the task that another task, or whoever looks at the pins, can tell      *)
(* apart.  The other tasks are the actions of Environment.                 *)
(***************************************************************************)
EXTENDS Messages

CONSTANTS Commands,             \* the RelaySettings the other tasks send
          Prices,               \* the prices the MQTT task sends (hour0 of six)
          ConnectionUpdates,    \* what the Wi-Fi and MQTT handlers send to displayQueue
          RelayQueueLen, PriceQueueLen, TransmitQueueLen, DisplayQueueLen

ASSUME CommandsAssumption == Commands \subseteq RelaySettings /\ Prices \subseteq Int
ASSUME UpdatesAssumption == ConnectionUpdates \subseteq DisplayMessage
ASSUME QueueLenAssumption ==
    {RelayQueueLen, PriceQueueLen, TransmitQueueLen, DisplayQueueLen} \subseteq Nat \ {0}

VARIABLES
    relays,                     \* the relays, with the level of their pins
    pc,                         \* where the task is; the names are explained at the actions
    relaySettings, target,      \* the command in hand; its local mode and state
    electricPrice,              \* the price in hand
    i,                          \* the index of the loop the task is in
    relayQueue, priceQueue, sendRelayStatusSemaphore, mqttTransmitQueue, displayQueue

locals == <<relaySettings, target, electricPrice, i>>
inputs == <<relayQueue, priceQueue, sendRelayStatusSemaphore>>
outputs == <<mqttTransmitQueue, displayQueue>>
vars == <<relays, pc, locals, inputs, outputs>>

-----------------------------------------------------------------------------
(* Relay.cpp *)

Cheap(r) == r.price < r.threshold

ChangeState(r, state) == [r EXCEPT !.pin = state]

\* Mutant of FollowPrice: the mode is not asked.
FollowPriceAlways(r) == ChangeState(r, Cheap(r))

FollowPrice(r) == IF r.mode = "automatic" THEN ChangeState(r, Cheap(r)) ELSE r

UpdatePriceThreshold(r, threshold) == FollowPrice([r EXCEPT !.threshold = threshold])

\* Mutant of UpdatePrice: the pin waits for the next command.
UpdatePriceOnly(r, price) == [r EXCEPT !.price = price]

UpdatePrice(r, price) == FollowPrice([r EXCEPT !.price = price])

\* Mutant of ChangeMode: the pin is left as the manual mode had it.
ChangeModeOnly(r, mode) == [r EXCEPT !.mode = mode]

ChangeMode(r, mode) == FollowPrice([r EXCEPT !.mode = mode])

Status(n) == [relay |-> n, mode |-> relays[n].mode, pin |-> relays[n].pin,
              price |-> Printed(relays[n].price), threshold |-> Printed(relays[n].threshold)]

\* What sendUpdatedRelayToDisplay builds.
RelayUpdate(n) == [updateType |-> "RELAY_UPDATE", relay |-> n, pin |-> relays[n].pin,
                   mode |-> relays[n].mode, threshold |-> relays[n].threshold]

-----------------------------------------------------------------------------
(* The values a local variable has while the code does not read it again   *)
(* are all modelled by one value.                                          *)

NoCommand == [relayNumber |-> 0, state |-> "noStateChange", mode |-> "noModeChange",
              threshold |-> NoThreshold, price |-> NoPrice]
NoTarget == [mode |-> "manual", state |-> FALSE]

\* initialize() does not drive the pin: a restart of the chip leaves it at the
\* level it had.
Init ==
    /\ relays \in [Relays -> [mode : {"manual"}, pin : BOOLEAN, price : {0}, threshold : {0}]]
    /\ pc = "announce"
    /\ relaySettings = NoCommand /\ target = NoTarget /\ electricPrice = 0 /\ i = 0
    /\ relayQueue = <<>> /\ priceQueue = <<>> /\ sendRelayStatusSemaphore = FALSE
    /\ mqttTransmitQueue = <<>> /\ displayQueue = <<>>

\* xQueueSend with a timeout of 100 ticks.  While the queue is full the task
\* waits, which is a step not yet taken; the step on a full queue is the timeout,
\* and the message is lost.
Send(queue, n, m) == IF HasRoom(queue, n) THEN Append(queue, m) ELSE queue

\* Mutant of NextRelay: the loop runs one relay too far.
NextRelayTooFar(body, done) ==
    IF i < NumRelays THEN i' = i + 1 /\ pc' = body
                     ELSE i' = 0 /\ pc' = done

\* The end of the body of a loop over the relays.
NextRelay(body, done) ==
    IF i + 1 < NumRelays THEN i' = i + 1 /\ pc' = body
                         ELSE i' = 0 /\ pc' = done

\* "announce": every relay goes to the display once, before the first command.
Announce ==
    /\ pc = "announce"
    /\ displayQueue' = Send(displayQueue, DisplayQueueLen, RelayUpdate(i))
    /\ NextRelay("announce", "receive")
    /\ UNCHANGED <<relays, relaySettings, target, electricPrice, inputs, mqttTransmitQueue>>

-----------------------------------------------------------------------------
(* "receive": the non-blocking look at relayQueue that starts an iteration *)

TakeCommand ==
    /\ pc = "receive"
    /\ relayQueue # <<>>
    /\ relayQueue' = Tail(relayQueue)
    /\ UNCHANGED <<relays, electricPrice, i, priceQueue, sendRelayStatusSemaphore, outputs>>

\* Too large a relay number: the code goes straight to the next iteration, past
\* the semaphore and the delay.
RejectCommand ==
    /\ TakeCommand
    /\ Head(relayQueue).relayNumber > NumRelays - 1
    /\ UNCHANGED <<pc, relaySettings, target>>

\* A negative relay number passes the check and indexes memory before the array:
\* nothing is said of the task from here on.
StrayCommand ==
    /\ TakeCommand
    /\ Head(relayQueue).relayNumber < 0
    /\ pc' = "fault"
    /\ UNCHANGED <<relaySettings, target>>

\* Mutant of TargetMode: a state leaves the mode as it is.
TargetModeKept(r, c) == IF c.mode # "noModeChange" THEN c.mode ELSE r.mode

\* The local mode and state a command asks of relay r.
TargetMode(r, c) ==
    IF c.state # "noStateChange" THEN "manual"
    ELSE IF c.mode # "noModeChange" THEN c.mode ELSE r.mode

TargetState(r, c) == IF c.state # "noStateChange" THEN c.state = "on" ELSE r.pin

AcceptCommand ==
    /\ TakeCommand
    /\ LET c == Head(relayQueue)
       IN  /\ c.relayNumber \in Relays
           /\ relaySettings' = [c EXCEPT !.mode = IF c.state # "noStateChange" THEN "manual" ELSE c.mode]
           /\ target' = [mode  |-> TargetMode(relays[c.relayNumber], c),
                         state |-> TargetState(relays[c.relayNumber], c)]
    /\ pc' = "threshold"

-----------------------------------------------------------------------------
(* The handling of a command: one step per write to the relay              *)

\* Relay r after the step of the handler of command c that is named.
ThresholdStep(r, c) ==
    IF c.threshold # NoThreshold THEN UpdatePriceThreshold(r, c.threshold) ELSE r

PriceStep(r, c) == IF c.price # NoPrice THEN UpdatePrice(r, c.price) ELSE r

HandleStep(at, next, r) ==
    /\ pc = at
    /\ pc' = next
    /\ relays' = [relays EXCEPT ![relaySettings.relayNumber] = r]
    /\ UNCHANGED <<locals, inputs, outputs>>

handled == relays[relaySettings.relayNumber]

SetThreshold == HandleStep("threshold", "price", ThresholdStep(handled, relaySettings))
SetPrice == HandleStep("price", "state", PriceStep(handled, relaySettings))
SetState == HandleStep("state", "mode", ChangeState(handled, target.state))
SetMode == HandleStep("mode", "report", ChangeMode(handled, target.mode))

\* Mutant of ReportCommand: it waits for room for ever.
ReportCommandWaits ==
    /\ pc = "report"
    /\ HasRoom(mqttTransmitQueue, TransmitQueueLen)
    /\ mqttTransmitQueue' = Append(mqttTransmitQueue, Status(relaySettings.relayNumber))
    /\ pc' = "show"
    /\ UNCHANGED <<relays, locals, inputs, displayQueue>>

ReportCommand ==
    /\ pc = "report"
    /\ mqttTransmitQueue' = Send(mqttTransmitQueue, TransmitQueueLen, Status(relaySettings.relayNumber))
    /\ pc' = "show"
    /\ UNCHANGED <<relays, locals, inputs, displayQueue>>

\* Mutant of ShowCommand: only a new state is shown.
ShowCommandState ==
    /\ pc = "show"
    /\ displayQueue' = IF relaySettings.state = "noStateChange" THEN displayQueue
                       ELSE Send(displayQueue, DisplayQueueLen, RelayUpdate(relaySettings.relayNumber))
    /\ pc' = "poll"
    /\ relaySettings' = NoCommand /\ target' = NoTarget
    /\ UNCHANGED <<relays, electricPrice, i, inputs, mqttTransmitQueue>>

ShowCommand ==
    /\ pc = "show"
    /\ displayQueue' = Send(displayQueue, DisplayQueueLen, RelayUpdate(relaySettings.relayNumber))
    /\ pc' = "poll"
    /\ relaySettings' = NoCommand /\ target' = NoTarget
    /\ UNCHANGED <<relays, electricPrice, i, inputs, mqttTransmitQueue>>

-----------------------------------------------------------------------------
(* "pricewait": no command was there, so the task waits for a price.       *)
(* A command that arrives meanwhile is not looked at.                      *)

\* Mutant of NoCommandFound: the wait for a price is left out.
NoCommandFoundPolls ==
    /\ pc = "receive"
    /\ relayQueue = <<>>
    /\ pc' = "poll"
    /\ UNCHANGED <<relays, locals, inputs, outputs>>

NoCommandFound ==
    /\ pc = "receive"
    /\ relayQueue = <<>>
    /\ pc' = "pricewait"
    /\ UNCHANGED <<relays, locals, inputs, outputs>>

TakePrice ==
    /\ pc = "pricewait"
    /\ priceQueue # <<>>
    /\ electricPrice' = Head(priceQueue)
    /\ priceQueue' = Tail(priceQueue)
    /\ pc' = "reprice"
    /\ UNCHANGED <<relays, relaySettings, target, i, relayQueue, sendRelayStatusSemaphore, outputs>>

PriceTimeout ==
    /\ pc = "pricewait"
    /\ priceQueue = <<>>
    /\ pc' = "poll"
    /\ UNCHANGED <<relays, locals, inputs, outputs>>

\* updateElectricPrices: three steps for each relay.
RepriceRelay ==
    /\ pc = "reprice"
    /\ relays' = [relays EXCEPT ![i] = UpdatePrice(relays[i], electricPrice)]
    /\ pc' = "reportRepriced"
    /\ UNCHANGED <<locals, inputs, outputs>>

ReportRepriced ==
    /\ pc = "reportRepriced"
    /\ mqttTransmitQueue' = Send(mqttTransmitQueue, TransmitQueueLen, Status(i))
    /\ pc' = "showRepriced"
    /\ UNCHANGED <<relays, locals, inputs, displayQueue>>

\* Mutant of ShowRepriced: every price that waits is served before the next command.
ShowRepricedDrains ==
    /\ pc = "showRepriced"
    /\ displayQueue' = Send(displayQueue, DisplayQueueLen, RelayUpdate(i))
    /\ NextRelay("reprice", "pricewait")
    /\ electricPrice' = IF pc' = "pricewait" THEN 0 ELSE electricPrice
    /\ UNCHANGED <<relays, relaySettings, target, inputs, mqttTransmitQueue>>

ShowRepriced ==
    /\ pc = "showRepriced"
    /\ displayQueue' = Send(displayQueue, DisplayQueueLen, RelayUpdate(i))
    /\ NextRelay("reprice", "poll")
    /\ electricPrice' = IF pc' = "poll" THEN 0 ELSE electricPrice
    /\ UNCHANGED <<relays, relaySettings, target, inputs, mqttTransmitQueue>>

-----------------------------------------------------------------------------
(* "poll": the look at the semaphore that ends an iteration                *)

TakeStatusRequest ==
    /\ pc = "poll"
    /\ sendRelayStatusSemaphore
    /\ sendRelayStatusSemaphore' = FALSE
    /\ pc' = "status"
    /\ UNCHANGED <<relays, locals, relayQueue, priceQueue, outputs>>

NoStatusRequest ==
    /\ pc = "poll"
    /\ ~sendRelayStatusSemaphore
    /\ pc' = "receive"
    /\ UNCHANGED <<relays, locals, inputs, outputs>>

\* Mutant of SendStatus: a request given meanwhile counts as answered.
SendStatusWipes ==
    /\ pc = "status"
    /\ mqttTransmitQueue' = Send(mqttTransmitQueue, TransmitQueueLen, Status(i))
    /\ NextRelay("status", "receive")
    /\ sendRelayStatusSemaphore' = FALSE
    /\ UNCHANGED <<relays, relaySettings, target, electricPrice, relayQueue, priceQueue, displayQueue>>

SendStatus ==
    /\ pc = "status"
    /\ mqttTransmitQueue' = Send(mqttTransmitQueue, TransmitQueueLen, Status(i))
    /\ NextRelay("status", "receive")
    /\ UNCHANGED <<relays, relaySettings, target, electricPrice, inputs, displayQueue>>

TaskStep ==
    \/ Announce
    \/ RejectCommand \/ StrayCommand \/ AcceptCommand
    \/ SetThreshold \/ SetPrice \/ SetState \/ SetMode \/ ReportCommand \/ ShowCommand
    \/ NoCommandFound \/ TakePrice \/ PriceTimeout
    \/ RepriceRelay \/ ReportRepriced \/ ShowRepriced
    \/ TakeStatusRequest \/ NoStatusRequest \/ SendStatus

-----------------------------------------------------------------------------
(* The other tasks, as far as the relay task can see them                  *)

SendCommand(c) ==
    /\ HasRoom(relayQueue, RelayQueueLen)
    /\ relayQueue' = Append(relayQueue, c)
    /\ UNCHANGED <<relays, pc, locals, priceQueue, sendRelayStatusSemaphore, outputs>>

SendPrice(p) ==
    /\ HasRoom(priceQueue, PriceQueueLen)
    /\ priceQueue' = Append(priceQueue, p)
    /\ UNCHANGED <<relays, pc, locals, relayQueue, sendRelayStatusSemaphore, outputs>>

\* Giving a binary semaphore that is already available changes nothing.
RequestStatus ==
    /\ sendRelayStatusSemaphore' = TRUE
    /\ UNCHANGED <<relays, pc, locals, relayQueue, priceQueue, outputs>>

Transmit ==
    /\ mqttTransmitQueue # <<>>
    /\ mqttTransmitQueue' = Tail(mqttTransmitQueue)
    /\ UNCHANGED <<relays, pc, locals, inputs, displayQueue>>

Draw ==
    /\ displayQueue # <<>>
    /\ displayQueue' = Tail(displayQueue)
    /\ UNCHANGED <<relays, pc, locals, inputs, mqttTransmitQueue>>

\* The Wi-Fi and MQTT handlers share displayQueue and send with timeout 0.
ShowConnection(m) ==
    /\ displayQueue' = Send(displayQueue, DisplayQueueLen, m)
    /\ UNCHANGED <<relays, pc, locals, inputs, mqttTransmitQueue>>

Environment ==
    \/ \E c \in Commands : SendCommand(c)
    \/ \E p \in Prices : SendPrice(p)
    \/ RequestStatus
    \/ Transmit \/ Draw
    \/ \E m \in ConnectionUpdates : ShowConnection(m)

Next == TaskStep \/ Environment

Spec == Init /\ [][Next]_vars

-----------------------------------------------------------------------------
(* Properties *)

Places == {"announce", "receive", "threshold", "price", "state", "mode", "report", "show",
           "pricewait", "reprice", "reportRepriced", "showRepriced", "poll", "status", "fault"}

Handling == {"threshold", "price", "state", "mode", "report", "show"}

\* Every variable has its type, no queue exceeds its length, and no index leaves
\* the array of relays.
TypeOK ==
    /\ relays \in [Relays -> RelayRecord]
    /\ pc \in Places
    /\ relaySettings \in RelaySettings
    /\ pc \in Handling => relaySettings.relayNumber \in Relays
    /\ target \in [mode : Modes, state : BOOLEAN]
    /\ electricPrice \in Int
    /\ i \in Relays
    /\ relayQueue \in Seq(Commands) /\ Len(relayQueue) <= RelayQueueLen
    /\ priceQueue \in Seq(Prices) /\ Len(priceQueue) <= PriceQueueLen
    /\ sendRelayStatusSemaphore \in BOOLEAN
    /\ mqttTransmitQueue \in Seq(StatusMessage) /\ Len(mqttTransmitQueue) <= TransmitQueueLen
    /\ displayQueue \in Seq(DisplayMessage) /\ Len(displayQueue) <= DisplayQueueLen

\* The one moment a relay in automatic mode may contradict its price: between
\* changeState(state) and changeMode(mode) of a command (relayTask.cpp:66-67).
Settling(r) == pc = "mode" /\ relaySettings.relayNumber = r

\* At every other moment, also between the steps of a command and between the
\* relays of a price message, a relay in automatic mode is on exactly when its
\* price is below its threshold (Relay.cpp:50-62, 79-85).
AutoFollowsPrice ==
    \A r \in Relays : relays[r].mode = "automatic" /\ ~Settling(r) =>
                          relays[r].pin = Cheap(relays[r])

\* A report says of an automatic relay what its price and threshold, as printed,
\* allow: on means a price not above the threshold, off one not below.  When the two
\* are printed alike the report does not tell which one is the greater.
Consistent(m) ==
    m.mode = "automatic" => IF m.pin THEN m.price <= m.threshold ELSE m.price >= m.threshold

\* What the broker is told of a relay is never one of those in-between states: no
\* report on its way shows an automatic relay that contradicts the price and the
\* threshold printed next to it (status() at relayTask.cpp:70, 88 and 106,
\* Relay.cpp:13-44).
ReportsFollowPrice ==
    \A k \in 1 .. Len(mqttTransmitQueue) : Consistent(mqttTransmitQueue[k])

ManualPinChange(r) == relays[r].mode = "manual" /\ relays'[r].pin # relays[r].pin

SwitchedByCommand(r) ==
    /\ pc \in {"state", "mode"}
    /\ relaySettings.relayNumber = r
    /\ \/ relaySettings.state # "noStateChange" /\ relays'[r].pin = (relaySettings.state = "on")
       \/ relaySettings.mode = "automatic"

\* A relay in manual mode is switched only by a command that names it, and then
\* either to the state the command asks for or because the command puts it in
\* automatic mode; never by a price message, nor by a command that carries only
\* a threshold or a price (relayTask.cpp:42-67, 101-115).
ManualHolds == [][\A r \in Relays : ManualPinChange(r) => SwitchedByCommand(r)]_vars

\* The relays as RelayControl sees them: a command, and a price message, is done
\* from the moment it is received, so the steps still to come are added.
AfterState(r) == ChangeMode(ChangeState(r, target.state), target.mode)
AfterPrice(r) == AfterState(PriceStep(r, relaySettings))
AfterThreshold(r) == AfterPrice(ThresholdStep(r, relaySettings))

StillToReprice(r) == \/ pc = "reprice" /\ r >= i
                     \/ pc \in {"reportRepriced", "showRepriced"} /\ r > i

Promised(r) ==
    CASE pc = "threshold" /\ r = relaySettings.relayNumber -> AfterThreshold(relays[r])
      [] pc = "price" /\ r = relaySettings.relayNumber     -> AfterPrice(relays[r])
      [] pc = "state" /\ r = relaySettings.relayNumber     -> AfterState(relays[r])
      [] pc = "mode" /\ r = relaySettings.relayNumber      -> ChangeMode(relays[r], target.mode)
      [] StillToReprice(r)                                 -> UpdatePrice(relays[r], electricPrice)
      [] OTHER -> relays[r]

Control == INSTANCE RelayControl WITH relays <- [r \in Relays |-> Promised(r)]

\* The task implements RelayControl: each command, and each price message,
\* changes the relays once, as if in one step, with the result RelayControl
\* states without regard to the order of the writes.
Refines == Control!Spec

\* How many steps the task still takes, at most, before it looks at relayQueue again.
StepsLeft ==
    CASE pc \in {"announce", "status"} -> NumRelays - i
      [] pc = "poll"           -> NumRelays + 1
      [] pc = "reprice"        -> 3 * (NumRelays - i) + NumRelays + 1
      [] pc = "reportRepriced" -> 3 * (NumRelays - i) + NumRelays
      [] pc = "showRepriced"   -> 3 * (NumRelays - i) + NumRelays - 1
      [] pc = "pricewait"      -> 4 * NumRelays + 2
      [] pc = "threshold"      -> NumRelays + 7
      [] pc = "price"          -> NumRelays + 6
      [] pc = "state"          -> NumRelays + 5
      [] pc = "mode"           -> NumRelays + 4
      [] pc = "report"         -> NumRelays + 3
      [] pc = "show"           -> NumRelays + 2
      [] pc \in {"receive", "fault"} -> 0

\* An iteration of the task ends, whatever the other tasks send meanwhile and
\* however full the queues are: the command at the head of relayQueue waits for one
\* price message and one report of all the relays at most (relayTask.cpp:22-97).
IterationEnds ==
    [][TaskStep => IF pc = "receive" THEN StepsLeft' <= 4 * NumRelays + 4
                                     ELSE StepsLeft' \in 0 .. StepsLeft - 1]_vars

\* The task comes back to its queues for ever, whatever the other tasks do with
\* theirs: a full queue delays it but does not stop it (relayTask.cpp:75, 93, 111,
\* 128), unless a negative relay number took it out of its array.
KeepsReceiving == []<>(pc = "receive") \/ <>(pc = "fault")

\* A price is not left in its queue for ever unless commands keep coming:
\* priceQueue is looked at only when relayQueue is empty (relayTask.cpp:80).
PriceServed ==
    \/ []<>(priceQueue = <<>>)
    \/ []<><<TakePrice>>_vars
    \/ []<><<TakeCommand>>_vars
    \/ <>(pc = "fault")
=============================================================================
