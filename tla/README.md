# Models and proofs for the relay controller firmware

The firmware in `src/main/` switches relays on an ESP32-S3 by the price of
electricity and by commands. Everything else under `src/` is vendored (ESP-IDF,
the Arduino core, display libraries). This directory holds TLA+ modules that
model the firmware's tasks, TLC configurations that check them on small
instances, and proofs that TLAPS checks for instances of every size.

## The system

`app_main` (`main.cpp`) creates seven queues, two event groups and a binary
semaphore, and starts five tasks. They share nothing but these objects, the
`Wifi` object and the output pins. The build is for two cores, so steps of two
tasks interleave freely, whatever their priorities.

| Part | State | Operations | Talks to |
|---|---|---|---|
| Relay task (`relayTask.cpp`, `Relay.cpp`) | mode, threshold, price and pin of each relay | handle a command, handle a price, answer a status request | takes `relayQueue`, `priceQueue`, `sendRelayStatusSemaphore`; sends `mqttTransmitQueue`, `displayQueue` |
| MQTT task (`mqttTask.cpp`) | the message in hand | parse, forward, answer a ping | takes `mqttReceiveQueue`; sends to the relay task |
| MQTT event handler and start (`mqtt.cpp`) | `mqttConnected`, bits of `mqttEventGroup` | queue a message, announce the device | runs in the MQTT client's task; `mqtt_app_start` in the internet task |
| `Wifi` object (`Wifi.cpp`) | `wifiState`, `s_retry_num`, `s_wifi_event_group` | `mode`, `connectToWifi`, `getWifiState`, the station event handler | the driver posts events to the event task, which runs the handler |
| Internet task (`internetTask.cpp`) | `wifiState`, saved settings, where it is | boot, provision, announce, watch the network, restart | takes `wifiSettingsQueue`, `mqttTransmitQueue` |
| HTTP server (`file_server.cpp`) | the request in hand, one event group per request | post settings, restart, page, scan | sends `wifiSettingsQueue`, waits for the event group |
| Display task (`displayTask.cpp`) | what is on the screen | draw, restart the display | takes `displayQueue` |
| Console (`CommandInterface.cpp`, `debugTask.cpp`) | the line being typed | commands | sends `relayQueue`, `debugQueue` |
| Scan, mount, web page | none shared | I/O | - |

What makes each part correct, and what is hard about it:

- *Relay task.* An automatic relay is on exactly when its price is below its
  threshold; a manual one is switched only by commands. Hard: a command is four
  writes to the relay with values read before the first; commands overtake
  prices; every output queue may be full; a `continue` skips half an iteration.
- *MQTT task and handler.* Nothing that was queued is forgotten or reordered,
  and a slow relay task does not stop the parser. Hard: the handler may not
  wait, the sends give up after 100 ticks, status requests are merged.
- *Wi-Fi object.* A call that reports success is connected to the network it was
  asked for, and one that reports failure has finished. Hard: the handler
  retries on another task, the call has a timeout the driver knows nothing of,
  and events of an earlier attempt look like those of the present one.
- *Internet task and HTTP server.* The browser is told the outcome of its own
  request, only working settings are saved, and a lost network or useless
  settings lead back to the access point. Hard: timeouts of 60 s and 61 s race,
  a power loss can come between two writes to flash, a String is shared by two
  tasks, and a page asked for stores the state of the network it sees.
- *Display task.* What was sent last of each part of the screen is what is drawn,
  and a panel that fails comes back. Hard: three tasks send, two of them without
  waiting; a round without an update applies the one before it again; the panel
  is asked only in rounds that draw nothing.
- *Console.* A line has the effect its help text states. Hard: a command is
  built on the stack and not every field of it is assigned.

`PROJECT.json` lists every component, and under "hazards" each of these
difficulties at its line.

## The modules

```
Messages ── RelayControl          abstract: what the relay task promises
   │             ▲ refines
   ├──────── RelayTask ─────── RelayTaskProofs
   │             │                   │
   ├─ MqttTask ──┼─ ControlPath ─── ControlPathProofs   (also uses MqttTaskProofs)
   ├─ Console ───┼─ Device ──────── DeviceProofs        (also uses DisplayTaskProofs)
   └─ DisplayTask┘
WifiStation ── InternetTask ── InternetTaskProofs
```

`MCRelayTask`, `MCMqttTask`, `MCControlPath`, `MCDisplayTask`, `MCDevice` and
`MCInternetTask` give the constants small values. Mutated operators (`UpdatePriceOnly`,
`ForwardCommandWaits`, ...) stand next to the definition they break; no
specification uses them, they show that a property can fail.

**Messages** holds the structs of `main.h`. A `double` is an `Int`, its value in
thousandths: the code compares prices with thresholds and with the two sentinels
"leave the threshold" (-1) and "leave the price" (0), and prints both in a status
report. Status text is a record. `Relay::status` makes the two numbers with
`String(double)` of the Arduino core, which keeps two decimals (`Relay.cpp:36,
38`): `Printed` is that rounding, so that a price of 0.021 and a threshold of 0.024
are different for the relay and alike in the report.

**RelayControl** says what a command and a price message do to the relays, each
in one step and without an order of writes.

**RelayTask** is the relay task with one action per step that somebody else can
tell apart: `pc` names the place in the loop, and each write to a relay, each
send and each look at a queue is a step of its own. A command goes through
"threshold", "price", "state" and "mode" (`relayTask.cpp:57-67`), then "report"
and "show". `priceQueue` is looked at only after `relayQueue` was found empty. A
send with a timeout either finds room or, on a full queue, loses the message;
waiting for room is a step not yet taken. A negative relay number indexes memory
before the array (`relayTask.cpp:23` checks one end only): the task then goes to
"fault", from which the model says nothing. A local variable that the code will
not read again has one fixed value. `Relay::initialize` does not drive the pin,
so its first level is arbitrary. The other tasks are the actions of
`Environment`, which may do anything their code could.

**MqttTask** is the delivery of a message by the event handler and the MQTT
task. A message is a sequence of tokens, each already split at its equals sign;
the splitting itself and what `toInt` makes of a text are abstracted to values.
A token without an equals sign is outside the model.

**ControlPath** runs the handler, MqttTask and RelayTask side by side. Three
history variables record what the relays would be if each message took effect on
arrival, and whether something happened that excuses a difference.

**DisplayTask** is the display task, one action per round of its loop, because
nobody else sees its data. `newDisplayMessage` outlives the round: a round that
finds the queue empty applies it again (`displayTask.cpp:106-125`). Before the
first update it holds the pattern the build fills new stacks with, which no case
of the switch matches. `panel` is what can be seen: dark after a failure, blank
after `initializeDisplay`, else the picture of the data, in which an animated icon
is one value. The senders never write the address in an INTERNET_UPDATE, so that
`strcpy` may run over the flags behind it; `spill` is what `mqttConnection` may
become. `owed` is a history variable: the last update that found room, of each
part of the screen.

**Console** is `relayHandler`: which commands a line can send. `threshold` and
`price` are never assigned, so that they are any member of `Doubles`.

**Device** runs RelayTask and DisplayTask on one `displayQueue`, with the broker,
the console and the connection handlers around them.

**WifiStation** is the station half of class `Wifi` with three actors: the
driver (external), the event task and the caller. The driver joins a network,
gets an address, or loses it, and posts an event for each but the first.
What is assumed of it, from the way the code uses it and from the comments of the
vendored ESP-IDF: `esp_wifi_connect` starts one attempt and leaves a station
that is joining or joined as it is; `esp_wifi_set_config` takes the settings or
rejects them (a password of the wrong length, an error of the flash); the
station's configuration is kept in flash; `esp_wifi_deinit` is refused
while Wi-Fi is started. Only settings that belong to no network that can be joined
are rejected, unless `DriverRefuses`: then any are, and `esp_wifi_connect` may fail
for a reason of its own, which the handler ignores and `connectToWifi` mostly
answers with `NOT_INITIALIZED`. A rejection fails the `ESP_ERROR_CHECK` of
`Wifi.cpp:215` and restarts the chip (`ConfigureAborts` of InternetTask); any other
failed `ESP_ERROR_CHECK` has the effect of a loss of power. `TimedOut` says what 60 s
are enough for: the start of the station was handled, and the first attempt to join
has ended. The retries, and an address, may take longer.

**InternetTask** adds the internet task, the HTTP server's single task, the
settings in flash, restarts and losses of power. `task` names the place in
`internetTask`; the steps inside `connectToWifi` are `CallStepping` of
WifiStation. `TextOf` is where two Strings copied bit by bit through
`wifiSettingsQueue` may have lost their text: while the HTTP handler runs it is
intact, afterwards it is intact or not. The order of the timeouts is kept
(`StillWorkedOn`): the handler's 61 s do not end while the internet task is still
within the 60 s of that handler's request. A post begins with `BeginPost`, which
occupies the server's task, and its body is received with `ReceiveBody`. Between
the two is the loop of `file_server.cpp:226-237`, which only the whole body ends: a
timeout goes round again, a closed socket leaves the count as it is, an error makes
it larger. So nothing makes `ReceiveBody` happen. A browser reaches the server
through the network the station is on, or through the access point (`ServesAP`),
which is up when its start was handled; the event loop is a queue and has handled
the start of the station before.

Two reads that the code makes one after the other are one step of the model:
`getWifiState` reads the association and `s_retry_num`, and the handler of an
address writes `s_retry_num` and the bits. The draining of `mqttTransmitQueue` in
the internet task is `Transmit` of RelayTask, and what the Wi-Fi and MQTT
handlers send to the display is `ShowConnection`. `ShowPage` is the page of the
server, of which only the call of `getWifiState` concerns others. The certificate
that `mqtt_app_start` tests for is part of the program and never missing.

## The runs

Passing runs:

| Run | Question | Bounds |
|---|---|---|
| `relay_commands` | Do automatic relays follow their price, do manual ones hold, are reports consistent, does the task implement RelayControl? Does every iteration end? | two relays, so that a loop over relays has a middle; five commands that together carry every setting, conflicting ones, and numbers out of range on either side; prices on both sides of the threshold, one of them printed like it; queues of length one, so that each is empty or full at every step |
| `mqtt_task` | Does a command mean its last acceptable mention of each setting? Is the task never stuck, and is no queued message left behind? | every command of up to two of six tokens, among them an unknown state and repeated settings; queues of length one; the relay task may stop |
| `path_order` | Do the relays end as if the messages had taken effect in order of arrival? Does the composition satisfy RelayTask's specification? | four messages of seven, which is two more than it takes to reorder a command and a price in every queue |
| `path_live` | Does the relay task keep going, are prices and status requests served? | any number of messages, queues of length one; outputs that need not be drained |
| `internet_calls` | Is what `connectToWifi` and the HTTP handler report true? Is a request ever lost or mixed up, or a send in the way of another while the access point is open? Is anything saved but what connected? | two networks of which one can be joined, two posts, one loss of power, two retries, a driver that may refuse |
| `internet_live` | Is a post whose body arrived answered, does a lost network end in a restart, do useless settings open the access point? | one post, one loss of power, one retry, a driver that may refuse. A second post could only meet a queue that is still taken; that it does not is a part of `RequestKept`, which `internet_calls` checks with two and `RequestsAreKept` proves for any number |
| `display_screen` | Is what was sent last of each part what the task draws, now and at every redraw? Does it end up on the panel? Is a failed panel started again? | one relay, since parts do not interact; eight updates that include both modes, both flags and an address that spills; a queue of two, so that one update can overtake or replace another; any number of failures |
| `device_screen` | Does the screen show every relay as it is? | one relay, commands from the broker and the console, a price that switches it, connection updates that compete for the queue; queues of length one |

Longer queues, more messages and the code's five retries add states between the
ones reached here but no new comparison: the code tests only empty, full, and
fewer retries than the maximum. The theorems below need none of these bounds.

The properties that need explaining:

- `AutoFollowsPrice` holds at every step but one, between `changeState(state)`
  and `changeMode(mode)`, where an automatic relay may show its old level. That
  is a real flicker of the pin, and `ReportsFollowPrice` says it is never
  reported: the price and the threshold printed in a report allow the level next to
  them. On means a price not above the threshold, off one not below; a strict
  comparison would be false, because two decimals can make the two alike.
- `IterationEnds` is progress as an action property: `StepsLeft` counts the steps
  of an iteration that are left at most, each step of the task lowers it, and
  nothing another task does can raise it. It needs no fairness; what it leaves to
  `KeepsReceiving` is that the task is given the processor.
- `RequestKept` has three parts: where the request of a waiting handler is, in the
  one-place queue, in work or answered (`NothingLost`); that whatever the internet
  task tries has a handler that still waits for it (`TriesItsOwn`); and that with
  the access point open no handler finds the queue taken by an earlier request
  (`SendHasRoom`), so that the send without timeout does not wait. The first ends
  with the answer, so it says nothing of requests that timed out.
- `PostAnsweredByAP` begins where the body of a post has arrived, and says of each
  request that it gets its own answer, unless the device restarts. Before that
  point there is no promise: see `ReceiveBody`.
- `UselessSettingsOpenAP` has three excuses: the driver's own copy of older settings
  brings the device online, it refuses to try, or it rejects the settings at every
  boot. In the last case the chip restarts for ever (`Wifi.cpp:215, 254`) and only
  the button leads to the access point. A loop of restarts for any other reason
  violates the property.
- `SavesConnected` is about both writes to flash, and about the settings as
  objects: what their text is when it is written is `SavedIsEntered`, which fails.
- `ArrivalOrder` needs two excuses: a message lost to a full queue, and two
  messages on the way together of which one is a command that does not commute
  with prices (it sets a price, or it goes to manual mode keeping the level).
- `PriceServed` and `PingAnswered` name what can starve them: commands that keep
  coming, respectively rejected commands that keep coming. `PingAnswered` wants an
  answer that begins after the request (`AnswerBegins`, the first report of a round
  with the semaphore taken), so a request that comes while an earlier one is
  being answered must not be forgotten.
- `CleanCallConnects` and `CleanCallSettles` are about a call that found the
  station at rest; `ConnectsToRequested`, without that condition, fails.
- `ScreenFollows` is about updates that found room, until another of the same
  part is sent; a mqttConnection that an address spilled over is excused until its
  next update. It is inductive, and `ScreenShowsRelays` rests on it.
- `ScreenSettles` and `PanelRestarts` say when the panel stays wrong: it fails for
  good or again and again, or a connection is down or updates keep coming, in
  which case the task draws and never asks the panel.
- `LossEndsInRestart` has one excuse, `RefusedUnnoticed`: the driver refused a
  retry and nobody noticed.

Runs that show a disagreement between the code and what it says of itself, one
property each:

| Run | The code's own words | What happens |
|---|---|---|
| `internet_other_net` | "Connect to the WiFi network", "it must be disconnected before connecting to new one" (`Wifi.cpp:221, 247`) | at boot the saved network gives its address later than the 60 s of the call, so the access point is opened; the address comes while the call for posted settings waits, and that call succeeds on the old network |
| `internet_saved` | "save the new settings" (`internetTask.cpp:79`) | freed text may be saved |
| `internet_unanswered` | the event group signals the sender (`main.cpp:17-19`) | once online nobody takes settings; the second post blocks the HTTP server for ever |
| `device_inquiry` | 'Sending a "no change" command ... without changing anyting' (`CommandInterface.cpp:301`) | threshold and price are never assigned, and the relay task writes them to the relay |

`internet_unanswered` is a liveness counterexample and is checked under
`FairSpec`.

Three more places where the code differs from its words need no run to be seen:
"Relay number must be between 0-%d" (`relayTask.cpp:24`) is not enforced for
negative numbers (line 23), which the models let take the task out of its array;
`getWifiState` reports DISCONNECTED while the last retry is under way
(`Wifi.cpp:317-325`); and the bit for a wrong password (`main.h:41`) is never
passed on to the HTTP handler (`internetTask.cpp:73-77`).

Deadlock is checked in the relay, MQTT, path, display and device runs. It is not in the
`internet_*` runs: the bounds on posts and losses of power run out, and the
announce loop of `mqtt_app_start` really waits for ever when no message comes.

### Fairness

Weak fairness is assumed of each task's own steps: FreeRTOS gives a ready task
the processor again and again, and every blocking call on the paths concerned has
a timeout, with three exceptions of which nothing is assumed: the MQTT task's wait
for a message and the HTTP handler's send to `wifiSettingsQueue`, which are guards
in the model, and the handler's loop for the body of a post, whose end
(`ReceiveBody`) is in no fairness condition. In InternetTask an attempt of the driver to join
ends, because `esp_wifi_connect` makes one attempt that reports its end. Nothing
is assumed of the broker, of browsers, of the driver once associated, or of the
tasks that drain the relay task's outputs. The display task never waits: each
round ends with a delay of at most half a second. Nothing is assumed of the panel,
and none of the senders has to send.

## The proofs

The constants are any number of relays of at least one, any set of commands and
prices, any queue lengths of at least one, any sets of networks, and any number of
retries, of at least one, of posts and of losses of power (the `ASSUME`s of
Messages, RelayTask, MqttTask, ControlPath, DisplayTask, Device, WifiStation and
InternetTask, which TLC also evaluates in the runs). Of the broker's messages it
is assumed only that their tokens are a sequence and that the values of number
keys are numbers, because `toInt` and `toDouble` make a number of any text; and
that `Commands` and `Prices` hold whatever the parser makes of them.

| Theorem | Says |
|---|---|
| `TypeCorrect` | `Spec => []TypeOK`: types, queue lengths, and no index outside the array of relays |
| `AutomaticRelaysFollowPrice` | `Spec => []AutoFollowsPrice` |
| `ReportsAreConsistent` | `Spec => []ReportsFollowPrice` |
| `ManualRelaysHold` | `Spec => ManualHolds` |
| `ImplementsRelayControl` | `Spec => Refines` |
| `IterationsEnd` | `Spec => IterationEnds` |
| `MqttTypeCorrect` | `MqttSpec => []MqttTypeOK` |
| `CommandsMeanLastMention` | `MqttSpec => []LastMentionCounts`, for messages of any length |
| `ComposesRelayTask` | `PathSpec => RelayTaskSpec` |
| `ComposesMqttTask` | `PathSpec` implies the safety part of the specification of the MQTT task |
| `PathKeepsPromises`, `PathParsesFaithfully` | the control path keeps what is proved of the relay task and of the MQTT task |
| `ArrivalOrderKept` | `PathSpec => []ArrivalOrder` |
| `DisplayTypeCorrect` | `DisplaySpec => []DisplayTypeOK` |
| `ScreenFollowsUpdates` | `DisplaySpec => []ScreenFollows` |
| `DeviceHasRelayTask` | `DeviceSpec => Spec`: what is proved of the relay task holds on the device |
| `DeviceHasScreen` | `DeviceSpec` implies the specification of the display task |
| `RelaysAreShown` | `DeviceSpec => []ScreenShowsRelays` |
| `InternetTypeCorrect` | `Spec => []InternetTypeOK` (of InternetTask, as the next five) |
| `CleanCallsConnect` | `Spec => []CleanCallConnects` |
| `CleanCallsSettle` | `Spec => []CleanCallSettles` |
| `EachIsAnsweredForItsOwn` | `Spec => []AnsweredForItsOwn` |
| `RequestsAreKept` | `Spec => []RequestKept` |
| `OnlyConnectedIsSaved` | `Spec => SavesConnected` |

How they go:

- `TypeOK` is inductive as it stands: it says that the command in hand has a
  valid relay number while it is handled.
- `AutoFollowsPrice` is inductive with `TypeOK`, because it names its exception
  (`Settling`). The lemmas `...Obeys` say that each operation of class `Relay`
  leaves a relay that obeys its mode.
- `ReportsFollowPrice` follows from it, because no report is built at "mode", and
  because rounding keeps the order of price and threshold (`PrintedMonotone`).
- `ManualHolds` needs `CommandInHand`: until the mode of the relay in hand is
  written, the target state is what the command asks for or, if it asks for none
  and the relay is manual, the level of the pin; and the target mode is automatic
  only if the relay is or the command says so.
- `Refines` maps each relay to what it will be when the command or price in hand
  is done (`Promised`). `HandlerComputesCommanded` shows that the four writes in
  the code's order give what RelayControl states without one. The step that takes
  the message is then RelayControl's step, and every other step a stutter;
  `IndexAtRest` says that the loop index is 0 outside the loops, so that a price
  message starts with the first relay.
- `IterationEnds` follows from `TypeOK` step by step: `StepsLeftTable` says what
  `StepsLeft` is at each place, and `NextRelayNearer` does the two loops over the
  relays, whose index is in bounds.
- `LastMentionCounts`, and the types of what the parser makes, are about a fold over
  a message of any length. The provers cannot instantiate the library's induction
  theorems, so MqttTaskProofs has an induction of its own, over a set of numbers
  instead of a predicate: `LeastMember` takes the least one from
  the library's well-foundedness of `<`, and `TraceInduction` follows. `FoldExists`
  shows that the fold has a trace, its values on longer and longer prefixes (the
  `CHOOSE` in the community module's fold has a witness); `SettingsTrace` and
  `ParserKeepsLast` are inductions along it. `MqttTypeOK` is then inductive.
- `ComposesRelayTask` shows that every step of the path is a step of RelayTask or
  leaves its variables alone, from `FromBroker`: whatever the MQTT task has in
  hand came from the broker, so what it forwards is a command or a price RelayTask
  provides for. `ComposesMqttTask` is the same from the other side: the relay task
  only takes from its queues.
- `ArrivalOrder` needs an invariant that says what the messages under way will do.
  `Leads(queue, r, q, x, y)` says that the entries of `q` make `y` of relay `r` in
  state `x`. `OnTheWay` strings them together: from what the relay task has promised
  the relay (the mapping of `Refines`), through its commands, then its prices, then
  the message in hand, then those that wait, to `expected`. A message that arrives
  extends the end (`LeadsAppend`), one that is taken shortens the beginning
  (`LeadsTail`). The order is not that of arrival, because commands and prices have
  separate queues: `PriceOvertakes` and `CommandOvertakes` carry one past the other,
  which is sound for commands that commute with prices (`CommandAndPrice`).
  `Exclusive` says that no others are on the way together with a price as long as
  `disturbed` is false. When all is quiet every stretch is empty, and what is promised
  is what the relays are.
- `ScreenFollows` is inductive with `DisplayTypeOK`. `ApplyAgrees` (a message
  applied is shown), `ApplyKeeps` (it leaves other parts alone) and
  `ApplyIdempotent` (a redraw does no harm) are the facts about the data, and the
  lemmas `...Keeps` carry them through the queue.
- `RelaysAreShown` puts the two tasks together. A step of the device is a step of
  RelayTask and one of DisplayTask, so `TypeOK` and `ScreenFollows` hold by the
  theorems about each. `Tells` links them: the last update sent of a relay tells
  what the relay is, except between a write and the update that follows it
  (`Untold`). With an empty queue, what was sent last is what is drawn.

- `InternetTypeOK` is inductive with `RetryLeft`: a retry is begun only when one is
  left. `StationSteps` says that every step of the system is one of the station's
  parties or leaves the station alone, so that WifiStation is reasoned about once.
- `CleanCallConnects` and `CleanCallSettles` follow from `CallInv`: Wi-Fi is started
  only while no call is under way (`CallsFromTask`); a call that found the station at
  rest leaves it so until the driver has the new configuration, and while it awaits
  its result either an attempt is under way, its event is pending, a retry is
  to come, or the last one failed (`CleanCall`, `Settling`).
- `AnsweredForItsOwn` follows from `AnswerInv`: a request is in one place at a time,
  the handler stays with it for as long as a result may come (`HandlerStays`, for
  which 61 s against 60 s is needed: the guard `StillWorkedOn` of the timeout), and
  its flags say its result (`InHand`).
- `RequestKept` and `SavesConnected` start from `AnswerInv`. The queue's one place and
  the server's single task make the request of a waiting handler the only one
  (`RequestStep`); that a send has room is already part of `AnswerInv`. `Saving` says that from the result to the second write neither the
  settings in hand nor the call changes.

Every invariant and action property of the passing runs is stated by a theorem. Only
model-checked is what needs fairness: `NeverStuck`, `ReceiveQueueMoves`,
`KeepsReceiving`, `PriceServed`, `PingAnswered`, `PostAnsweredByAP`,
`LossEndsInRestart`, `UselessSettingsOpenAP`, `ScreenSettles` and `PanelRestarts`.
The provers cannot reason about `ENABLED`, and so not about `WF_`; `IterationsEnd`
is as far as a proof goes.

## Not modelled

- Of the display: the frames of the animated icons, the address, a copy of it that
  runs past the whole message, and the welcome and access point screens, which are
  never shown. The code draws three boxes; the model one for each relay.
- Of the console: the editing of a line, its LED, the level of the log, and the
  commands that only print. The restart command is a restart like any other.
- The access point's own settings, `getIPInfo`, the HTTP event handler, the
  scan, the file system mount, the pages and their JavaScript: no shared state.
- Numbers that are not numbers: `toDouble` makes a number of any text, and what the
  console leaves in a field that it never assigns is taken to be a number.
- The splitting of text, the layout of status messages, logging and the debug
  queue.
- The heap: `status()` and the event groups of the HTTP handler leak.
- The start of the tasks: the internet task waits for the debug task once.
- Vendored code, except as the external behaviour described above.

## Plan

Done, in this order: Messages, RelayTask with RelayControl and its proofs;
MqttTask; ControlPath and its proofs; WifiStation; InternetTask; DisplayTask and
its proofs; Console; Device and its proofs; the proofs about InternetTask; those
about MqttTask; the order of arrival on the control path; the end of each
iteration of the relay task.

Next:

1. The safety half of the liveness properties that are left, as `IterationEnds` is of
   `KeepsReceiving`: that a status request on its way stays on its way until it is
   answered, and that a call of `connectToWifi` has only so many steps.
2. The server's view: reports through `mqttTransmitQueue` to the broker, with the
   internet task as the only one to drain it, so that the announce loop counts.
