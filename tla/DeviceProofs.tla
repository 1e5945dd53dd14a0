----------------------------- MODULE DeviceProofs -----------------------------
(***************************************************************************)
(* Proofs about Device.  The device is a relay task and a display task: a  *)
(* behaviour of it is one of RelayTask and one of DisplayTask, so what is  *)
(* proved of either holds.  What relates the relays to the screen is       *)
(* proved here.                                                            *)
(***************************************************************************)
EXTENDS Device, RelayTaskProofs

Screen == INSTANCE DisplayTaskProofs WITH Updates <- DisplayMessage

-----------------------------------------------------------------------------
(* The relay task                                                          *)

LEMMA DeviceInitRelays == DeviceInit => Init
BY DEF DeviceInit

LEMMA DeviceStepRelays == [DeviceNext]_deviceVars => [Next]_vars
<1> SUFFICES ASSUME [DeviceNext]_deviceVars PROVE [Next]_vars
  OBVIOUS
<1>1. CASE RelayTaskStep
  BY <1>1 DEF RelayTaskStep, Next
<1>2. CASE DisplayStep
  <2>1. UNCHANGED <<relays, pc, locals, inputs, mqttTransmitQueue>>
    BY <1>2 DEF DisplayStep
  <2>2. CASE Display!TakeUpdate
    BY <2>1, <2>2 DEF Display!TakeUpdate, Draw, Environment, Next
  <2>3. CASE Display!Redraw \/ Display!Restart
    BY <2>1, <2>3 DEF Display!Redraw, Display!Restart, vars, outputs
  <2> QED
    BY <1>2, <2>2, <2>3 DEF DisplayStep, Display!DisplayStep
<1>3. CASE PanelFails
  BY <1>3 DEF PanelFails, Display!PanelFails, vars, outputs
<1>4. CASE Others
  BY <1>4 DEF Others, Environment, Next
<1>5. ASSUME NEW m \in ConnectionUpdates, ConnectionEvent(m) PROVE Next
  BY <1>5 DEF ConnectionEvent, Environment, Next
<1>6. ASSUME NEW c \in BrokerCommands, FromBroker(c) PROVE Next
  BY <1>6, SendersAssumption DEF FromBroker, Environment, Next
<1>7. ASSUME NEW line \in Lines, EnterLine(line) PROVE [Next]_vars
  <2>1. PICK c \in Typed!CommandsOf(line) : relayQueue' = Send(relayQueue, RelayQueueLen, c)
    BY <1>7 DEF EnterLine
  <2>2. c \in Commands
    BY <2>1, SendersAssumption
  <2>3. CASE HasRoom(relayQueue, RelayQueueLen)
    BY <1>7, <2>1, <2>2, <2>3 DEF EnterLine, Send, SendCommand, Environment, Next
  <2>4. CASE ~HasRoom(relayQueue, RelayQueueLen)
    BY <1>7, <2>1, <2>4 DEF EnterLine, Send, vars, inputs
  <2> QED
    BY <2>3, <2>4
<1>8. CASE UNCHANGED deviceVars
  BY <1>8 DEF deviceVars
<1> QED
  BY <1>1, <1>2, <1>3, <1>4, <1>5, <1>6, <1>7, <1>8 DEF DeviceNext

\* Towards the relay task, broker, console and display task are the environment
\* that RelayTask assumes: whatever is proved of RelayTask holds of the device.
THEOREM DeviceHasRelayTask == DeviceSpec => Spec
<1> QED
  BY DeviceInitRelays, DeviceStepRelays, PTL DEF DeviceSpec, Spec

-----------------------------------------------------------------------------
(* The display task                                                        *)

LEMMA ScreenAssumptions == Screen!DisplayAssumption /\ Screen!NumRelaysAssumption
BY QueueLenAssumption, NumRelaysAssumption
   DEF Screen!DisplayAssumption, Screen!NumRelaysAssumption, Screen!DisplayMessage, DisplayMessage,
       Screen!InternetUpdate, InternetUpdate, Screen!Relays, Relays, Screen!Modes, Modes

\* A step of the relay task sends an update, and then it changes no relay, or it
\* leaves displayQueue alone.
LEMMA TaskSends ==
    ASSUME TypeOK, RelayTaskStep
    PROVE  \/ \E r \in Relays :
                  /\ Sends(r)
                  /\ displayQueue' = Send(displayQueue, DisplayQueueLen, RelayUpdate(r))
                  /\ Display!Owe(RelayUpdate(r))
                  /\ relays' = relays
           \/ (\A r \in Relays : ~Sends(r)) /\ UNCHANGED <<displayQueue, owed>>
<1> USE DEF RelayTaskStep, TaskStep, Announce, TakeCommand, RejectCommand, StrayCommand, AcceptCommand,
           SetThreshold, SetPrice, SetState, SetMode, HandleStep, ReportCommand, ShowCommand,
           NoCommandFound, TakePrice, PriceTimeout, RepriceRelay, ReportRepriced, ShowRepriced,
           TakeStatusRequest, NoStatusRequest, SendStatus
<1>1. ASSUME NEW r \in Relays, Sends(r)
      PROVE  /\ displayQueue' = Send(displayQueue, DisplayQueueLen, RelayUpdate(r))
             /\ relays' = relays
  <2>1. CASE pc = "announce" /\ i = r
    BY <2>1
  <2>2. CASE pc = "showRepriced" /\ i = r
    BY <2>2
  <2>3. CASE pc = "show" /\ relaySettings.relayNumber = r
    BY <2>3
  <2> QED
    BY <1>1, <2>1, <2>2, <2>3 DEF Sends
<1>2. CASE \A r \in Relays : ~Sends(r)
  <2>1. pc \notin {"announce", "showRepriced", "show"}
    BY <1>2 DEF Sends, TypeOK, Handling
  <2>2. displayQueue' = displayQueue
    BY <2>1 DEF outputs
  <2> QED
    BY <1>2, <2>2 DEF RelayTaskStep
<1> QED
  BY <1>1, <1>2 DEF RelayTaskStep

\* Updates that are sent to the screen of a device.
LEMMA SendsToScreen ==
    ASSUME NEW m \in DisplayMessage, displayQueue' = Send(displayQueue, DisplayQueueLen, m),
           Display!Owe(m), UNCHANGED screenVars
    PROVE  Screen!DisplayNext
<1>1. Screen!Owe(m)
  BY DEF Display!Owe, Screen!Owe, Display!SamePart, Screen!SamePart, Display!Spills, Screen!Spills,
     Display!HasRoom, Screen!HasRoom
<1>2. Screen!SendUpdate(m)
  BY <1>1 DEF Screen!SendUpdate, Send, HasRoom, Screen!HasRoom, screenVars, Screen!screenVars
<1> QED
  BY <1>2 DEF Screen!DisplayNext

LEMMA DeviceInitScreen == DeviceInit => Screen!DisplayInit
BY DEF DeviceInit, Display!DisplayInit, Screen!DisplayInit, Display!NoMessage, Screen!NoMessage,
   Display!NotInitialized, Screen!NotInitialized, Display!Blank, Screen!Blank, Display!Relays, Screen!Relays

LEMMA DeviceStepScreen ==
    TypeOK /\ [DeviceNext]_deviceVars => [Screen!DisplayNext]_Screen!displayVars
<1> SUFFICES ASSUME TypeOK, [DeviceNext]_deviceVars
             PROVE  [Screen!DisplayNext]_Screen!displayVars
  OBVIOUS
<1> USE DEF screenVars, Screen!displayVars, Screen!screenVars
<1>1. CASE RelayTaskStep
  <2>1. UNCHANGED screenVars
    BY <1>1 DEF RelayTaskStep
  <2>2. ASSUME NEW r \in Relays PROVE RelayUpdate(r) \in DisplayMessage
    BY MessageTypes
  <2> QED
    BY <1>1, <2>1, <2>2, TaskSends, SendsToScreen
<1>2. CASE DisplayStep
  BY <1>2 DEF DisplayStep, Display!DisplayStep, Screen!DisplayStep, Screen!DisplayNext,
     Display!TakeUpdate, Screen!TakeUpdate, Display!Redraw, Screen!Redraw, Display!Restart, Screen!Restart,
     Display!Draw, Screen!Draw, Display!Dark, Screen!Dark, Display!Blank, Screen!Blank,
     Display!Picture, Screen!Picture, Display!NextRefresh, Screen!NextRefresh, Display!Online, Screen!Online,
     Display!Apply, Screen!Apply, Display!ApplyRelay, Screen!ApplyRelay, Display!Box, Screen!Box,
     Display!NotInitialized, Screen!NotInitialized, Display!Relays, Screen!Relays
<1>3. CASE PanelFails
  BY <1>3 DEF PanelFails, Display!PanelFails, Screen!PanelFails, Screen!DisplayNext, Display!Dark, Screen!Dark,
     Display!NotInitialized, Screen!NotInitialized, Display!Relays, Screen!Relays
<1>4. CASE Others
  BY <1>4 DEF Others, SendPrice, RequestStatus, Transmit, outputs
<1>5. ASSUME NEW m \in ConnectionUpdates, ConnectionEvent(m) PROVE Screen!DisplayNext
  BY <1>5, UpdatesAssumption, SendsToScreen DEF ConnectionEvent, ShowConnection
<1>6. ASSUME NEW c \in BrokerCommands, FromBroker(c) PROVE UNCHANGED Screen!displayVars
  BY <1>6 DEF FromBroker, SendCommand, outputs
<1>7. ASSUME NEW line \in Lines, EnterLine(line) PROVE UNCHANGED Screen!displayVars
  BY <1>7 DEF EnterLine, outputs
<1>8. CASE UNCHANGED deviceVars
  BY <1>8 DEF deviceVars, vars, outputs
<1> QED
  BY <1>1, <1>2, <1>3, <1>4, <1>5, <1>6, <1>7, <1>8 DEF DeviceNext

\* Towards the display task, the relay task and the handlers are the senders that
\* DisplayTask assumes.
THEOREM DeviceHasScreen == DeviceSpec => Screen!DisplaySpec
<1> QED
  BY DeviceHasRelayTask, TypeCorrect, DeviceInitScreen, DeviceStepScreen, PTL DEF DeviceSpec, Screen!DisplaySpec

-----------------------------------------------------------------------------
(* The relays and the screen                                               *)

\* The last update of relay r that found room tells what r is.
Told(r) == \A m \in OwedRelay(r) : m.pin = relays[r].pin /\ m.mode = relays[r].mode

Tells == \A r \in Relays : Untold(r) \/ Told(r)

\* Sending r's update tells r, ...
LEMMA SendingTells ==
    ASSUME NEW r \in Relays, Display!Owe(RelayUpdate(r)), relays' = relays
    PROVE  Told(r)'
<1>1. ASSUME NEW m \in OwedRelay(r)' PROVE m = RelayUpdate(r)
  <2>1. m \in owed' /\ m.updateType = "RELAY_UPDATE" /\ m.relay = r
    BY <1>1 DEF OwedRelay
  <2>2. Display!SamePart(RelayUpdate(r), m)
    BY <2>1 DEF Display!SamePart, RelayUpdate
  <2> QED
    BY <2>1, <2>2 DEF Display!Owe
<1> QED
  BY <1>1 DEF Told, RelayUpdate

\* ... and sending another update makes no relay less told.
LEMMA SendingKeeps ==
    ASSUME NEW r, NEW m, m.updateType # "RELAY_UPDATE" \/ m.relay # r,
           Display!Owe(m), relays' = relays, Told(r)
    PROVE  Told(r)'
<1>1. OwedRelay(r)' \subseteq OwedRelay(r)
  BY DEF Display!Owe, OwedRelay
<1> QED
  BY <1>1 DEF Told

LEMMA InitTells == DeviceInit => Tells
BY DEF DeviceInit, Display!DisplayInit, Tells, Told, OwedRelay

\* The steps of the relay task that send an update: the relay they send is told,
\* and the others stay told.
LEMMA SendStepTells ==
    ASSUME TypeOK, Tells, RelayTaskStep, NEW s \in Relays, Sends(s),
           Display!Owe(RelayUpdate(s)), relays' = relays
    PROVE  Tells'
<1> SUFFICES ASSUME NEW r \in Relays, ~Untold(r)' PROVE Told(r)'
  BY DEF Tells
<1>1. CASE r = s
  BY <1>1, SendingTells
<1>2. CASE r # s
  <2>1. ~Untold(r)
    BY <1>2, NumRelaysAssumption
       DEF RelayTaskStep, TaskStep, Announce, TakeCommand, RejectCommand, StrayCommand, AcceptCommand,
           SetThreshold, SetPrice, SetState, SetMode, HandleStep, ReportCommand, ShowCommand,
           NoCommandFound, TakePrice, PriceTimeout, RepriceRelay, ReportRepriced, ShowRepriced,
           TakeStatusRequest, NoStatusRequest, SendStatus, NextRelay, Sends, Untold, Handling,
           TypeOK, Relays, locals
  <2>2. Told(r)
    BY <2>1 DEF Tells
  <2> QED
    BY <1>2, <2>2, SendingKeeps DEF RelayUpdate
<1> QED
  BY <1>1, <1>2

\* The steps that send none: the relay they write, if any, is untold.
LEMMA QuietStepTells ==
    ASSUME TypeOK, Tells, RelayTaskStep, \A r \in Relays : ~Sends(r), UNCHANGED owed
    PROVE  Tells'
<1> SUFFICES ASSUME NEW r \in Relays, ~Untold(r)' PROVE Told(r)'
  BY DEF Tells
<1>1. pc \notin {"announce", "show", "showRepriced"}
  BY DEF Sends, TypeOK, Handling
<1>2. ~Untold(r) /\ relays'[r] = relays[r]
  BY <1>1 DEF RelayTaskStep, TaskStep, Announce, TakeCommand, RejectCommand, StrayCommand, AcceptCommand,
         SetThreshold, SetPrice, SetState, SetMode, HandleStep, ReportCommand, ShowCommand,
         NoCommandFound, TakePrice, PriceTimeout, RepriceRelay, ReportRepriced, ShowRepriced,
         TakeStatusRequest, NoStatusRequest, SendStatus, NextRelay, Untold, Handling, TypeOK, locals
<1> QED
  BY <1>2 DEF Tells, Told, OwedRelay

LEMMA StepTells == TypeOK /\ Tells /\ [DeviceNext]_deviceVars => Tells'
<1> SUFFICES ASSUME TypeOK, Tells, [DeviceNext]_deviceVars PROVE Tells'
  OBVIOUS
<1> DEFINE Still == UNCHANGED <<relays, pc, locals>>
<1>1. CASE RelayTaskStep
  BY <1>1, TaskSends, SendStepTells, QuietStepTells
<1>2. ASSUME Still, UNCHANGED owed PROVE Tells'
  BY <1>2 DEF Tells, Told, OwedRelay, Untold, locals
<1>3. CASE DisplayStep \/ PanelFails
  BY <1>2, <1>3 DEF DisplayStep, PanelFails, Display!DisplayStep, Display!PanelFails,
     Display!TakeUpdate, Display!Redraw, Display!Restart, Display!Draw
<1>4. CASE Others
  BY <1>2, <1>4 DEF Others, SendPrice, RequestStatus, Transmit
<1>5. ASSUME NEW m \in ConnectionUpdates, ConnectionEvent(m) PROVE Tells'
  <2>1. Still /\ Display!Owe(m) /\ m.updateType # "RELAY_UPDATE"
    BY <1>5, HandlersAssumption DEF ConnectionEvent, ShowConnection
  <2>2. \A r \in Relays : Told(r) => Told(r)'
    BY <2>1, SendingKeeps
  <2> QED
    BY <2>1, <2>2 DEF Tells, Untold, locals
<1>6. ASSUME NEW c \in BrokerCommands, FromBroker(c) PROVE Tells'
  BY <1>2, <1>6 DEF FromBroker, SendCommand
<1>7. ASSUME NEW line \in Lines, EnterLine(line) PROVE Tells'
  BY <1>2, <1>7 DEF EnterLine
<1>8. CASE UNCHANGED deviceVars
  BY <1>2, <1>8 DEF deviceVars, vars
<1> QED
  BY <1>1, <1>3, <1>4, <1>5, <1>6, <1>7, <1>8 DEF DeviceNext

\* What is owed is on the screen when displayQueue is empty, so that a relay that
\* is told is shown as it is.
LEMMA ToldIsShown == TypeOK /\ Tells /\ Screen!ScreenFollows => ScreenShowsRelays
<1> SUFFICES ASSUME Tells, Screen!ScreenFollows, NEW r \in Relays, ~Untold(r),
                    OwedRelay(r) # {}, displayQueue = <<>>
             PROVE  currentDisplayData.relays[r] = Display!Box(relays[r])
  BY DEF ScreenShowsRelays
<1>1. PICK m \in OwedRelay(r) : TRUE
  OBVIOUS
<1>2. m \in owed /\ m.updateType = "RELAY_UPDATE" /\ m.relay = r
  BY <1>1 DEF OwedRelay
<1>3. Screen!Agrees(m, currentDisplayData)
  BY <1>2 DEF Screen!ScreenFollows
<1>4. currentDisplayData.relays[r] = Screen!Box(m)
  BY <1>2, <1>3 DEF Screen!Agrees
<1>5. Screen!Box(m) = Display!Box(relays[r])
  BY <1>1 DEF Tells, Told, Screen!Box, Display!Box
<1> QED
  BY <1>4, <1>5

\* Whatever commands, prices and events come, and however many relays there are:
\* once displayQueue is worked off, the screen shows every relay as it is, unless
\* its last update was lost or is still to be sent.
THEOREM RelaysAreShown == DeviceSpec => []ScreenShowsRelays
<1>1. DeviceSpec => []Screen!ScreenFollows
  BY DeviceHasScreen, ScreenAssumptions, Screen!ScreenFollowsUpdates, PTL
<1>2. DeviceSpec => []TypeOK
  BY DeviceHasRelayTask, TypeCorrect, PTL
<1>3. DeviceSpec => []Tells
  BY <1>2, InitTells, StepTells, PTL DEF DeviceSpec
<1> QED
  BY <1>1, <1>2, <1>3, ToldIsShown, PTL
=============================================================================
