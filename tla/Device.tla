-------------------------------- MODULE Device --------------------------------
(***************************************************************************)
(* The relay task between the people who use it: commands come from the    *)
(* broker and from the serial console, and the display task draws what the *)
(* relay task and the connection handlers send it.                         *)
(***************************************************************************)
EXTENDS RelayTask

CONSTANTS BrokerCommands,       \* the commands the MQTT task sends
          Lines,                \* the relay commands typed at the console
          Doubles, NotANumber

VARIABLES newDisplayMessage, displayRefresh, currentDisplayData, panel, owed

Display == INSTANCE DisplayTask WITH Updates <- DisplayMessage
Typed == INSTANCE Console

ASSUME LinesAssumption == Lines \subseteq Typed!Line
ASSUME SendersAssumption ==
    Commands = BrokerCommands \cup UNION {Typed!CommandsOf(line) : line \in Lines}
ASSUME HandlersAssumption == \A m \in ConnectionUpdates : m.updateType # "RELAY_UPDATE"

screenVars == <<newDisplayMessage, displayRefresh, currentDisplayData, panel>>
deviceVars == <<vars, screenVars, owed>>

DeviceInit == Init /\ Display!DisplayInit

-----------------------------------------------------------------------------
\* The step of the relay task sends an update of relay r.
Sends(r) ==
    \/ pc \in {"announce", "showRepriced"} /\ i = r
    \/ pc = "show" /\ relaySettings.relayNumber = r

RelayTaskStep ==
    /\ TaskStep
    /\ IF \E r \in Relays : Sends(r)
       THEN \E r \in Relays : Sends(r) /\ Display!Owe(RelayUpdate(r))
       ELSE UNCHANGED owed
    /\ UNCHANGED screenVars

DisplayStep == Display!DisplayStep /\ UNCHANGED <<relays, pc, locals, inputs, mqttTransmitQueue>>

PanelFails == Display!PanelFails /\ UNCHANGED <<relays, pc, locals, inputs, mqttTransmitQueue>>

\* The handlers of the Wi-Fi and MQTT events.
ConnectionEvent(m) == ShowConnection(m) /\ Display!Owe(m) /\ UNCHANGED screenVars

FromBroker(c) == SendCommand(c) /\ UNCHANGED <<screenVars, owed>>

\* The console waits up to 100 ticks for room in relayQueue.
EnterLine(line) ==
    /\ \E c \in Typed!CommandsOf(line) : relayQueue' = Send(relayQueue, RelayQueueLen, c)
    /\ UNCHANGED <<relays, pc, locals, priceQueue, sendRelayStatusSemaphore, outputs,
                   screenVars, owed>>

Others ==
    /\ (\E p \in Prices : SendPrice(p)) \/ RequestStatus \/ Transmit
    /\ UNCHANGED <<screenVars, owed>>

DeviceNext ==
    \/ RelayTaskStep \/ DisplayStep \/ PanelFails \/ Others
    \/ \E m \in ConnectionUpdates : ConnectionEvent(m)
    \/ \E c \in BrokerCommands : FromBroker(c)
    \/ \E line \in Lines : EnterLine(line)

DeviceSpec == DeviceInit /\ [][DeviceNext]_deviceVars

-----------------------------------------------------------------------------
(* Properties *)

\* Relay r may have changed since the task last sent an update of it.
Untold(r) ==
    \/ pc = "announce" /\ i <= r
    \/ pc \in Handling /\ relaySettings.relayNumber = r
    \/ pc \in {"reportRepriced", "showRepriced"} /\ i = r

OwedRelay(r) == {m \in owed : m.updateType = "RELAY_UPDATE" /\ m.relay = r}

\* Whatever a command or a price did to a relay, also between the relays of a price
\* message, the screen shows it as it is once displayQueue is worked off, unless the
\* last update found the queue full (relayTask.cpp:70-72, 101-129, displayTask.cpp:
\* 106-118).
ScreenShowsRelays ==
    \A r \in Relays :
        ~Untold(r) /\ OwedRelay(r) # {} /\ displayQueue = <<>> =>
            currentDisplayData.relays[r] = Display!Box(relays[r])

\* "Sending a "no change" command to the relayqueue to get the relay log out it's
\* state etc without changing anyting" (CommandInterface.cpp:301): a command that
\* only such a line can have sent leaves the relays as they are.
OnlyInquired(c) ==
    /\ c \notin BrokerCommands
    /\ \A line \in Lines : c \in Typed!CommandsOf(line) => Typed!IsInquiry(line)

InquiryChangesNothing ==
    [][OnlyInquired(relaySettings) /\ pc \in Handling => relays' = relays]_deviceVars
=============================================================================
