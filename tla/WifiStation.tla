----------------------------- MODULE WifiStation -----------------------------
(***************************************************************************)
(* The station half of class Wifi (Wifi.cpp).  Three parties share it: the *)
(* Wi-Fi driver, which joins and loses networks and posts events; the      *)
(* event task, which runs wifiStationEventHandler; and the task that calls *)
(* the methods of Wifi.  They meet in s_retry_num and in the event group   *)
(* s_wifi_event_group.  The callers are in InternetTask.                   *)
(*                                                                         *)
(* What the handler sends to displayQueue, without waiting, is             *)
(* ShowConnection of RelayTask and is left out here.                       *)
(***************************************************************************)
EXTENDS Integers, Sequences

CONSTANTS Networks,         \* pairs of SSID and password a user enters
          Joinable,         \* those of them that a router accepts
          NoNetwork,        \* the empty SSID of a device never configured
          Garbage,          \* a pair that is no network: strings read after they were freed
          MaxRetry,         \* CONFIG_ESP_MAXIMUM_RETRY
          DriverRefuses,    \* esp_wifi_connect, and esp_wifi_set_config of any settings,
                            \* may fail for a reason of the driver's own
          EventQueueLen     \* bound: the driver waits while so many events are pending
                            \* (CONFIG_ESP_SYSTEM_EVENT_QUEUE_SIZE is 32)

ASSUME StationAssumption ==
    /\ Joinable \subseteq Networks
    /\ NoNetwork \notin Networks /\ Garbage \notin Networks /\ NoNetwork # Garbage
    /\ MaxRetry \in Nat \ {0} /\ EventQueueLen \in Nat \ {0}
    /\ DriverRefuses \in BOOLEAN

Credentials == Networks \cup {NoNetwork, Garbage}

VARIABLES
    config,         \* the station's configuration in the driver, kept in flash
    link,           \* what the driver does: state, and the network it does it with
    events,         \* posted to the default event loop and not yet handled
    registered,     \* wifiStationEventHandler is registered, s_wifi_event_group exists
    bits,           \* the bits set in s_wifi_event_group
    s_retry_num,
    eventTask,      \* "idle", or "retry": between the test of s_retry_num and the retry
    wifiState,      \* the member of class Wifi
    call,           \* connectToWifi: where it is, for which network, what it returned last
    undisturbed     \* not in the code: when the call began the station was at rest

driverVars == <<config, link, events>>
handlerVars == <<registered, bits, s_retry_num, eventTask>>
stationVars == <<driverVars, handlerVars, wifiState, call, undisturbed>>

Down == [state |-> "down", net |-> NoNetwork]
Joining(net) == [state |-> "joining", net |-> net]

\* What a restart leaves: the driver's configuration is in flash.
StationReset ==
    /\ link' = Down /\ events' = <<>>
    /\ registered' = FALSE /\ bits' = {} /\ s_retry_num' = 0 /\ eventTask' = "idle"
    /\ wifiState' = "NOT_INITIALIZED"
    /\ call' = [at |-> "none", net |-> NoNetwork, result |-> "NOT_INITIALIZED"]
    /\ undisturbed' = FALSE
    /\ UNCHANGED config

StationInit ==
    /\ config \in Networks \cup {NoNetwork}
    /\ link = Down /\ events = <<>>
    /\ registered = FALSE /\ bits = {} /\ s_retry_num = 0 /\ eventTask = "idle"
    /\ wifiState = "NOT_INITIALIZED"
    /\ call = [at |-> "none", net |-> NoNetwork, result |-> "NOT_INITIALIZED"]
    /\ undisturbed = FALSE

-----------------------------------------------------------------------------
(* The driver.  One attempt to join ends in an association or in an event; *)
(* an association leads to an address, or is lost.                         *)

CanPost == Len(events) < EventQueueLen

Post(e) == CanPost /\ events' = Append(events, e)

\* esp_wifi_connect: "attempts to connect only once"; a station that is connecting
\* or connected must be told to disconnect first, and goes on as it is.  The handler
\* does not look at the result, and the call goes on after ESP_ERR_WIFI_CONN.
EspConnect ==
    \/ link' = IF link.state = "down" THEN Joining(config) ELSE link
    \/ DriverRefuses /\ UNCHANGED link

Associate ==
    /\ link.state = "joining" /\ link.net \in Joinable
    /\ link' = [link EXCEPT !.state = "joined"]
    /\ UNCHANGED <<config, events, handlerVars, wifiState, call, undisturbed>>

GetAddress ==
    /\ link.state = "joined"
    /\ link' = [link EXCEPT !.state = "up"]
    /\ Post("gotIp")
    /\ UNCHANGED <<config, handlerVars, wifiState, call, undisturbed>>

\* "wrongPassword" is a disconnection with reason 15, the handshake's timeout.
Lose ==
    /\ link.state # "down"
    /\ link' = Down
    /\ \/ Post("disconnected")
       \/ link.state = "joining" /\ Post("wrongPassword")
    /\ UNCHANGED <<config, handlerVars, wifiState, call, undisturbed>>

Driver == Associate \/ GetAddress \/ Lose

-----------------------------------------------------------------------------
(* The event task: wifiStationEventHandler                                 *)

Handle(kinds) ==
    /\ eventTask = "idle"
    /\ events # <<>> /\ Head(events) \in kinds
    /\ events' = Tail(events)
    /\ UNCHANGED <<config, registered, wifiState, call, undisturbed>>

HandleStart ==
    /\ Handle({"start"})
    /\ IF registered THEN EspConnect ELSE UNCHANGED link
    /\ UNCHANGED <<bits, s_retry_num, eventTask>>

WrongPassword == IF Head(events) = "wrongPassword" THEN {"wrongPassword"} ELSE {}

\* Mutants of HandleDisconnected: one retry too many; every failure is final.
HandleDisconnectedTwice ==
    /\ Handle({"disconnected", "wrongPassword"})
    /\ IF s_retry_num <= MaxRetry
       THEN bits' = bits \cup WrongPassword /\ eventTask' = "retry"
       ELSE bits' = bits \cup WrongPassword \cup {"finished"} /\ UNCHANGED eventTask
    /\ UNCHANGED <<link, s_retry_num>>
HandleDisconnectedFinal ==
    /\ Handle({"disconnected", "wrongPassword"})
    /\ bits' = bits \cup WrongPassword \cup {"finished"}
    /\ eventTask' = IF s_retry_num < MaxRetry THEN "retry" ELSE "idle"
    /\ UNCHANGED <<link, s_retry_num>>

HandleDisconnected ==
    /\ Handle({"disconnected", "wrongPassword"})
    /\ IF s_retry_num < MaxRetry
       THEN bits' = bits \cup WrongPassword /\ eventTask' = "retry"
       ELSE bits' = bits \cup WrongPassword \cup {"finished"} /\ UNCHANGED eventTask
    /\ UNCHANGED <<link, s_retry_num>>

Retry ==
    /\ eventTask = "retry"
    /\ eventTask' = "idle"
    /\ EspConnect
    /\ s_retry_num' = s_retry_num + 1
    /\ UNCHANGED <<config, events, registered, bits, wifiState, call, undisturbed>>

HandleGotIp ==
    /\ Handle({"gotIp"})
    /\ s_retry_num' = 0
    /\ bits' = (bits \ {"wrongPassword"}) \cup {"connected", "finished"}
    /\ UNCHANGED <<link, eventTask>>

EventTaskStep == HandleStart \/ HandleDisconnected \/ Retry \/ HandleGotIp

-----------------------------------------------------------------------------
(* The methods                                                             *)

\* mode(WIFI_MODE_STA) and mode(WIFI_MODE_APSTA): after an earlier call the driver
\* runs already, so esp_wifi_deinit is refused ("Wi-Fi not stop") and
\* esp_wifi_start may have nothing to start.
Mode ==
    /\ \/ Post("start")
       \/ wifiState # "NOT_INITIALIZED" /\ UNCHANGED events
    /\ wifiState' = "DISCONNECTED"
    /\ UNCHANGED <<config, link, handlerVars, call, undisturbed>>

AtRest == link = Down /\ events = <<>> /\ eventTask = "idle"

\* connectToWifi, up to the disconnection.  The first call creates the event
\* group and registers the handler.
CallConnect(net) ==
    /\ call.at = "none"
    /\ call' = [call EXCEPT !.at = "leave", !.net = net]
    /\ s_retry_num' = 0
    /\ registered' = TRUE
    /\ bits' = {}
    /\ undisturbed' = AtRest
    /\ UNCHANGED <<driverVars, eventTask, wifiState>>

CallStep(at, next) ==
    /\ call.at = at
    /\ call' = [call EXCEPT !.at = next]
    /\ UNCHANGED <<handlerVars, undisturbed>>

\* esp_wifi_disconnect ends what the driver is doing, with an event (for which the
\* bound on the pending ones leaves one more place).
Leave ==
    /\ CallStep("leave", "configure")
    /\ IF wifiState = "CONNECTED"
       THEN /\ wifiState' = "DISCONNECTED"
            /\ IF link.state = "down" THEN UNCHANGED <<link, events>>
                                      ELSE /\ Len(events) <= EventQueueLen
                                           /\ link' = Down /\ events' = Append(events, "disconnected")
       ELSE UNCHANGED <<wifiState, link, events>>
    /\ UNCHANGED config

\* Mutant of Configure: the new settings are not given to the driver.
ConfigureSkipped ==
    /\ CallStep("configure", "request")
    /\ UNCHANGED <<driverVars, wifiState>>

\* What happens when the driver rejects the settings is ConfigureAborts of InternetTask.
Configure ==
    /\ CallStep("configure", "request")
    /\ config' = call.net
    /\ UNCHANGED <<link, events, wifiState>>

Request ==
    /\ CallStep("request", "await")
    /\ call.net # NoNetwork
    /\ EspConnect
    /\ UNCHANGED <<config, events, wifiState>>

Return(at, result) ==
    /\ call.at = at
    /\ call' = [call EXCEPT !.at = "none", !.result = result]
    /\ UNCHANGED <<driverVars, handlerVars, undisturbed>>

\* esp_wifi_connect refuses: the SSID is empty, or for a reason the code does not know.
Refused ==
    /\ \/ call.net = NoNetwork /\ Return("request", "DISCONNECTED")
       \/ DriverRefuses /\ call.net # NoNetwork /\ Return("request", "NOT_INITIALIZED")
    /\ UNCHANGED wifiState

\* The wait ends with WIFI_FINISHED or after WIFI_TIMEOUT, 60 s.  By then the start of
\* the station was handled and the first attempt to join has ended, but the retries,
\* and an address, may take longer.
TimedOut ==
    /\ \A k \in 1 .. Len(events) : events[k] # "start"
    /\ link.state = "joining" => s_retry_num > 0

Awaited ==
    /\ "finished" \in bits \/ TimedOut
    /\ Return("await", IF "connected" \in bits THEN "CONNECTED" ELSE "DISCONNECTED")
    /\ wifiState' = call'.result

CallStepping == Leave \/ Configure \/ Request \/ Refused \/ Awaited

\* Mutant of StateSeen: the last retry never counts as spent.
StateSeenHopeful ==
    IF wifiState = "NOT_INITIALIZED" THEN "NOT_INITIALIZED"
    ELSE IF link.state \in {"joined", "up"} THEN "CONNECTED"
    ELSE IF s_retry_num <= MaxRetry THEN "CONNECTING"
    ELSE "DISCONNECTED"

StateSeen ==
    IF wifiState = "NOT_INITIALIZED" THEN "NOT_INITIALIZED"
    ELSE IF link.state \in {"joined", "up"} THEN "CONNECTED"
    ELSE IF s_retry_num < MaxRetry THEN "CONNECTING"
    ELSE "DISCONNECTED"

\* getWifiState also stores what it returns.
GetWifiState ==
    /\ wifiState' = StateSeen
    /\ UNCHANGED <<driverVars, handlerVars, call, undisturbed>>

-----------------------------------------------------------------------------
(* Properties *)

\* Every variable has its type.
StationTypeOK ==
    /\ config \in Credentials
    /\ link \in [state : {"down", "joining", "joined", "up"}, net : Credentials]
    /\ events \in Seq({"start", "disconnected", "wrongPassword", "gotIp"})
    /\ Len(events) <= EventQueueLen + 1
    /\ registered \in BOOLEAN
    /\ bits \subseteq {"finished", "connected", "wrongPassword"}
    /\ s_retry_num \in 0 .. MaxRetry
    /\ eventTask \in {"idle", "retry"}
    /\ wifiState \in {"CONNECTED", "CONNECTING", "DISCONNECTED", "NOT_INITIALIZED"}
    /\ call \in [at : {"none", "leave", "configure", "request", "await"}, net : Credentials,
                 result : {"CONNECTED", "DISCONNECTED", "NOT_INITIALIZED"}]
    /\ undisturbed \in BOOLEAN

Associated == link.state \in {"joined", "up"}

\* Connecting to a network connects to that network: the old one "must be
\* disconnected before connecting to new one" (Wifi.cpp:221, 247).
ConnectsToRequested ==
    call.at = "none" /\ call.result = "CONNECTED" /\ Associated => link.net = call.net

\* So it is for a call that found the station at rest, whatever the driver does
\* during the call and the retries of the handler (Wifi.cpp:73-103, 224-302).
CleanCallConnects == undisturbed => ConnectsToRequested

\* When such a call is told it failed, it has failed: no attempt is under way, no
\* event is pending that starts one, and all the retries were used (Wifi.cpp:84-95).
CleanCallSettles ==
    undisturbed /\ call.at = "await" /\ "finished" \in bits /\ "connected" \notin bits =>
        AtRest /\ s_retry_num = MaxRetry
=============================================================================
