----------------------------- MODULE InternetTask -----------------------------
(***************************************************************************)
(* The internet task (internetTask.cpp), the HTTP server's task with the   *)
(* handlers that change something (file_server.cpp), and the settings      *)
(* kept in flash.  After a boot the task joins the saved network, or opens *)
(* an access point and takes new settings from the HTTP handler; once      *)
(* online it announces the device to the broker and watches the network.   *)
(*                                                                         *)
(* The scan changes no state.  The draining of mqttTransmitQueue in the    *)
(* last loop is Transmit of RelayTask.                                     *)
(***************************************************************************)
EXTENDS WifiStation

CONSTANTS MaxPosts,         \* bound: how many settings users post
          MaxPowerLosses    \* bound: how often the power fails

ASSUME BoundsAssumption == MaxPosts \in Nat /\ MaxPowerLosses \in Nat

VARIABLES
    task,               \* where the internet task is; the names are explained at the actions
    networkState,       \* its global wifiState
    saved,              \* SSID and password in flash
    settings,           \* the WifiSettings the task has in hand
    wifiSettingsQueue,
    connectionFlag,     \* the event group of each request; it is never deleted
    httpd,              \* the HTTP server's task and the request it handles
    responses,          \* what the browser was answered
    newMessage,         \* the bit MQTT_NEW_MESSAGE of mqttEventGroup
    posts, powerLosses, \* counters of the bounds
    results             \* not in the code: what connectToWifi returned for each request

Requests == 1 .. MaxPosts
NoRequest == [flag |-> 0, net |-> NoNetwork]
NoHttpd == [at |-> "down", request |-> NoRequest]

taskVars == <<task, networkState, saved, settings, newMessage>>
httpVars == <<httpd, responses, posts>>
sharedVars == <<wifiSettingsQueue, connectionFlag>>
vars == <<stationVars, taskVars, httpVars, sharedVars, powerLosses, results>>

\* The device is new, or was configured before.
Init ==
    /\ StationInit
    /\ task = "boot" /\ networkState = "DISCONNECTED"
    /\ saved = [ssid |-> config, password |-> config]
    /\ settings = NoRequest
    /\ wifiSettingsQueue = <<>> /\ connectionFlag = [f \in Requests |-> {}]
    /\ httpd = NoHttpd /\ responses = [f \in Requests |-> "none"]
    /\ newMessage = FALSE /\ posts = 0 /\ powerLosses = 0
    /\ results = [f \in Requests |-> "none"]

\* esp_restart, a failed ESP_ERROR_CHECK or a loss of power: only the flash stays.
Reset ==
    /\ StationReset
    /\ task' = "boot" /\ networkState' = "DISCONNECTED" /\ settings' = NoRequest
    /\ wifiSettingsQueue' = <<>> /\ connectionFlag' = [f \in Requests |-> {}]
    /\ httpd' = NoHttpd /\ newMessage' = FALSE
    /\ UNCHANGED <<saved, responses, posts, results>>

-----------------------------------------------------------------------------
(* Booting                                                                 *)

\* The pair the driver is given: a mixed one belongs to no network.
SavedNetwork == IF saved.ssid = saved.password THEN saved.ssid ELSE Garbage

\* "boot": the pin of the button reads low, so the station is started ...
BootStation ==
    /\ task = "boot"
    /\ task' = "join"
    /\ Mode
    /\ UNCHANGED <<networkState, saved, settings, newMessage, httpVars, sharedVars, powerLosses, results>>

\* ... or high, and the access point is to come.
BootAccessPoint ==
    /\ task = "boot"
    /\ task' = "server"
    /\ UNCHANGED <<stationVars, networkState, saved, settings, newMessage, httpVars, sharedVars,
                   powerLosses, results>>

Join ==
    /\ task = "join"
    /\ task' = "joining"
    /\ CallConnect(SavedNetwork)
    /\ UNCHANGED <<networkState, saved, settings, newMessage, httpVars, sharedVars, powerLosses, results>>

Joined ==
    /\ task = "joining"
    /\ call.at = "none"
    /\ networkState' = call.result
    /\ task' = "server"
    /\ UNCHANGED <<stationVars, saved, settings, newMessage, httpVars, sharedVars, powerLosses, results>>

\* Mutant of StartServer: the access point is for a station that could not start.
StartServerOffline ==
    /\ task = "server"
    /\ httpd' = [NoHttpd EXCEPT !.at = "idle"]
    /\ task' = IF networkState = "NOT_INITIALIZED" THEN "ap" ELSE "broker"
    /\ UNCHANGED <<stationVars, networkState, saved, settings, newMessage, responses, posts, sharedVars,
                   powerLosses, results>>

\* "server": startHTTPServer, then the access point or the broker.
StartServer ==
    /\ task = "server"
    /\ httpd' = [NoHttpd EXCEPT !.at = "idle"]
    /\ task' = IF networkState = "DISCONNECTED" THEN "ap" ELSE "broker"
    /\ UNCHANGED <<stationVars, networkState, saved, settings, newMessage, responses, posts, sharedVars,
                   powerLosses, results>>

CreateAP ==
    /\ task = "ap"
    /\ task' = "provision"
    /\ Mode
    /\ UNCHANGED <<networkState, saved, settings, newMessage, httpVars, sharedVars, powerLosses, results>>

-----------------------------------------------------------------------------
(* The loop that takes new settings: it ends with a restart                *)

\* Mutant of ReceiveSettings: it connects with the settings it had before.
ReceiveSettingsStale ==
    /\ task = "provision"
    /\ wifiSettingsQueue # <<>>
    /\ settings' = Head(wifiSettingsQueue)
    /\ wifiSettingsQueue' = Tail(wifiSettingsQueue)
    /\ CallConnect(settings.net)
    /\ task' = "try"
    /\ UNCHANGED <<networkState, saved, newMessage, httpVars, connectionFlag, powerLosses, results>>

ReceiveSettings ==
    /\ task = "provision"
    /\ wifiSettingsQueue # <<>>
    /\ settings' = Head(wifiSettingsQueue)
    /\ wifiSettingsQueue' = Tail(wifiSettingsQueue)
    /\ CallConnect(settings'.net)
    /\ task' = "try"
    /\ UNCHANGED <<networkState, saved, newMessage, httpVars, connectionFlag, powerLosses, results>>

\* Only two of the results are signalled to the handler, and never
\* WIFI_WRONG_PASSWORD_BIT.
Signal ==
    CASE call.result = "DISCONNECTED"    -> {"finished"}
      [] call.result = "CONNECTED"       -> {"connected", "finished"}
      [] call.result = "NOT_INITIALIZED" -> {}

\* Mutant of SignalResult: only a refusal keeps the settings from being saved.
SignalResultSaves ==
    /\ task = "try"
    /\ call.at = "none"
    /\ networkState' = call.result
    /\ connectionFlag' = [connectionFlag EXCEPT ![settings.flag] = @ \cup Signal]
    /\ results' = [results EXCEPT ![settings.flag] = call.result]
    /\ task' = IF call.result # "DISCONNECTED" THEN "saveSsid" ELSE "provision"
    /\ UNCHANGED <<stationVars, saved, settings, newMessage, httpVars, wifiSettingsQueue, powerLosses>>

SignalResult ==
    /\ task = "try"
    /\ call.at = "none"
    /\ networkState' = call.result
    /\ connectionFlag' = [connectionFlag EXCEPT ![settings.flag] = @ \cup Signal]
    /\ results' = [results EXCEPT ![settings.flag] = call.result]
    /\ task' = IF call.result = "CONNECTED" THEN "saveSsid" ELSE "provision"
    /\ UNCHANGED <<stationVars, saved, settings, newMessage, httpVars, wifiSettingsQueue, powerLosses>>

\* The queue copied the two Strings bit by bit, so their text is still the
\* handler's, who frees it when it returns.  A short text is inside the String.
InHandler == httpd.at \in {"post", "wait"} /\ httpd.request.flag = settings.flag

TextOf(s) == IF InHandler THEN {s.net} ELSE {s.net, Garbage}

SaveSsid ==
    /\ task = "saveSsid"
    /\ task' = "savePassword"
    /\ \E text \in TextOf(settings) : saved' = [saved EXCEPT !.ssid = text]
    /\ UNCHANGED <<stationVars, networkState, settings, newMessage, httpVars, sharedVars, powerLosses, results>>

SavePassword ==
    /\ task = "savePassword"
    /\ task' = "provision"
    /\ \E text \in TextOf(settings) : saved' = [saved EXCEPT !.password = text]
    /\ UNCHANGED <<stationVars, networkState, settings, newMessage, httpVars, sharedVars, powerLosses, results>>

-----------------------------------------------------------------------------
(* Online                                                                  *)

\* "broker": mqtt_app_start up to its loop.  The certificate is part of the program,
\* so that it is never missing.
StartBroker ==
    /\ task = "broker"
    /\ task' = "announce"
    /\ UNCHANGED <<stationVars, networkState, saved, settings, newMessage, httpVars, sharedVars,
                   powerLosses, results>>

\* "announce": it publishes the device, again and again, until the first message
\* comes, and does not look at the network.  A broker lost between the message and
\* the test of mqttConnected keeps it in the loop.
Announced ==
    /\ task = "announce"
    /\ newMessage
    /\ newMessage' = FALSE
    /\ task' \in {"run", "announce"}
    /\ UNCHANGED <<stationVars, networkState, saved, settings, httpVars, sharedVars, powerLosses, results>>

\* "run": one look at the network; a lost one ends in a restart.
WatchNetwork ==
    /\ task = "run"
    /\ GetWifiState
    /\ networkState' = StateSeen
    /\ task' = IF StateSeen = "DISCONNECTED" THEN "restart" ELSE "run"
    /\ UNCHANGED <<saved, settings, newMessage, httpVars, sharedVars, powerLosses, results>>

Restart ==
    /\ task = "restart"
    /\ Reset
    /\ UNCHANGED powerLosses

InternetTaskStep ==
    \/ BootStation \/ BootAccessPoint \/ Join \/ Joined \/ StartServer \/ CreateAP
    \/ ReceiveSettings \/ SignalResult \/ SaveSsid \/ SavePassword
    \/ StartBroker \/ Announced \/ WatchNetwork \/ Restart

\* The steps inside connectToWifi are also the internet task's.
CallStepped == CallStepping /\ UNCHANGED <<taskVars, httpVars, sharedVars, powerLosses, results>>

\* changeStationSettings gives the driver settings it rejects, a password of the
\* wrong length among them: the failed ESP_ERROR_CHECK restarts the chip.
ConfigureAborts ==
    /\ call.at = "configure"
    /\ DriverRefuses \/ call.net \notin Joinable \cup {NoNetwork}
    /\ Reset
    /\ UNCHANGED powerLosses

-----------------------------------------------------------------------------
(* The HTTP server's task: one request at a time                           *)

\* The access point is up when its start was handled, and the event loop handles the
\* start of the station first.
ServesAP ==
    /\ task \in {"provision", "try", "saveSsid", "savePassword"}
    /\ \A k \in 1 .. Len(events) : events[k] # "start"

Reachable == link.state = "up" \/ ServesAP

\* access_point_post_handler: a post of settings begins ...
BeginPost ==
    /\ httpd.at = "idle" /\ Reachable /\ posts < MaxPosts
    /\ httpd' = [httpd EXCEPT !.at = "receive"]
    /\ UNCHANGED <<stationVars, taskVars, responses, posts, sharedVars, powerLosses, results>>

\* ... and its body is received.  Only the whole body ends the loop: a timeout goes
\* round again, a closed socket leaves "remaining" as it is and an error makes it
\* larger, so that this step may never come.
ReceiveBody(net) ==
    /\ httpd.at = "receive"
    /\ posts' = posts + 1
    /\ httpd' = [at |-> "post", request |-> [flag |-> posts + 1, net |-> net]]
    /\ UNCHANGED <<stationVars, taskVars, responses, sharedVars, powerLosses, results>>

\* The send to wifiSettingsQueue, of length one, waits for ever.
SendSettings ==
    /\ httpd.at = "post"
    /\ wifiSettingsQueue = <<>>
    /\ wifiSettingsQueue' = <<httpd.request>>
    /\ httpd' = [httpd EXCEPT !.at = "wait"]
    /\ UNCHANGED <<stationVars, taskVars, responses, posts, connectionFlag, powerLosses, results>>

Respond(status) ==
    /\ httpd.at = "wait"
    /\ responses' = [responses EXCEPT ![httpd.request.flag] = status]
    /\ httpd' = [NoHttpd EXCEPT !.at = "idle"]
    /\ UNCHANGED <<taskVars, posts, sharedVars, powerLosses, results>>

\* Mutant of flags: one event group for all requests.
flagsOfAll == UNION {connectionFlag[f] : f \in Requests}

flags == connectionFlag[httpd.request.flag]

RespondConnected ==
    /\ httpd.at = "wait" /\ {"finished", "connected"} \subseteq flags
    /\ Respond("200")
    /\ GetWifiState

RespondFailed ==
    /\ httpd.at = "wait" /\ "finished" \in flags /\ "connected" \notin flags
    /\ Respond(IF "wrongPassword" \in flags THEN "401" ELSE "500")
    /\ UNCHANGED stationVars

\* The wait ends after 61 s.  With the access point open the request has been taken
\* long before, and connectToWifi takes 60 s at most.
StillWorkedOn ==
    \/ task \in {"ap", "provision", "saveSsid", "savePassword"} /\ wifiSettingsQueue # <<>>
    \/ task = "try" /\ settings.flag = httpd.request.flag

\* Mutant of RespondTimeout: the handler waits for ever.
RespondTimeoutNever == httpd.at = "wait" /\ FALSE

RespondTimeout ==
    /\ httpd.at = "wait" /\ "finished" \notin flags
    /\ ~StillWorkedOn
    /\ Respond("500")
    /\ UNCHANGED stationVars

\* index_handler: the page says whether the device is connected, and asking for that
\* stores the answer in the Wifi object the internet task is using.
ShowPage ==
    /\ httpd.at = "idle" /\ Reachable
    /\ GetWifiState
    /\ UNCHANGED <<taskVars, httpVars, sharedVars, powerLosses, results>>

\* restart_command_handler restarts after five seconds.
RestartCommand ==
    /\ httpd.at = "idle" /\ Reachable
    /\ httpd' = [httpd EXCEPT !.at = "restart"]
    /\ UNCHANGED <<stationVars, taskVars, responses, posts, sharedVars, powerLosses, results>>

RestartNow ==
    /\ httpd.at = "restart"
    /\ Reset
    /\ UNCHANGED powerLosses

HttpdStep == SendSettings \/ RespondConnected \/ RespondFailed \/ RespondTimeout \/ RestartNow

-----------------------------------------------------------------------------
(* Everything else                                                         *)

\* Later messages set a bit that nobody looks at.
BrokerMessage ==
    /\ task = "announce" /\ link.state = "up"
    /\ newMessage' = TRUE
    /\ UNCHANGED <<stationVars, task, networkState, saved, settings, httpVars, sharedVars, powerLosses, results>>

LosePower ==
    /\ powerLosses < MaxPowerLosses
    /\ powerLosses' = powerLosses + 1
    /\ Reset

DriverStep == Driver /\ UNCHANGED <<taskVars, httpVars, sharedVars, powerLosses, results>>

HandlerStep == EventTaskStep /\ UNCHANGED <<taskVars, httpVars, sharedVars, powerLosses, results>>

Next ==
    \/ InternetTaskStep \/ CallStepped \/ HttpdStep \/ HandlerStep \/ DriverStep
    \/ ConfigureAborts
    \/ BeginPost
    \/ \E net \in Networks : ReceiveBody(net)
    \/ ShowPage \/ RestartCommand \/ BrokerMessage \/ LosePower

Spec == Init /\ [][Next]_vars

\* The scheduler runs every task again and again; every wait of connectToWifi has a
\* timeout, and so has every wait of the handler but two: for the body of a post,
\* which nobody is obliged to send, and for room in the queue (SendSettings).  An
\* attempt to join ends.
AttemptEnds == DriverStep /\ link.state = "joining"

FairSpec ==
    /\ Spec
    /\ WF_vars(InternetTaskStep) /\ WF_vars(CallStepped)
    /\ WF_vars(HttpdStep) /\ WF_vars(HandlerStep) /\ WF_vars(AttemptEnds)

-----------------------------------------------------------------------------
(* Properties *)

\* Every variable has its type.
InternetTypeOK ==
    /\ StationTypeOK
    /\ task \in {"boot", "join", "joining", "server", "ap", "provision", "try", "saveSsid",
                 "savePassword", "broker", "announce", "run", "restart"}
    /\ networkState \in {"CONNECTED", "CONNECTING", "DISCONNECTED", "NOT_INITIALIZED"}
    /\ saved \in [ssid : Credentials, password : Credentials]
    /\ settings \in [flag : 0 .. MaxPosts, net : Credentials]
    /\ wifiSettingsQueue \in Seq([flag : Requests, net : Networks]) /\ Len(wifiSettingsQueue) <= 1
    /\ connectionFlag \in [Requests -> SUBSET {"finished", "connected", "wrongPassword"}]
    /\ httpd \in [at : {"down", "idle", "receive", "post", "wait", "restart"},
                  request : [flag : 0 .. MaxPosts, net : Credentials]]
    /\ httpd.at \in {"post", "wait"} => httpd.request \in [flag : Requests, net : Networks]
    /\ responses \in [Requests -> {"none", "200", "401", "500"}]
    /\ newMessage \in BOOLEAN
    /\ posts \in 0 .. MaxPosts /\ (httpd.at = "receive" => posts < MaxPosts)
    /\ powerLosses \in 0 .. MaxPowerLosses
    /\ results \in [Requests -> {"none", "CONNECTED", "DISCONNECTED", "NOT_INITIALIZED"}]

\* A browser is told of success exactly when its own request succeeded, and not
\* when an earlier or a later one did (file_server.cpp:249-284).
AnsweredForItsOwn ==
    \A f \in Requests : responses[f] # "none" =>
                            (responses[f] = "200" <=> results[f] = "CONNECTED")

\* The request a handler waits for is the one in the queue, or the one the task is
\* trying, or it has its result.
NothingLost ==
    httpd.at = "wait" =>
        \/ wifiSettingsQueue = <<httpd.request>> /\ results[httpd.request.flag] = "none"
        \/ task = "try" /\ settings = httpd.request
        \/ wifiSettingsQueue = <<>> /\ results[httpd.request.flag] # "none"

\* Whatever the task tries, its handler is still there, so that the text of the two
\* Strings is too.
TriesItsOwn ==
    task = "try" => httpd.at = "wait" /\ httpd.request = settings /\ call.net = settings.net

Provisioning == task \in {"ap", "provision", "try", "saveSsid", "savePassword"}

\* With the access point open no earlier request is left in the queue when another is
\* sent: the send, which has no timeout, does not wait.
SendHasRoom == Provisioning /\ wifiSettingsQueue # <<>> => httpd.at = "wait"

\* Requests are never lost, mixed up, passed over or in each other's way
\* (internetTask.cpp:70-71, file_server.cpp:246-255).
RequestKept == NothingLost /\ TriesItsOwn /\ SendHasRoom

\* Both writes to flash are of settings with which the device has connected, and no
\* call for others began in between (internetTask.cpp:71-82): settings that
\* failed never take the place of those that work.
SavesConnected ==
    [][saved' # saved =>
           /\ settings.flag \in Requests /\ results[settings.flag] = "CONNECTED"
           /\ call = [at |-> "none", net |-> settings.net, result |-> "CONNECTED"]]_vars

\* What is saved is what a user entered, and connected: "save the new settings"
\* (internetTask.cpp:79-81).
SavedIsEntered == {saved.ssid, saved.password} \subseteq Networks \cup {NoNetwork}

\* The event group is "for signaling the sender task that the wifi connection is
\* finished" (main.cpp:17-19): whoever posts settings, with a body that arrives, gets
\* an answer.
PostAnswered == httpd.at = "post" ~> httpd.at \in {"idle", "down"}

\* With the access point open it is so: each post whose body has arrived gets its own
\* answer, also after an earlier one that failed or timed out, unless the device
\* restarts meanwhile (internetTask.cpp:69-85, file_server.cpp:246-285).
PostAnsweredByAP ==
    \A f \in Requests :
        httpd.at = "post" /\ httpd.request.flag = f /\ task = "provision" ~>
            responses[f] # "none" \/ httpd.at = "down"

\* The driver refused a retry, which the handler does not notice: nothing is under
\* way, and with retries left the state stays CONNECTING (Wifi.cpp:85, 325).
RefusedUnnoticed == AtRest /\ s_retry_num < MaxRetry

\* A network lost for good while the device is online ends in a restart, which
\* leads to the access point or back to the network (internetTask.cpp:110-114),
\* unless the driver refuses to try.
LossEndsInRestart ==
    task = "run" /\ ~Associated ~>
        task = "restart" \/ Associated \/ task = "boot" \/ RefusedUnnoticed

\* Useless settings in flash, which a power loss between the two writes can leave
\* behind, do not keep the device from its access point (internetTask.cpp:51, 64-66,
\* 80-81), unless the driver's own copy of older settings brings it online, or it
\* refuses to try, or it rejects the settings at every boot: then the device restarts
\* for ever, until someone presses the button (Wifi.cpp:215, 254).
UselessSettingsOpenAP ==
    \/ task = "join" /\ SavedNetwork \notin Joinable ~>
           task = "provision" \/ Associated \/ networkState = "NOT_INITIALIZED"
    \/ []<><<ConfigureAborts>>_vars
=============================================================================
