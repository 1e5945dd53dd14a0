-------------------------- MODULE InternetTaskProofs --------------------------
(***************************************************************************)
(* Proofs about WifiStation and InternetTask, for every set of networks,   *)
(* every number of retries, posts and losses of power, and every bound on  *)
(* the pending events, with a driver that may or may not refuse.           *)
(***************************************************************************)
EXTENDS InternetTask, TLAPS

-----------------------------------------------------------------------------
(* The steps, as the station sees them                                     *)

\* No call of connectToWifi is under way while the internet task starts Wi-Fi.
CallsFromTask == call.at # "none" => task \in {"joining", "try"}

\* Every step of the system is a step of one of the station's parties, or leaves
\* the station alone.
LEMMA StationSteps ==
    ASSUME [Next]_vars
    PROVE  \/ Driver \/ EventTaskStep \/ CallStepping
           \/ Mode /\ task \in {"boot", "ap"}
           \/ task = "join" /\ CallConnect(SavedNetwork)
           \/ task = "provision" /\ wifiSettingsQueue # <<>> /\ CallConnect(Head(wifiSettingsQueue).net)
           \/ GetWifiState \/ StationReset \/ UNCHANGED stationVars
<1>1. CASE InternetTaskStep
  <2>1. CASE ReceiveSettings
    BY <2>1 DEF ReceiveSettings, CallConnect
  <2>2. CASE BootStation \/ CreateAP
    BY <2>2 DEF BootStation, CreateAP
  <2>4. CASE Join \/ WatchNetwork \/ Restart
    BY <2>4 DEF Join, WatchNetwork, Restart, Reset
  <2>3. CASE \/ BootAccessPoint \/ Joined \/ StartServer \/ SignalResult \/ SaveSsid \/ SavePassword
             \/ StartBroker \/ Announced
    BY <2>3 DEF BootAccessPoint, Joined, StartServer, SignalResult, SaveSsid, SavePassword, StartBroker,
       Announced
  <2> QED
    BY <1>1, <2>1, <2>2, <2>3, <2>4 DEF InternetTaskStep
<1>2. CASE CallStepped \/ HandlerStep \/ DriverStep \/ ShowPage
  BY <1>2 DEF CallStepped, HandlerStep, DriverStep, ShowPage
<1>3. CASE \/ HttpdStep \/ RestartCommand \/ BrokerMessage \/ LosePower \/ ConfigureAborts \/ BeginPost
           \/ \E net \in Networks : ReceiveBody(net)
  BY <1>3 DEF HttpdStep, SendSettings, RespondConnected, RespondFailed, RespondTimeout, RestartNow,
     RestartCommand, BrokerMessage, LosePower, ConfigureAborts, Reset, BeginPost, ReceiveBody
<1>4. CASE UNCHANGED vars
  BY <1>4 DEF vars
<1> QED
  BY <1>1, <1>2, <1>3, <1>4 DEF Next

-----------------------------------------------------------------------------
(* Type correctness                                                        *)

\* A retry is begun only when one is left.
RetryLeft == eventTask = "retry" => s_retry_num < MaxRetry

EventKinds == {"start", "disconnected", "wrongPassword", "gotIp"}

LEMMA PostType ==
    ASSUME StationTypeOK, NEW e \in EventKinds, Post(e)
    PROVE  events' \in Seq(EventKinds) /\ Len(events') <= EventQueueLen + 1
BY StationAssumption DEF StationTypeOK, Post, CanPost, EventKinds

LEMMA HandleType ==
    ASSUME StationTypeOK, NEW kinds, Handle(kinds)
    PROVE  events' \in Seq(EventKinds) /\ Len(events') <= EventQueueLen + 1
BY StationAssumption DEF StationTypeOK, Handle, EventKinds

Links == [state : {"down", "joining", "joined", "up"}, net : Credentials]

LEMMA ConnectType ==
    ASSUME StationTypeOK, EspConnect
    PROVE  link' \in Links
BY DEF StationTypeOK, EspConnect, Joining, Links

LEMMA DownType == Down \in Links
BY DEF Down, Links, Credentials

LEMMA HeadType ==
    ASSUME NEW S, NEW q \in Seq(S), q # <<>>
    PROVE  Head(q) \in S
OBVIOUS

LEMMA StationStepType ==
    ASSUME StationTypeOK, RetryLeft, saved \in [ssid : Credentials, password : Credentials],
           wifiSettingsQueue \in Seq([flag : Requests, net : Networks]), [Next]_vars
    PROVE  StationTypeOK' /\ RetryLeft'
<1> USE DEF StationTypeOK, RetryLeft, handlerVars, driverVars
<1>1. CASE Driver
  <2>1. link' \in Links
    BY <1>1, DownType DEF Driver, Associate, GetAddress, Lose, Links
  <2>2. events' \in Seq(EventKinds) /\ Len(events') <= EventQueueLen + 1
    BY <1>1, PostType DEF Driver, Associate, GetAddress, Lose, EventKinds
  <2> QED
    BY <1>1, <2>1, <2>2 DEF Driver, Associate, GetAddress, Lose, Links, EventKinds
<1>2. CASE EventTaskStep
  <2>1. link' \in Links
    BY <1>2, ConnectType DEF EventTaskStep, HandleStart, HandleDisconnected, HandleGotIp, Retry, Links
  <2>2. events' \in Seq(EventKinds) /\ Len(events') <= EventQueueLen + 1
    BY <1>2, HandleType DEF EventTaskStep, HandleStart, HandleDisconnected, HandleGotIp, Retry, EventKinds
  <2>3. bits' \subseteq {"finished", "connected", "wrongPassword"}
    BY <1>2 DEF EventTaskStep, HandleStart, HandleDisconnected, HandleGotIp, Retry, WrongPassword
  <2>5. /\ s_retry_num' \in 0 .. MaxRetry /\ eventTask' \in {"idle", "retry"}
        /\ RetryLeft'
    BY <1>2, StationAssumption DEF EventTaskStep, HandleStart, HandleDisconnected, HandleGotIp, Retry, Handle
  <2>4. UNCHANGED <<config, registered, wifiState, call, undisturbed>>
    BY <1>2 DEF EventTaskStep, HandleStart, HandleDisconnected, HandleGotIp, Retry, Handle
  <2> QED
    BY <2>1, <2>2, <2>3, <2>4, <2>5 DEF Links, EventKinds
<1>3. CASE CallStepping
  <2>1. link' \in Links
    BY <1>3, ConnectType, DownType DEF CallStepping, Leave, Configure, Request, Refused, Awaited, Return, Links
  <2>2. events' \in Seq(EventKinds) /\ Len(events') <= EventQueueLen + 1
    <3>1. events' = events \/ (Len(events) <= EventQueueLen /\ events' = Append(events, "disconnected"))
      <4>1. CASE Leave
        BY <4>1 DEF Leave
      <4>2. CASE Configure \/ Request \/ Refused \/ Awaited
        BY <4>2 DEF Configure, Request, Refused, Awaited, Return
      <4> QED
        BY <1>3, <4>1, <4>2 DEF CallStepping
    <3> QED
      <4>1. "disconnected" \in EventKinds /\ events \in Seq(EventKinds) /\ Len(events) <= EventQueueLen + 1
        BY DEF EventKinds
      <4>2. CASE events' = events
        BY <4>1, <4>2
      <4>3. CASE Len(events) <= EventQueueLen /\ events' = Append(events, "disconnected")
        BY <4>1, <4>3, StationAssumption
      <4> QED
        BY <3>1, <4>2, <4>3
  <2>3. /\ call' \in [at : {"none", "leave", "configure", "request", "await"}, net : Credentials,
                      result : {"CONNECTED", "DISCONNECTED", "NOT_INITIALIZED"}]
        /\ config' \in Credentials
        /\ wifiState' \in {"CONNECTED", "CONNECTING", "DISCONNECTED", "NOT_INITIALIZED"}
    BY <1>3 DEF CallStepping, Leave, Configure, Request, Refused, Awaited, Return, CallStep
  <2>4. UNCHANGED <<handlerVars, undisturbed>>
    BY <1>3 DEF CallStepping, Leave, Configure, Request, Refused, Awaited, Return, CallStep
  <2> QED
    BY <2>1, <2>2, <2>3, <2>4 DEF Links, EventKinds
<1>4. CASE Mode
  <2>1. events' \in Seq(EventKinds) /\ Len(events') <= EventQueueLen + 1
    BY <1>4, PostType DEF Mode, EventKinds
  <2> QED
    BY <1>4, <2>1 DEF Mode, EventKinds
<1>5. ASSUME NEW net \in Credentials, CallConnect(net) PROVE StationTypeOK' /\ RetryLeft'
  <2>1. /\ call' = [call EXCEPT !.at = "leave", !.net = net] /\ s_retry_num' = 0
        /\ registered' = TRUE /\ bits' = {} /\ undisturbed' = AtRest
        /\ UNCHANGED <<config, link, events, eventTask, wifiState>>
    BY <1>5 DEF CallConnect
  <2>2. undisturbed' \in BOOLEAN
    BY <2>1 DEF AtRest
  <2>3. call' \in [at : {"none", "leave", "configure", "request", "await"}, net : Credentials,
                  result : {"CONNECTED", "DISCONNECTED", "NOT_INITIALIZED"}]
    BY <2>1
  <2> QED
    BY <2>1, <2>2, <2>3, StationAssumption
<1>6. SavedNetwork \in Credentials
  BY DEF SavedNetwork, Credentials
<1>7. wifiSettingsQueue # <<>> => Head(wifiSettingsQueue).net \in Credentials
  <2>1. wifiSettingsQueue # <<>> => Head(wifiSettingsQueue) \in [flag : Requests, net : Networks]
    BY HeadType
  <2> QED
    BY <2>1 DEF Credentials
<1>8. CASE GetWifiState
  BY <1>8 DEF GetWifiState, StateSeen
<1>9. CASE StationReset
  <2>1. NoNetwork \in Credentials /\ link' \in Links
    BY <1>9, DownType DEF StationReset, Credentials
  <2>2. events' \in Seq(EventKinds) /\ Len(events') <= EventQueueLen + 1
    BY <1>9, StationAssumption DEF StationReset
  <2>3. /\ registered' = FALSE /\ bits' = {} /\ s_retry_num' = 0 /\ eventTask' = "idle"
        /\ wifiState' = "NOT_INITIALIZED" /\ undisturbed' = FALSE /\ config' = config
        /\ call' = [at |-> "none", net |-> NoNetwork, result |-> "NOT_INITIALIZED"]
    BY <1>9 DEF StationReset
  <2>4. call' \in [at : {"none", "leave", "configure", "request", "await"}, net : Credentials,
                  result : {"CONNECTED", "DISCONNECTED", "NOT_INITIALIZED"}]
    BY <2>1, <2>3
  <2>5. s_retry_num' \in 0 .. MaxRetry /\ bits' \subseteq {"finished", "connected", "wrongPassword"}
    BY <2>3, StationAssumption
  <2>6. link' \in [state : {"down", "joining", "joined", "up"}, net : Credentials]
    BY <2>1 DEF Links
  <2>7. events' \in Seq({"start", "disconnected", "wrongPassword", "gotIp"})
    BY <2>2 DEF EventKinds
  <2> QED
    BY <2>2, <2>3, <2>4, <2>5, <2>6, <2>7
<1>10. CASE UNCHANGED stationVars
  BY <1>10 DEF stationVars
<1> QED
  BY <1>1, <1>2, <1>3, <1>4, <1>5, <1>6, <1>7, <1>8, <1>9, <1>10, StationSteps

Responses == {"none", "200", "401", "500"}
Results == {"none", "CONNECTED", "DISCONNECTED", "NOT_INITIALIZED"}
Flags == {"finished", "connected", "wrongPassword"}

TaskOK ==
    /\ task \in {"boot", "join", "joining", "server", "ap", "provision", "try", "saveSsid",
                 "savePassword", "broker", "announce", "run", "restart"}
    /\ networkState \in {"CONNECTED", "CONNECTING", "DISCONNECTED", "NOT_INITIALIZED"}
    /\ saved \in [ssid : Credentials, password : Credentials]
    /\ settings \in [flag : 0 .. MaxPosts, net : Credentials]
    /\ newMessage \in BOOLEAN

SharedOK ==
    /\ wifiSettingsQueue \in Seq([flag : Requests, net : Networks]) /\ Len(wifiSettingsQueue) <= 1
    /\ connectionFlag \in [Requests -> SUBSET Flags]
    /\ results \in [Requests -> Results]
    /\ powerLosses \in 0 .. MaxPowerLosses

HttpOK ==
    /\ httpd \in [at : {"down", "idle", "receive", "post", "wait", "restart"},
                  request : [flag : 0 .. MaxPosts, net : Credentials]]
    /\ httpd.at \in {"post", "wait"} => httpd.request \in [flag : Requests, net : Networks]
    /\ responses \in [Requests -> Responses]
    /\ posts \in 0 .. MaxPosts /\ (httpd.at = "receive" => posts < MaxPosts)

LEMMA TypeParts == InternetTypeOK <=> StationTypeOK /\ TaskOK /\ SharedOK /\ HttpOK
BY DEF InternetTypeOK, TaskOK, SharedOK, HttpOK, Responses, Results, Flags

LEMMA NoRequestType == NoRequest \in [flag : 0 .. MaxPosts, net : Credentials]
BY BoundsAssumption DEF NoRequest, Credentials

LEMMA StateSeenType ==
    ASSUME StationTypeOK
    PROVE  StateSeen \in {"CONNECTED", "CONNECTING", "DISCONNECTED", "NOT_INITIALIZED"}
BY DEF StateSeen

LEMMA ResetType ==
    ASSUME TaskOK, SharedOK, HttpOK, Reset, powerLosses' \in 0 .. MaxPowerLosses
    PROVE  TaskOK' /\ SharedOK' /\ HttpOK'
<1>1. TaskOK'
  BY NoRequestType DEF Reset, TaskOK
<1>2. SharedOK'
  BY DEF Reset, SharedOK
<1>3. HttpOK'
  BY NoRequestType DEF Reset, HttpOK, NoHttpd
<1> QED
  BY <1>1, <1>2, <1>3

LEMMA TaskStepType ==
    ASSUME StationTypeOK, TaskOK, SharedOK, HttpOK, InternetTaskStep
    PROVE  TaskOK' /\ SharedOK' /\ HttpOK'
<1> USE DEF taskVars, httpVars, sharedVars
<1>1. CASE BootStation \/ BootAccessPoint \/ Join \/ CreateAP \/ StartBroker \/ Announced
  BY <1>1 DEF BootStation, BootAccessPoint, Join, CreateAP, StartBroker, Announced, TaskOK, SharedOK, HttpOK
<1>2. CASE Joined
  BY <1>2 DEF Joined, TaskOK, SharedOK, HttpOK, StationTypeOK
<1>3. CASE StartServer
  <2>1. httpd' \in [at : {"down", "idle", "receive", "post", "wait", "restart"},
                   request : [flag : 0 .. MaxPosts, net : Credentials]] /\ httpd'.at = "idle"
    BY <1>3, NoRequestType DEF StartServer, NoHttpd
  <2> QED
    BY <1>3, <2>1 DEF StartServer, TaskOK, SharedOK, HttpOK
<1>4. CASE ReceiveSettings
  <2>1. wifiSettingsQueue # <<>> /\ settings' = Head(wifiSettingsQueue)
        /\ wifiSettingsQueue' = Tail(wifiSettingsQueue) /\ task' = "try"
        /\ UNCHANGED <<networkState, saved, newMessage, httpVars, connectionFlag, powerLosses, results>>
    BY <1>4 DEF ReceiveSettings
  <2>2. settings' \in [flag : Requests, net : Networks]
    BY <2>1, HeadType DEF SharedOK
  <2>3. settings' \in [flag : 0 .. MaxPosts, net : Credentials]
    BY <2>2 DEF Requests, Credentials
  <2>4. wifiSettingsQueue' \in Seq([flag : Requests, net : Networks]) /\ Len(wifiSettingsQueue') <= 1
    BY <2>1 DEF SharedOK
  <2> QED
    BY <2>1, <2>3, <2>4 DEF TaskOK, SharedOK, HttpOK
<1>5. CASE SignalResult
  <2>1. call.result \in Results /\ call.result \in {"CONNECTED", "DISCONNECTED", "NOT_INITIALIZED"}
    BY DEF StationTypeOK, Results
  <2>2. Signal \in SUBSET Flags
    BY <2>1 DEF Signal, Flags
  <2>3. connectionFlag' \in [Requests -> SUBSET Flags] /\ results' \in [Requests -> Results]
    BY <1>5, <2>1, <2>2 DEF SignalResult, SharedOK
  <2> QED
    BY <1>5, <2>1, <2>3 DEF SignalResult, TaskOK, SharedOK, HttpOK
<1>6. CASE SaveSsid \/ SavePassword
  <2>1. TextOf(settings) \subseteq Credentials
    BY DEF TextOf, TaskOK, Credentials
  <2>2. saved' \in [ssid : Credentials, password : Credentials]
    BY <1>6, <2>1 DEF SaveSsid, SavePassword, TaskOK
  <2> QED
    BY <1>6, <2>2 DEF SaveSsid, SavePassword, TaskOK, SharedOK, HttpOK
<1>7. CASE WatchNetwork
  BY <1>7, StateSeenType DEF WatchNetwork, TaskOK, SharedOK, HttpOK
<1>8. CASE Restart
  BY <1>8, ResetType DEF Restart, SharedOK
<1> QED
  BY <1>1, <1>2, <1>3, <1>4, <1>5, <1>6, <1>7, <1>8 DEF InternetTaskStep

LEMMA HttpdStepType ==
    ASSUME TaskOK, SharedOK, HttpOK, HttpdStep \/ RestartCommand \/ BeginPost \/ \E net \in Networks : ReceiveBody(net)
    PROVE  TaskOK' /\ SharedOK' /\ HttpOK'
<1> USE DEF taskVars, httpVars, sharedVars
<1> DEFINE Https == [at : {"down", "idle", "receive", "post", "wait", "restart"},
                     request : [flag : 0 .. MaxPosts, net : Credentials]]
<1>1. CASE SendSettings
  <2>1. httpd.request \in [flag : Requests, net : Networks]
    BY <1>1 DEF SendSettings, HttpOK
  <2>2. wifiSettingsQueue' \in Seq([flag : Requests, net : Networks]) /\ Len(wifiSettingsQueue') <= 1
    BY <1>1, <2>1 DEF SendSettings
  <2>3. httpd' \in Https /\ httpd'.request = httpd.request
    BY <1>1 DEF SendSettings, HttpOK
  <2> QED
    BY <1>1, <2>1, <2>2, <2>3 DEF SendSettings, TaskOK, SharedOK, HttpOK
<1>2. ASSUME NEW status \in Responses, Respond(status) PROVE TaskOK' /\ SharedOK' /\ HttpOK'
  <2>1. httpd' \in Https /\ httpd'.at = "idle"
    BY <1>2, NoRequestType DEF Respond, NoHttpd
  <2>2. responses' \in [Requests -> Responses]
    BY <1>2 DEF Respond, HttpOK
  <2> QED
    BY <1>2, <2>1, <2>2 DEF Respond, TaskOK, SharedOK, HttpOK
<1>3. CASE RespondConnected \/ RespondFailed \/ RespondTimeout
  BY <1>2, <1>3 DEF RespondConnected, RespondFailed, RespondTimeout, Responses
<1>4. CASE RestartNow
  BY <1>4, ResetType DEF RestartNow, SharedOK
<1>5. CASE RestartCommand
  <2>1. httpd' \in Https /\ httpd'.at = "restart"
    BY <1>5 DEF RestartCommand, HttpOK
  <2> QED
    BY <1>5, <2>1 DEF RestartCommand, TaskOK, SharedOK, HttpOK
<1>6. ASSUME NEW net \in Networks, ReceiveBody(net) PROVE TaskOK' /\ SharedOK' /\ HttpOK'
  <2>1. posts' \in 0 .. MaxPosts /\ posts' \in Requests
    BY <1>6, BoundsAssumption DEF ReceiveBody, HttpOK, Requests
  <2>2. httpd' \in Https /\ httpd'.request \in [flag : Requests, net : Networks] /\ httpd'.at = "post"
    BY <1>6, <2>1 DEF ReceiveBody, Credentials
  <2> QED
    BY <1>6, <2>1, <2>2 DEF ReceiveBody, TaskOK, SharedOK, HttpOK
<1>7. CASE BeginPost
  <2>1. httpd' \in Https /\ httpd'.at = "receive" /\ posts < MaxPosts
    BY <1>7 DEF BeginPost, HttpOK
  <2> QED
    BY <1>7, <2>1 DEF BeginPost, TaskOK, SharedOK, HttpOK
<1> QED
  BY <1>1, <1>3, <1>4, <1>5, <1>6, <1>7 DEF HttpdStep

LEMMA OtherStepType ==
    ASSUME TaskOK, SharedOK, HttpOK,
           \/ CallStepped \/ HandlerStep \/ DriverStep \/ ShowPage \/ BrokerMessage \/ LosePower
           \/ ConfigureAborts \/ UNCHANGED vars
    PROVE  TaskOK' /\ SharedOK' /\ HttpOK'
<1> USE DEF taskVars, httpVars, sharedVars
<1>1. CASE CallStepped \/ HandlerStep \/ DriverStep \/ ShowPage \/ BrokerMessage \/ UNCHANGED vars
  <2>1. /\ UNCHANGED <<task, networkState, saved, settings, httpd, responses, posts, wifiSettingsQueue,
                      connectionFlag, powerLosses, results>>
        /\ newMessage' = newMessage \/ newMessage' = TRUE
    BY <1>1 DEF CallStepped, HandlerStep, DriverStep, ShowPage, BrokerMessage, vars
  <2>2. TaskOK'
    BY <2>1 DEF TaskOK
  <2>3. SharedOK'
    BY <2>1 DEF SharedOK
  <2>4. HttpOK'
    BY <2>1 DEF HttpOK
  <2> QED
    BY <2>2, <2>3, <2>4
<1>2. CASE LosePower
  <2>1. powerLosses' \in 0 .. MaxPowerLosses
    BY <1>2, BoundsAssumption DEF LosePower, SharedOK
  <2> QED
    BY <1>2, <2>1, ResetType DEF LosePower
<1>3. CASE ConfigureAborts
  BY <1>3, ResetType DEF ConfigureAborts, SharedOK
<1> QED
  BY <1>1, <1>2, <1>3

LEMMA InternetInitType == Init => InternetTypeOK /\ RetryLeft
<1> SUFFICES ASSUME Init PROVE InternetTypeOK /\ RetryLeft
  OBVIOUS
<1>1. config \in Credentials /\ NoNetwork \in Credentials /\ link \in Links
  BY DownType DEF Init, StationInit, Credentials
<1>2. StationTypeOK /\ RetryLeft
  <2>1. /\ events = <<>> /\ registered = FALSE /\ bits = {} /\ s_retry_num = 0 /\ eventTask = "idle"
        /\ wifiState = "NOT_INITIALIZED" /\ undisturbed = FALSE
        /\ call = [at |-> "none", net |-> NoNetwork, result |-> "NOT_INITIALIZED"]
    BY DEF Init, StationInit
  <2>2. call \in [at : {"none", "leave", "configure", "request", "await"}, net : Credentials,
                 result : {"CONNECTED", "DISCONNECTED", "NOT_INITIALIZED"}]
    BY <1>1, <2>1
  <2>3. events \in Seq({"start", "disconnected", "wrongPassword", "gotIp"}) /\ Len(events) <= EventQueueLen + 1
    BY <2>1, StationAssumption
  <2>4. s_retry_num \in 0 .. MaxRetry /\ bits \subseteq {"finished", "connected", "wrongPassword"}
    BY <2>1, StationAssumption
  <2> QED
    BY <1>1, <2>1, <2>2, <2>3, <2>4 DEF StationTypeOK, RetryLeft, Links
<1>3. TaskOK
  <2>1. saved \in [ssid : Credentials, password : Credentials]
    BY <1>1 DEF Init
  <2> QED
    BY <2>1, NoRequestType DEF Init, TaskOK
<1>4. SharedOK
  BY BoundsAssumption DEF Init, SharedOK, Results
<1>5. HttpOK
  <2>1. httpd = [at |-> "down", request |-> NoRequest] /\ posts = 0 /\ responses = [f \in Requests |-> "none"]
    BY DEF Init, NoHttpd
  <2> QED
    BY <2>1, NoRequestType, BoundsAssumption DEF HttpOK, Responses
<1> QED
  BY <1>2, <1>3, <1>4, <1>5, TypeParts

LEMMA InternetStepType == InternetTypeOK /\ RetryLeft /\ [Next]_vars => InternetTypeOK' /\ RetryLeft'
<1> SUFFICES ASSUME InternetTypeOK, RetryLeft, [Next]_vars PROVE InternetTypeOK' /\ RetryLeft'
  OBVIOUS
<1>1. StationTypeOK /\ TaskOK /\ SharedOK /\ HttpOK
  BY TypeParts
<1>2. StationTypeOK' /\ RetryLeft'
  BY <1>1, StationStepType DEF TaskOK, SharedOK
<1>3. TaskOK' /\ SharedOK' /\ HttpOK'
  BY <1>1, TaskStepType, HttpdStepType, OtherStepType DEF Next
<1>4. InternetTypeOK' <=> StationTypeOK' /\ TaskOK' /\ SharedOK' /\ HttpOK'
  BY TypeParts, PTL
<1> QED
  BY <1>2, <1>3, <1>4

\* Every variable keeps its type, retries and pending events stay within their
\* bounds, and a request that is worked on is one that was posted.
THEOREM InternetTypeCorrect == Spec => []InternetTypeOK
<1> QED
  BY InternetInitType, InternetStepType, PTL DEF Spec

-----------------------------------------------------------------------------
(* A call that found the station at rest                                   *)

\* While such a call awaits its result, it is still trying, or gave up for good.
Settling ==
    \/ /\ eventTask = "idle" /\ "finished" \notin bits
       /\ \/ events = <<>>
          \/ events # <<>> /\ Head(events) = "gotIp"
          \/ link = Down /\ \E e \in {"disconnected", "wrongPassword"} : events = <<e>>
    \/ eventTask = "retry" /\ link = Down /\ events = <<>> /\ "finished" \notin bits
    \/ AtRest /\ s_retry_num = MaxRetry

\* The station stays at rest until the driver has the new configuration, and joins
\* no network but that one afterwards.
CleanCall ==
    /\ call.at \in {"leave", "configure", "request"} => AtRest /\ bits = {}
    /\ call.at \in {"request", "await", "none"} => config = call.net
    /\ call.at \in {"await", "none"} => link.state = "down" \/ link.net = config
    /\ call.at = "await" /\ "connected" \notin bits => Settling

CallInv == CallsFromTask /\ (undisturbed => CleanCall)

LEMMA CallsFromTaskStep ==
    ASSUME InternetTypeOK, CallsFromTask, [Next]_vars
    PROVE  CallsFromTask'
<1> USE DEF CallsFromTask, taskVars, stationVars
<1>1. CASE InternetTaskStep
  <2>1. CASE BootStation \/ CreateAP \/ WatchNetwork
    BY <2>1 DEF BootStation, CreateAP, WatchNetwork, Mode, GetWifiState
  <2>2. CASE Join \/ ReceiveSettings
    BY <2>2 DEF Join, ReceiveSettings
  <2>3. CASE \/ BootAccessPoint \/ Joined \/ StartServer \/ SignalResult \/ SaveSsid \/ SavePassword
             \/ StartBroker \/ Announced
    BY <2>3 DEF BootAccessPoint, Joined, StartServer, SignalResult, SaveSsid, SavePassword, StartBroker,
       Announced
  <2>4. CASE Restart
    BY <2>4 DEF Restart, Reset, StationReset
  <2> QED
    BY <1>1, <2>1, <2>2, <2>3, <2>4 DEF InternetTaskStep
<1>2. CASE CallStepped
  BY <1>2 DEF CallStepped, CallStepping, CallStep, Return, Leave, Configure, Request, Refused, Awaited
<1>3. CASE HandlerStep \/ DriverStep \/ ShowPage
  <2>1. UNCHANGED <<call, task>>
    BY <1>3 DEF HandlerStep, EventTaskStep, HandleStart, HandleDisconnected, HandleGotIp, Retry, Handle,
       DriverStep, Driver, Associate, GetAddress, Lose, ShowPage, GetWifiState
  <2> QED
    BY <2>1
<1>4. CASE \/ HttpdStep \/ RestartCommand \/ BrokerMessage \/ LosePower \/ ConfigureAborts \/ BeginPost
           \/ \E net \in Networks : ReceiveBody(net)
  <2>1. CASE RestartNow \/ LosePower \/ ConfigureAborts
    BY <2>1 DEF RestartNow, LosePower, ConfigureAborts, Reset, StationReset
  <2>2. CASE \/ SendSettings \/ RespondConnected \/ RespondFailed \/ RespondTimeout \/ RestartCommand
             \/ BrokerMessage \/ BeginPost \/ \E net \in Networks : ReceiveBody(net)
    BY <2>2 DEF SendSettings, RespondConnected, RespondFailed, RespondTimeout, Respond, GetWifiState,
       RestartCommand, BrokerMessage, BeginPost, ReceiveBody
  <2> QED
    BY <1>4, <2>1, <2>2 DEF HttpdStep
<1>5. CASE UNCHANGED vars
  BY <1>5 DEF vars
<1> QED
  BY <1>1, <1>2, <1>3, <1>4, <1>5 DEF Next

LEMMA CleanDriver ==
    ASSUME StationTypeOK, CleanCall, Driver
    PROVE  CleanCall'
<1>1. call' = call /\ config' = config /\ UNCHANGED <<bits, s_retry_num, eventTask>>
  BY DEF Driver, Associate, GetAddress, Lose, handlerVars
<1>2. link.state # "down"
  BY DEF Driver, Associate, GetAddress, Lose
<1>3. call.at \notin {"leave", "configure", "request"}
  BY <1>2 DEF CleanCall, AtRest, Down
<1>4. link'.state = "down" \/ link'.net = link.net
  BY DEF Driver, Associate, GetAddress, Lose, Down, StationTypeOK
<1>5. ASSUME Settling PROVE Settling'
  <2>1. /\ eventTask = "idle" /\ "finished" \notin bits
        /\ events = <<>> \/ (events # <<>> /\ Head(events) = "gotIp")
    BY <1>2, <1>5 DEF Settling, AtRest, Down
  <2>2. \/ UNCHANGED events
        \/ events' = Append(events, "gotIp")
        \/ link' = Down /\ \E e \in {"disconnected", "wrongPassword"} : events' = Append(events, e)
    BY DEF Driver, Associate, GetAddress, Lose, Post
  <2>3. CASE events = <<>>
    BY <1>1, <2>1, <2>2, <2>3 DEF Settling
  <2>4. CASE events # <<>> /\ Head(events) = "gotIp"
    <3>1. events' # <<>> /\ Head(events') = "gotIp"
      BY <2>2, <2>4 DEF StationTypeOK
    <3> QED
      BY <1>1, <2>1, <3>1 DEF Settling
  <2> QED
    BY <2>1, <2>3, <2>4
<1> QED
  BY <1>1, <1>2, <1>3, <1>4, <1>5 DEF CleanCall

LEMMA CleanHandler ==
    ASSUME StationTypeOK, RetryLeft, CleanCall, EventTaskStep
    PROVE  CleanCall'
<1>1. call' = call /\ config' = config
  BY DEF EventTaskStep, HandleStart, HandleDisconnected, HandleGotIp, Retry, Handle
<1>2. events # <<>> \/ eventTask = "retry"
  BY DEF EventTaskStep, HandleStart, HandleDisconnected, HandleGotIp, Retry, Handle
<1>3. call.at \notin {"leave", "configure", "request"}
  BY <1>2 DEF CleanCall, AtRest
<1>4. link' = link \/ link' = Joining(config)
  BY DEF EventTaskStep, HandleStart, HandleDisconnected, HandleGotIp, Retry, EspConnect
<1>5. ASSUME Settling PROVE "connected" \in bits' \/ Settling'
  <2>1. CASE HandleGotIp
    BY <2>1 DEF HandleGotIp
  <2>2. CASE HandleStart
    BY <1>5, <2>2 DEF HandleStart, Handle, Settling, AtRest
  <2>3. CASE Retry
    BY <1>5, <2>3 DEF Retry, Settling, AtRest
  <2>4. CASE HandleDisconnected
    <3>1. /\ eventTask = "idle" /\ "finished" \notin bits /\ link = Down /\ link' = Down
          /\ Len(events) = 1
          /\ s_retry_num' = s_retry_num
      BY <1>5, <2>4 DEF HandleDisconnected, Handle, Settling, AtRest
    <3>2. events' = <<>>
      BY <2>4, <3>1 DEF HandleDisconnected, Handle, StationTypeOK
    <3>3. CASE s_retry_num < MaxRetry
      BY <2>4, <3>1, <3>2, <3>3 DEF HandleDisconnected, WrongPassword, Settling
    <3>4. CASE ~(s_retry_num < MaxRetry)
      <4>1. s_retry_num' = MaxRetry /\ eventTask' = "idle"
        BY <2>4, <3>1, <3>4, StationAssumption DEF HandleDisconnected, StationTypeOK
      <4> QED
        BY <3>1, <3>2, <4>1 DEF Settling, AtRest
    <3> QED
      BY <3>3, <3>4
  <2> QED
    BY <2>1, <2>2, <2>3, <2>4 DEF EventTaskStep
<1>6. bits \subseteq bits' \/ "connected" \in bits'
  BY DEF EventTaskStep, HandleStart, HandleDisconnected, HandleGotIp, Retry
<1> QED
  BY <1>1, <1>3, <1>4, <1>5, <1>6 DEF CleanCall, Joining

LEMMA CleanCallStepping ==
    ASSUME StationTypeOK, CleanCall, CallStepping
    PROVE  CleanCall'
<1> USE DEF handlerVars, driverVars, StationTypeOK
<1>1. CASE Leave
  BY <1>1 DEF Leave, CallStep, CleanCall, AtRest, Down
<1>2. CASE Configure
  BY <1>2 DEF Configure, CallStep, CleanCall, AtRest
<1>3. CASE Request
  <2>1. /\ call.at = "request" /\ call'.at = "await" /\ call'.net = call.net
        /\ UNCHANGED <<config, events, bits, eventTask>>
    BY <1>3 DEF Request, CallStep
  <2>2. link = Down /\ events = <<>> /\ eventTask = "idle" /\ bits = {} /\ config = call.net
    BY <2>1 DEF CleanCall, AtRest
  <2>3. link' = Down \/ link' = Joining(config)
    BY <1>3, <2>2 DEF Request, EspConnect
  <2>4. Settling'
    BY <2>1, <2>2 DEF Settling
  <2> QED
    BY <2>1, <2>2, <2>3, <2>4 DEF CleanCall, Down, Joining
<1>4. CASE Refused
  <2>1. /\ call.at = "request" /\ call'.at = "none" /\ call'.net = call.net
        /\ UNCHANGED <<config, link>>
    BY <1>4 DEF Refused, Return
  <2>2. link = Down /\ config = call.net
    BY <2>1 DEF CleanCall, AtRest
  <2> QED
    BY <2>1, <2>2 DEF CleanCall, Down
<1>5. CASE Awaited
  BY <1>5 DEF Awaited, Return, CleanCall
<1> QED
  BY <1>1, <1>2, <1>3, <1>4, <1>5 DEF CallStepping

LEMMA CallInvStep == InternetTypeOK /\ RetryLeft /\ CallInv /\ [Next]_vars => CallInv'
<1> SUFFICES ASSUME InternetTypeOK, RetryLeft, CallInv, [Next]_vars PROVE CallInv'
  OBVIOUS
<1>1. StationTypeOK
  BY DEF InternetTypeOK
<1>2. CallsFromTask'
  BY CallsFromTaskStep DEF CallInv
<1>3. ASSUME undisturbed' PROVE CleanCall'
  <2>1. CASE Driver
    <3>1. undisturbed
      BY <1>3, <2>1 DEF Driver, Associate, GetAddress, Lose
    <3> QED
      BY <1>1, <2>1, <3>1, CleanDriver DEF CallInv
  <2>2. CASE EventTaskStep
    <3>1. undisturbed
      BY <1>3, <2>2 DEF EventTaskStep, HandleStart, HandleDisconnected, HandleGotIp, Retry, Handle
    <3> QED
      BY <1>1, <2>2, <3>1, CleanHandler DEF CallInv
  <2>3. CASE CallStepping
    <3>1. undisturbed
      BY <1>3, <2>3 DEF CallStepping, Leave, Configure, Request, Refused, Awaited, Return, CallStep
    <3> QED
      BY <1>1, <2>3, <3>1, CleanCallStepping DEF CallInv
  <2>4. CASE Mode /\ task \in {"boot", "ap"}
    <3>1. call.at = "none"
      BY <1>1, <2>4 DEF CallInv, CallsFromTask, StationTypeOK
    <3>2. undisturbed /\ UNCHANGED <<call, config, link>>
      BY <1>3, <2>4 DEF Mode
    <3> QED
      BY <3>1, <3>2 DEF CallInv, CleanCall
  <2>5. ASSUME NEW net, CallConnect(net) PROVE CleanCall'
    <3>1. call'.at = "leave" /\ bits' = {} /\ AtRest /\ UNCHANGED <<link, events, eventTask>>
      BY <1>1, <1>3, <2>5 DEF CallConnect, driverVars, StationTypeOK
    <3> QED
      BY <3>1 DEF CleanCall, AtRest
  <2>6. CASE GetWifiState
    BY <1>3, <2>6 DEF GetWifiState, driverVars, handlerVars, CallInv, CleanCall, Settling, AtRest
  <2>7. CASE StationReset
    BY <1>3, <2>7 DEF StationReset
  <2>8. CASE UNCHANGED stationVars
    BY <1>3, <2>8 DEF stationVars, driverVars, handlerVars, CallInv, CleanCall, Settling, AtRest
  <2> QED
    BY <2>1, <2>2, <2>3, <2>4, <2>5, <2>6, <2>7, <2>8, StationSteps
<1> QED
  BY <1>2, <1>3 DEF CallInv

LEMMA CallInvHolds == Spec => [](CallInv /\ InternetTypeOK)
<1>1. Init => CallInv
  BY DEF Init, StationInit, CallInv, CallsFromTask
<1> QED
  BY <1>1, InternetInitType, InternetStepType, CallInvStep, PTL DEF Spec

\* A call that found the station at rest and reports success connected to the
\* network it was given, and no retry or event brings another one afterwards.
THEOREM CleanCallsConnect == Spec => []CleanCallConnects
<1>1. CallInv => CleanCallConnects
  BY DEF CallInv, CleanCall, CleanCallConnects, ConnectsToRequested, Associated
<1> QED
  BY <1>1, CallInvHolds, PTL

\* When such a call is told it failed, the retries are used up, no event is
\* pending and no attempt is under way: the station will not come up by itself.
THEOREM CleanCallsSettle == Spec => []CleanCallSettles
<1>1. CallInv => CleanCallSettles
  BY DEF CallInv, CleanCall, CleanCallSettles, Settling
<1> QED
  BY <1>1, CallInvHolds, PTL

-----------------------------------------------------------------------------
(* The answer to each request                                              *)

\* Request f will be, or is being, tried by the internet task.
Pending(f) ==
    \/ task = "try" /\ settings.flag = f
    \/ Provisioning /\ wifiSettingsQueue # <<>> /\ Head(wifiSettingsQueue).flag = f
    \/ httpd.at = "post" /\ httpd.request.flag = f

Early == task \in {"boot", "join", "joining", "server"}

\* Before the HTTP server runs there is no request.
NoneYet == Early => httpd.at = "down" /\ wifiSettingsQueue = <<>>

\* A request is in one place at a time.
OnePlace ==
    /\ task = "try" => wifiSettingsQueue = <<>> /\ httpd.at = "wait" /\ settings.flag \in Requests
    /\ Provisioning /\ wifiSettingsQueue # <<>> => httpd.at = "wait"

\* The handler stays with its request for as long as a result may come, and no
\* other request is pending.
HandlerStays ==
    \A f \in Requests : Pending(f) =>
        httpd.at \in {"post", "wait"} /\ httpd.request.flag = f /\ connectionFlag[f] = {} /\ results[f] = "none"

\* The request in the handler's hands is unanswered, and its flags say its result.
InHand ==
    httpd.at \in {"post", "wait"} =>
        /\ responses[httpd.request.flag] = "none"
        /\ httpd.request.flag <= posts
        /\ results[httpd.request.flag] = "CONNECTED" <=> "connected" \in connectionFlag[httpd.request.flag]
        /\ "connected" \in connectionFlag[httpd.request.flag] => "finished" \in connectionFlag[httpd.request.flag]

\* A request not posted yet has neither flags, nor a result, nor an answer.
Fresh ==
    \A f \in Requests : f > posts => responses[f] = "none" /\ results[f] = "none" /\ connectionFlag[f] = {}

AnswerInv == NoneYet /\ OnePlace /\ HandlerStays /\ InHand /\ Fresh /\ AnsweredForItsOwn

answerVars == <<settings, wifiSettingsQueue, connectionFlag, httpd, responses, posts, results>>

\* Steps that move only the internet task, and neither into nor out of a try.
LEMMA AnswerFrame ==
    ASSUME AnswerInv, UNCHANGED answerVars,
           task' = "try" => task = "try", Provisioning' => Provisioning, Early' => Early
    PROVE  AnswerInv'
<1> USE DEF answerVars
<1>1. NoneYet' /\ OnePlace'
  BY DEF AnswerInv, NoneYet, OnePlace
<1>2. HandlerStays'
  BY DEF AnswerInv, HandlerStays, Pending
<1>3. InHand' /\ Fresh' /\ AnsweredForItsOwn'
  BY DEF AnswerInv, InHand, Fresh, AnsweredForItsOwn
<1> QED
  BY <1>1, <1>2, <1>3 DEF AnswerInv

LEMMA AnswerReset ==
    ASSUME AnswerInv, Reset
    PROVE  AnswerInv'
<1>1. /\ task' = "boot" /\ httpd'.at = "down" /\ wifiSettingsQueue' = <<>>
      /\ connectionFlag' = [f \in Requests |-> {}] /\ UNCHANGED <<responses, posts, results>>
  BY DEF Reset, NoHttpd
<1> QED
  BY <1>1 DEF AnswerInv, NoneYet, OnePlace, HandlerStays, Pending, Provisioning, InHand, Fresh,
     AnsweredForItsOwn

LEMMA AnswerStart ==
    ASSUME AnswerInv, StartServer
    PROVE  AnswerInv'
<1>1. /\ task' \in {"ap", "broker"} /\ httpd'.at = "idle" /\ wifiSettingsQueue = <<>>
      /\ UNCHANGED <<settings, wifiSettingsQueue, connectionFlag, responses, posts, results>>
  BY DEF StartServer, NoHttpd, sharedVars, AnswerInv, NoneYet, Early
<1> QED
  BY <1>1 DEF AnswerInv, NoneYet, Early, OnePlace, HandlerStays, Pending, InHand, Fresh, AnsweredForItsOwn

LEMMA AnswerReceive ==
    ASSUME InternetTypeOK, AnswerInv, ReceiveSettings
    PROVE  AnswerInv'
<1>1. /\ task = "provision" /\ task' = "try" /\ wifiSettingsQueue # <<>>
      /\ settings' = Head(wifiSettingsQueue) /\ wifiSettingsQueue' = Tail(wifiSettingsQueue)
      /\ UNCHANGED <<connectionFlag, httpd, responses, posts, results>>
  BY DEF ReceiveSettings, httpVars
<1>2. wifiSettingsQueue' = <<>>
  BY <1>1 DEF InternetTypeOK
<1>3. settings'.flag \in Requests
  <2>1. Head(wifiSettingsQueue) \in [flag : Requests, net : Networks]
    BY <1>1, HeadType DEF InternetTypeOK
  <2> QED
    BY <1>1, <2>1
<1>4. httpd.at = "wait" /\ Pending(settings'.flag)
  BY <1>1 DEF AnswerInv, OnePlace, Provisioning, Pending
<1>5. NoneYet' /\ OnePlace'
  BY <1>1, <1>2, <1>3, <1>4 DEF NoneYet, Early, OnePlace
<1>6. HandlerStays'
  BY <1>1, <1>2, <1>3, <1>4 DEF AnswerInv, HandlerStays, Pending
<1>7. InHand' /\ Fresh' /\ AnsweredForItsOwn'
  BY <1>1 DEF AnswerInv, InHand, Fresh, AnsweredForItsOwn
<1> QED
  BY <1>5, <1>6, <1>7 DEF AnswerInv

LEMMA AnswerSignal ==
    ASSUME InternetTypeOK, AnswerInv, SignalResult
    PROVE  AnswerInv'
<1> DEFINE f == settings.flag
<1>1. /\ task = "try" /\ task' \in {"saveSsid", "provision"}
      /\ connectionFlag' = [connectionFlag EXCEPT ![f] = @ \cup Signal]
      /\ results' = [results EXCEPT ![f] = call.result]
      /\ UNCHANGED <<settings, wifiSettingsQueue, httpd, responses, posts>>
  BY DEF SignalResult, httpVars
<1>2. /\ wifiSettingsQueue = <<>> /\ httpd.at = "wait" /\ f \in Requests
      /\ httpd.request.flag = f /\ connectionFlag[f] = {} /\ responses[f] = "none" /\ f <= posts
  BY <1>1 DEF AnswerInv, OnePlace, HandlerStays, Pending, InHand
<1>3. /\ connectionFlag' = [connectionFlag EXCEPT ![f] = Signal]
      /\ connectionFlag'[f] = Signal /\ results'[f] = call.result
      /\ \A g \in Requests : g # f => connectionFlag'[g] = connectionFlag[g] /\ results'[g] = results[g]
  BY <1>1, <1>2 DEF InternetTypeOK
<1>4. /\ call.result = "CONNECTED" <=> "connected" \in Signal
      /\ "connected" \in Signal => "finished" \in Signal
  <2>1. call.result \in {"CONNECTED", "DISCONNECTED", "NOT_INITIALIZED"}
    BY DEF InternetTypeOK, StationTypeOK
  <2> QED
    BY <2>1 DEF Signal
<1>5. NoneYet' /\ OnePlace'
  BY <1>1, <1>2 DEF NoneYet, Early, OnePlace
<1>6. HandlerStays'
  BY <1>1, <1>2 DEF HandlerStays, Pending
<1>7. InHand'
  BY <1>1, <1>2, <1>3, <1>4 DEF InHand
<1>8. Fresh'
  <2>1. SUFFICES ASSUME NEW g \in Requests, g > posts
                 PROVE  responses[g] = "none" /\ results'[g] = "none" /\ connectionFlag'[g] = {}
    BY <1>1 DEF Fresh
  <2>2. g # f
    BY <1>2, <2>1 DEF Requests, InternetTypeOK
  <2> QED
    BY <1>3, <2>1, <2>2 DEF AnswerInv, Fresh
<1>9. AnsweredForItsOwn'
  BY <1>1, <1>2, <1>3 DEF AnswerInv, AnsweredForItsOwn
<1> QED
  BY <1>5, <1>6, <1>7, <1>8, <1>9 DEF AnswerInv

LEMMA AnswerPost ==
    ASSUME InternetTypeOK, AnswerInv, NEW net \in Networks, ReceiveBody(net)
    PROVE  AnswerInv'
<1> DEFINE f == posts + 1
<1>1. /\ httpd.at = "receive" /\ httpd'.at = "post" /\ httpd'.request.flag = f /\ posts' = f
      /\ f \in Requests /\ f > posts /\ posts \in Nat
      /\ UNCHANGED <<task, settings, wifiSettingsQueue, connectionFlag, responses, results>>
  BY BoundsAssumption DEF ReceiveBody, taskVars, sharedVars, Requests, InternetTypeOK
<1>2. connectionFlag[f] = {} /\ results[f] = "none" /\ responses[f] = "none"
  BY <1>1 DEF AnswerInv, Fresh
<1>3. NoneYet' /\ OnePlace'
  BY <1>1 DEF AnswerInv, NoneYet, OnePlace, Early, Provisioning
<1>4. HandlerStays'
  BY <1>1, <1>2, <1>3 DEF AnswerInv, HandlerStays, Pending, OnePlace, Provisioning
<1>5. InHand'
  BY <1>1, <1>2 DEF InHand
<1>6. Fresh'
  <2>1. SUFFICES ASSUME NEW g \in Requests, g > f
                 PROVE  responses[g] = "none" /\ results[g] = "none" /\ connectionFlag[g] = {}
    BY <1>1 DEF Fresh
  <2>2. g > posts
    BY <1>1, <2>1 DEF Requests
  <2> QED
    BY <2>1, <2>2 DEF AnswerInv, Fresh
<1>7. AnsweredForItsOwn'
  BY <1>1 DEF AnswerInv, AnsweredForItsOwn
<1> QED
  BY <1>3, <1>4, <1>5, <1>6, <1>7 DEF AnswerInv

LEMMA AnswerSend ==
    ASSUME InternetTypeOK, AnswerInv, SendSettings
    PROVE  AnswerInv'
<1>1. /\ httpd.at = "post" /\ httpd'.at = "wait" /\ httpd'.request = httpd.request
      /\ wifiSettingsQueue = <<>> /\ wifiSettingsQueue' = <<httpd.request>>
      /\ UNCHANGED <<task, settings, connectionFlag, responses, posts, results>>
  BY DEF SendSettings, taskVars, InternetTypeOK
<1>2. Head(wifiSettingsQueue') = httpd.request /\ wifiSettingsQueue' # <<>>
  BY <1>1
<1>3. task # "try" /\ ~Early
  BY <1>1 DEF AnswerInv, OnePlace, NoneYet
<1>4. Pending(httpd.request.flag)
  BY <1>1 DEF Pending
<1>5. NoneYet' /\ OnePlace'
  BY <1>1, <1>3 DEF NoneYet, OnePlace, Early
<1>6. HandlerStays'
  BY <1>1, <1>2, <1>3, <1>4 DEF AnswerInv, HandlerStays, Pending
<1>7. InHand' /\ Fresh' /\ AnsweredForItsOwn'
  BY <1>1 DEF AnswerInv, InHand, Fresh, AnsweredForItsOwn
<1> QED
  BY <1>5, <1>6, <1>7 DEF AnswerInv

\* An answer is given when no result can come any more, and says the result.
LEMMA AnswerRespond ==
    ASSUME InternetTypeOK, AnswerInv, NEW status, Respond(status),
           ~Pending(httpd.request.flag), status = "200" <=> "connected" \in flags
    PROVE  AnswerInv'
<1> DEFINE f == httpd.request.flag
<1>1. /\ httpd.at = "wait" /\ httpd'.at = "idle" /\ f \in Requests
      /\ responses' = [responses EXCEPT ![f] = status]
      /\ UNCHANGED <<task, settings, wifiSettingsQueue, connectionFlag, posts, results>>
  BY DEF Respond, NoHttpd, taskVars, sharedVars, InternetTypeOK
<1>2. \A g \in Requests : ~Pending(g)
  BY <1>1 DEF AnswerInv, HandlerStays
<1>3. /\ task # "try"
      /\ ~(Provisioning /\ wifiSettingsQueue # <<>>)
  <2>1. task # "try"
    BY <1>2 DEF AnswerInv, OnePlace, Pending
  <2>2. wifiSettingsQueue # <<>> => Head(wifiSettingsQueue) \in [flag : Requests, net : Networks]
    BY HeadType DEF InternetTypeOK
  <2> QED
    BY <1>2, <2>1, <2>2 DEF Pending
<1>4. NoneYet' /\ OnePlace'
  BY <1>1, <1>3 DEF AnswerInv, NoneYet, OnePlace, Early, Provisioning
<1>5. HandlerStays' /\ InHand'
  BY <1>1, <1>3 DEF HandlerStays, Pending, InHand, Provisioning
<1>6. /\ responses'[f] = status /\ \A g \in Requests : g # f => responses'[g] = responses[g]
      /\ f <= posts /\ f \in Nat /\ posts \in Nat
  BY <1>1 DEF InternetTypeOK, AnswerInv, InHand, Requests
<1>7. Fresh'
  <2>1. SUFFICES ASSUME NEW g \in Requests, g > posts
                 PROVE  responses'[g] = "none" /\ results[g] = "none" /\ connectionFlag[g] = {}
    BY <1>1 DEF Fresh
  <2>2. g # f
    BY <1>6, <2>1 DEF Requests
  <2> QED
    BY <1>6, <2>1, <2>2 DEF AnswerInv, Fresh
<1>8. AnsweredForItsOwn'
  <2>1. status = "200" <=> results[f] = "CONNECTED"
    BY <1>1 DEF AnswerInv, InHand, flags
  <2> QED
    BY <1>1, <1>6, <2>1 DEF AnswerInv, AnsweredForItsOwn
<1> QED
  BY <1>4, <1>5, <1>7, <1>8 DEF AnswerInv

LEMMA AnswerHttpd ==
    ASSUME InternetTypeOK, AnswerInv, HttpdStep
    PROVE  AnswerInv'
<1>1. CASE SendSettings
  BY <1>1, AnswerSend
<1>2. CASE RestartNow
  BY <1>2, AnswerReset DEF RestartNow
<1> DEFINE f == httpd.request.flag
<1>3. httpd.at = "wait" => f \in Requests
  BY DEF InternetTypeOK
<1>4. httpd.at = "wait" /\ flags # {} => ~Pending(f)
  BY <1>3 DEF AnswerInv, HandlerStays, flags
<1>5. CASE RespondConnected
  <2>1. httpd.at = "wait" /\ "connected" \in flags /\ Respond("200")
    BY <1>5 DEF RespondConnected
  <2> QED
    BY <1>4, <2>1, AnswerRespond
<1>6. CASE RespondFailed
  <2> DEFINE status == IF "wrongPassword" \in flags THEN "401" ELSE "500"
  <2>1. httpd.at = "wait" /\ "finished" \in flags /\ "connected" \notin flags /\ Respond(status)
    BY <1>6 DEF RespondFailed
  <2>2. status # "200"
    OBVIOUS
  <2> QED
    BY <1>4, <2>1, <2>2, AnswerRespond
<1>7. CASE RespondTimeout
  <2>1. httpd.at = "wait" /\ "finished" \notin flags /\ ~StillWorkedOn /\ Respond("500")
    BY <1>7 DEF RespondTimeout
  <2>2. ~Pending(f)
    BY <2>1 DEF StillWorkedOn, Pending, Provisioning, AnswerInv, OnePlace
  <2>3. "connected" \notin flags
    BY <2>1 DEF AnswerInv, InHand, flags
  <2> QED
    BY <2>1, <2>2, <2>3, AnswerRespond
<1> QED
  BY <1>1, <1>2, <1>5, <1>6, <1>7 DEF HttpdStep

LEMMA AnswerInvStep == InternetTypeOK /\ AnswerInv /\ [Next]_vars => AnswerInv'
<1> SUFFICES ASSUME InternetTypeOK, AnswerInv, [Next]_vars PROVE AnswerInv'
  OBVIOUS
<1> USE DEF taskVars, httpVars, sharedVars, answerVars
<1>1. CASE InternetTaskStep
  <2>1. CASE BootStation \/ BootAccessPoint \/ Join \/ Joined
    BY <2>1, AnswerFrame DEF BootStation, BootAccessPoint, Join, Joined, Early, Provisioning
  <2>2. CASE StartServer
    BY <2>2, AnswerStart
  <2>3. CASE CreateAP \/ SaveSsid \/ SavePassword
    BY <2>3, AnswerFrame DEF CreateAP, SaveSsid, SavePassword, Early, Provisioning
  <2>4. CASE ReceiveSettings
    BY <2>4, AnswerReceive
  <2>5. CASE SignalResult
    BY <2>5, AnswerSignal
  <2>6. CASE StartBroker \/ Announced \/ WatchNetwork
    BY <2>6, AnswerFrame DEF StartBroker, Announced, WatchNetwork, Early, Provisioning
  <2>7. CASE Restart
    BY <2>7, AnswerReset DEF Restart
  <2> QED
    BY <1>1, <2>1, <2>2, <2>3, <2>4, <2>5, <2>6, <2>7 DEF InternetTaskStep
<1>2. CASE HttpdStep
  BY <1>2, AnswerHttpd
<1>3. CASE \E net \in Networks : ReceiveBody(net)
  BY <1>3, AnswerPost
<1>4. CASE CallStepped \/ HandlerStep \/ DriverStep \/ ShowPage \/ BrokerMessage \/ UNCHANGED vars
  <2>1. UNCHANGED <<task, answerVars>>
    BY <1>4 DEF CallStepped, HandlerStep, DriverStep, ShowPage, BrokerMessage, vars
  <2> QED
    BY <2>1, AnswerFrame DEF Early, Provisioning
<1>5. CASE RestartCommand \/ BeginPost
  <2>1. /\ httpd.at = "idle" /\ httpd'.at \in {"restart", "receive"}
        /\ UNCHANGED <<task, settings, wifiSettingsQueue, connectionFlag, responses, posts, results>>
    BY <1>5 DEF RestartCommand, BeginPost, InternetTypeOK
  <2> QED
    BY <2>1 DEF AnswerInv, NoneYet, Early, OnePlace, HandlerStays, Pending, Provisioning, InHand, Fresh,
       AnsweredForItsOwn
<1>6. CASE LosePower \/ ConfigureAborts
  BY <1>6, AnswerReset DEF LosePower, ConfigureAborts
<1> QED
  BY <1>1, <1>2, <1>3, <1>4, <1>5, <1>6 DEF Next

\* Whatever users post, however late the timeouts and whenever the power fails, a
\* browser is told of success exactly when the call for its own settings succeeded.
THEOREM EachIsAnsweredForItsOwn == Spec => []AnsweredForItsOwn
<1>1. Init => AnswerInv
  BY DEF Init, NoHttpd, AnswerInv, NoneYet, Early, OnePlace, HandlerStays, Pending, Provisioning, InHand,
     Fresh, AnsweredForItsOwn
<1>2. AnswerInv => AnsweredForItsOwn
  BY DEF AnswerInv
<1> QED
  BY <1>1, <1>2, AnswerInvStep, InternetInitType, InternetStepType, PTL DEF Spec
-----------------------------------------------------------------------------
(* What becomes of each request                                            *)

\* What AnswerInv does not say already.
Kept == NothingLost /\ TriesItsOwn

\* A step that is none of those of a request's way leaves its places alone, and the
\* network called for.
LEMMA RequestFrame ==
    ASSUME Kept, UNCHANGED <<httpd, wifiSettingsQueue, settings, results>>,
           task' = "try" <=> task = "try", call'.net = call.net
    PROVE  Kept'
BY DEF Kept, NothingLost, TriesItsOwn

LEMMA RequestStep ==
    ASSUME InternetTypeOK, CallsFromTask, AnswerInv, Kept, [Next]_vars
    PROVE  Kept'
<1> USE DEF taskVars, httpVars, sharedVars
<1>1. CASE InternetTaskStep
  <2>1. CASE BootStation \/ BootAccessPoint \/ Joined \/ CreateAP \/ SaveSsid \/ SavePassword
             \/ StartBroker \/ Announced \/ WatchNetwork
    <3>1. /\ UNCHANGED <<httpd, wifiSettingsQueue, settings, results, call>>
          /\ task # "try" /\ task' # "try"
      BY <2>1 DEF BootStation, BootAccessPoint, Joined, CreateAP, SaveSsid, SavePassword, StartBroker,
         Announced, WatchNetwork, Mode, GetWifiState, stationVars
    <3> QED
      BY <3>1, RequestFrame
  <2>2. CASE Join
    <3>1. task = "join" /\ task' = "joining" /\ UNCHANGED httpd
      BY <2>2 DEF Join
    <3>2. httpd.at = "down"
      BY <3>1 DEF AnswerInv, NoneYet, Early
    <3> QED
      BY <3>1, <3>2 DEF Kept, NothingLost, TriesItsOwn
  <2>3. CASE StartServer
    <3>1. task' # "try" /\ httpd'.at = "idle"
      BY <2>3 DEF StartServer, NoHttpd
    <3> QED
      BY <3>1 DEF Kept, NothingLost, TriesItsOwn
  <2>4. CASE ReceiveSettings
    <3>1. /\ task = "provision" /\ task' = "try" /\ wifiSettingsQueue # <<>>
          /\ settings' = Head(wifiSettingsQueue) /\ UNCHANGED httpd
          /\ CallConnect(settings'.net)
      BY <2>4 DEF ReceiveSettings
    <3>2. httpd.at = "wait"
      BY <3>1 DEF AnswerInv, OnePlace, Provisioning
    <3>3. settings' = httpd.request
      BY <3>1, <3>2 DEF Kept, NothingLost, TriesItsOwn
    <3>4. call'.net = settings'.net
      BY <3>1 DEF CallConnect, InternetTypeOK, StationTypeOK
    <3> QED
      BY <3>1, <3>2, <3>3, <3>4 DEF Kept, NothingLost, TriesItsOwn
  <2>5. CASE SignalResult
    <3>1. /\ task = "try" /\ task' # "try" /\ UNCHANGED <<httpd, wifiSettingsQueue>>
          /\ results' = [results EXCEPT ![settings.flag] = call.result]
      BY <2>5 DEF SignalResult
    <3>2. wifiSettingsQueue = <<>> /\ settings.flag \in Requests /\ httpd.request = settings
      BY <3>1 DEF AnswerInv, OnePlace, Kept, NothingLost, TriesItsOwn
    <3>3. call.result # "none"
      BY DEF InternetTypeOK, StationTypeOK
    <3>4. results'[settings.flag] = call.result
      BY <3>1, <3>2 DEF InternetTypeOK
    <3> QED
      BY <3>1, <3>2, <3>3, <3>4 DEF Kept, NothingLost, TriesItsOwn
  <2>6. CASE Restart
    BY <2>6 DEF Restart, Reset, NoHttpd, Kept, NothingLost, TriesItsOwn
  <2> QED
    BY <1>1, <2>1, <2>2, <2>3, <2>4, <2>5, <2>6 DEF InternetTaskStep
<1>2. CASE HttpdStep
  <2>1. CASE SendSettings
    <3>1. /\ httpd.at = "post" /\ httpd'.at = "wait" /\ httpd'.request = httpd.request
          /\ wifiSettingsQueue' = <<httpd.request>> /\ UNCHANGED <<task, results>>
          /\ httpd.request.flag \in Requests
      BY <2>1 DEF SendSettings, InternetTypeOK
    <3>2. Pending(httpd.request.flag)
      BY <3>1 DEF Pending
    <3>3. results[httpd.request.flag] = "none"
      BY <3>1, <3>2 DEF AnswerInv, HandlerStays
    <3>4. task # "try"
      BY <3>1 DEF Kept, NothingLost, TriesItsOwn
    <3> QED
      BY <3>1, <3>3, <3>4 DEF Kept, NothingLost, TriesItsOwn
  <2>2. CASE RespondConnected \/ RespondFailed \/ RespondTimeout
    <3>1. /\ httpd.at = "wait" /\ httpd'.at = "idle" /\ UNCHANGED task
          /\ flags # {} \/ ~StillWorkedOn
      BY <2>2 DEF RespondConnected, RespondFailed, RespondTimeout, Respond, NoHttpd
    <3>2. task # "try"
      <4>1. SUFFICES ASSUME task = "try" PROVE FALSE
        OBVIOUS
      <4>2. httpd.request = settings /\ settings.flag \in Requests
        BY <4>1 DEF Kept, NothingLost, TriesItsOwn, AnswerInv, OnePlace
      <4>3. Pending(settings.flag) /\ StillWorkedOn
        BY <4>1, <4>2 DEF Pending, StillWorkedOn
      <4>4. flags = {}
        BY <4>2, <4>3 DEF AnswerInv, HandlerStays, flags
      <4> QED
        BY <3>1, <4>3, <4>4
    <3> QED
      BY <3>1, <3>2 DEF Kept, NothingLost, TriesItsOwn
  <2>3. CASE RestartNow
    BY <2>3 DEF RestartNow, Reset, NoHttpd, Kept, NothingLost, TriesItsOwn
  <2> QED
    BY <1>2, <2>1, <2>2, <2>3 DEF HttpdStep
<1>3. CASE RestartCommand \/ BeginPost \/ \E net \in Networks : ReceiveBody(net)
  <2>1. httpd.at \in {"idle", "receive"} /\ httpd'.at \in {"restart", "receive", "post"} /\ UNCHANGED task
    BY <1>3 DEF RestartCommand, BeginPost, ReceiveBody, InternetTypeOK
  <2> QED
    BY <2>1 DEF Kept, NothingLost, TriesItsOwn
<1>4. CASE CallStepped
  <2>1. UNCHANGED <<httpd, wifiSettingsQueue, settings, results, task>>
    BY <1>4 DEF CallStepped
  <2>2. call'.net = call.net
    BY <1>4 DEF CallStepped, CallStepping, CallStep, Return, Leave, Configure, Request, Refused, Awaited,
       InternetTypeOK, StationTypeOK
  <2> QED
    BY <2>1, <2>2, RequestFrame
<1>5. CASE HandlerStep \/ DriverStep \/ ShowPage \/ BrokerMessage \/ UNCHANGED vars
  <2>1. UNCHANGED <<httpd, wifiSettingsQueue, settings, results, task>>
    BY <1>5 DEF HandlerStep, DriverStep, ShowPage, BrokerMessage, vars
  <2>2. UNCHANGED call
    BY <1>5 DEF HandlerStep, EventTaskStep, HandleStart, HandleDisconnected, HandleGotIp, Retry, Handle,
       DriverStep, Driver, Associate, GetAddress, Lose, ShowPage, GetWifiState, BrokerMessage, stationVars,
       vars
  <2> QED
    BY <2>1, <2>2, RequestFrame
<1>6. CASE LosePower \/ ConfigureAborts
  BY <1>6 DEF LosePower, ConfigureAborts, Reset, NoHttpd, Kept, NothingLost, TriesItsOwn
<1> QED
  BY <1>1, <1>2, <1>3, <1>4, <1>5, <1>6 DEF Next

LEMMA RequestInvHolds == Spec => [](InternetTypeOK /\ CallsFromTask /\ AnswerInv /\ Kept)
<1>1. Init => AnswerInv /\ CallsFromTask /\ Kept
  BY DEF Init, StationInit, NoHttpd, CallsFromTask, AnswerInv, NoneYet, Early, OnePlace, HandlerStays,
     Pending, Provisioning, InHand, Fresh, AnsweredForItsOwn, Kept, NothingLost, TriesItsOwn
<1> QED
  BY <1>1, InternetInitType, InternetStepType, CallsFromTaskStep, AnswerInvStep, RequestStep, PTL DEF Spec

\* Whatever is posted, and whenever the timeouts, restarts and losses of power come:
\* the request a handler waits for is in the queue, being tried or has its result,
\* what the task tries is what the handler that still waits has posted, and with the
\* access point open no send finds the queue full
\* (internetTask.cpp:69-85, file_server.cpp:246-255).
THEOREM RequestsAreKept == Spec => []RequestKept
<1>1. AnswerInv /\ Kept => RequestKept
  BY DEF AnswerInv, OnePlace, Kept, RequestKept, SendHasRoom
<1> QED
  BY <1>1, RequestInvHolds, PTL

-----------------------------------------------------------------------------
(* What is saved                                                           *)

\* Between the two writes, and before them, the settings in hand are those the last
\* call connected with.
Saving ==
    task \in {"saveSsid", "savePassword"} =>
        /\ settings.flag \in Requests /\ results[settings.flag] = "CONNECTED"
        /\ call = [at |-> "none", net |-> settings.net, result |-> "CONNECTED"]

LEMMA CallIs ==
    ASSUME InternetTypeOK, NEW a, NEW n, NEW q, call.at = a, call.net = n, call.result = q
    PROVE  call = [at |-> a, net |-> n, result |-> q]
BY DEF InternetTypeOK, StationTypeOK

LEMMA SavingStep ==
    ASSUME InternetTypeOK, CallsFromTask, AnswerInv, Kept, Saving, [Next]_vars
    PROVE  Saving'
<1> USE DEF taskVars, httpVars, sharedVars
<1>1. ASSUME UNCHANGED <<task, settings, results, call>>
      PROVE  Saving'
  BY <1>1 DEF Saving
<1>2. CASE InternetTaskStep
  <2>1. CASE BootStation \/ BootAccessPoint \/ Join \/ Joined \/ CreateAP \/ StartServer \/ ReceiveSettings
             \/ SavePassword \/ StartBroker \/ Announced \/ WatchNetwork \/ Restart
    <3>1. task' \notin {"saveSsid", "savePassword"}
      BY <2>1 DEF BootStation, BootAccessPoint, Join, Joined, CreateAP, StartServer, ReceiveSettings,
         SavePassword, StartBroker, Announced, WatchNetwork, Restart, Reset
    <3> QED
      BY <3>1 DEF Saving
  <2>2. CASE SaveSsid
    BY <2>2 DEF SaveSsid, Saving, stationVars
  <2>3. CASE SignalResult
    <3>1. /\ task = "try" /\ call.at = "none" /\ UNCHANGED <<settings, call>>
          /\ results' = [results EXCEPT ![settings.flag] = call.result]
          /\ task' \in {"saveSsid", "savePassword"} => call.result = "CONNECTED"
      BY <2>3 DEF SignalResult, stationVars
    <3>2. settings.flag \in Requests /\ call.net = settings.net
      BY <3>1 DEF AnswerInv, OnePlace, Kept, TriesItsOwn
    <3>3. results'[settings.flag] = call.result
      BY <3>1, <3>2 DEF InternetTypeOK
    <3>4. call.result = "CONNECTED" => call = [at |-> "none", net |-> settings.net, result |-> "CONNECTED"]
      BY <3>1, <3>2, CallIs
    <3> QED
      BY <3>1, <3>2, <3>3, <3>4 DEF Saving
  <2> QED
    BY <1>2, <2>1, <2>2, <2>3 DEF InternetTaskStep
<1>3. CASE CallStepped
  <2>1. call.at # "none" /\ UNCHANGED task
    BY <1>3 DEF CallStepped, CallStepping, CallStep, Return, Leave, Configure, Request, Refused, Awaited
  <2> QED
    BY <2>1 DEF CallsFromTask, Saving
<1>4. CASE HandlerStep \/ DriverStep \/ ShowPage \/ BrokerMessage \/ UNCHANGED vars
  <2>1. UNCHANGED <<task, settings, results>>
    BY <1>4 DEF HandlerStep, DriverStep, ShowPage, BrokerMessage, vars
  <2>2. UNCHANGED call
    BY <1>4 DEF HandlerStep, EventTaskStep, HandleStart, HandleDisconnected, HandleGotIp, Retry, Handle,
       DriverStep, Driver, Associate, GetAddress, Lose, ShowPage, GetWifiState, BrokerMessage, stationVars,
       vars
  <2> QED
    BY <1>1, <2>1, <2>2
<1>5. CASE SendSettings \/ RespondConnected \/ RespondFailed \/ RespondTimeout \/ RestartCommand
           \/ BeginPost \/ \E net \in Networks : ReceiveBody(net)
  BY <1>1, <1>5 DEF SendSettings, RespondConnected, RespondFailed, RespondTimeout, Respond, GetWifiState,
     RestartCommand, BeginPost, ReceiveBody, stationVars
<1>6. CASE RestartNow \/ LosePower \/ ConfigureAborts
  BY <1>6 DEF RestartNow, LosePower, ConfigureAborts, Reset, Saving
<1> QED
  BY <1>2, <1>3, <1>4, <1>5, <1>6 DEF Next, HttpdStep

\* Only the internet task writes to flash.
LEMMA OnlySavingSaves ==
    ASSUME [Next]_vars, saved' # saved
    PROVE  task \in {"saveSsid", "savePassword"}
<1> USE DEF taskVars
<1>1. CASE InternetTaskStep
  BY <1>1 DEF InternetTaskStep, BootStation, BootAccessPoint, Join, Joined, CreateAP, StartServer,
     ReceiveSettings, SignalResult, SaveSsid, SavePassword, StartBroker, Announced, WatchNetwork, Restart,
     Reset
<1>2. CASE \/ HttpdStep \/ RestartCommand \/ BrokerMessage \/ LosePower \/ ConfigureAborts \/ BeginPost
           \/ \E net \in Networks : ReceiveBody(net)
  BY <1>2 DEF HttpdStep, SendSettings, RespondConnected, RespondFailed, RespondTimeout, Respond, RestartNow,
     RestartCommand, BrokerMessage, LosePower, ConfigureAborts, Reset, BeginPost, ReceiveBody
<1>3. CASE CallStepped \/ HandlerStep \/ DriverStep \/ ShowPage \/ UNCHANGED vars
  BY <1>3 DEF CallStepped, HandlerStep, DriverStep, ShowPage, vars
<1> QED
  BY <1>1, <1>2, <1>3 DEF Next

\* Settings that failed are never saved, and no call for other settings comes
\* between the success and the two writes (internetTask.cpp:71-82).
THEOREM OnlyConnectedIsSaved == Spec => SavesConnected
<1> DEFINE Connected == saved' # saved =>
               /\ settings.flag \in Requests /\ results[settings.flag] = "CONNECTED"
               /\ call = [at |-> "none", net |-> settings.net, result |-> "CONNECTED"]
<1>1. Init => Saving
  BY DEF Init, Saving
<1>2. Saving /\ [Next]_vars => [Connected]_vars
  BY OnlySavingSaves DEF Saving
<1>3. InternetTypeOK /\ CallsFromTask /\ AnswerInv /\ Kept /\ Saving /\ [Next]_vars => Saving'
  BY SavingStep
<1> QED
  BY <1>1, <1>2, <1>3, RequestInvHolds, PTL DEF Spec, SavesConnected
=============================================================================
