----------------------------- MODULE DisplayTask -----------------------------
(***************************************************************************)
(* The display task (displayTask.cpp) and the panel it draws on.           *)
(*                                                                         *)
(* Each round takes an update from displayQueue, or draws again what it    *)
(* has, or, when there is nothing to draw, asks the panel whether it is    *)
(* still on.  A round is one action: nobody else sees the task's data.     *)
(* The frames of the animated icons are left out, and so is the address,   *)
(* which is copied but not drawn.                                          *)
(*                                                                         *)
(* The senders are the relay task and the handlers of the Wi-Fi and MQTT   *)
(* events.  owed is not in the code: the last update that was sent of each *)
(* part of the screen, unless it was lost.                                 *)
(***************************************************************************)
EXTENDS Messages

CONSTANTS Updates,          \* what is sent
          DisplayQueueLen

ASSUME DisplayAssumption == Updates \subseteq DisplayMessage /\ DisplayQueueLen \in Nat \ {0}

VARIABLES
    displayQueue,
    newDisplayMessage,      \* the last message taken: it is applied again by every redraw
    displayRefresh,         \* the next round draws in any case
    currentDisplayData,     \* with relays[] and relaysInitialized[]
    panel,                  \* what can be seen
    owed

screenVars == <<newDisplayMessage, displayRefresh, currentDisplayData, panel>>
displayVars == <<displayQueue, screenVars, owed>>

\* The message before the first: the build fills new stacks with a pattern that
\* is no update type (CONFIG_FREERTOS_CHECK_STACKOVERFLOW_CANARY).
NoMessage == [updateType |-> "none"]

NotInitialized == [pin |-> FALSE, mode |-> "none"]
Box(m) == [pin |-> m.pin, mode |-> m.mode]
Boxes == [pin : BOOLEAN, mode : Modes] \cup {NotInitialized}

Data == [internetConnection : BOOLEAN, internetMode : {"none", "STATION", "AP_MODE"},
         mqttConnection : BOOLEAN, relays : [Relays -> Boxes]]

\* Mutant of ApplyRelay: a relay already drawn keeps its box.
ApplyRelayOnce(m, data) ==
    IF data.relays[m.relay] = NotInitialized THEN [data EXCEPT !.relays[m.relay] = Box(m)] ELSE data

ApplyRelay(m, data) == [data EXCEPT !.relays[m.relay] = Box(m)]

\* The switch on the type of the update, and the strcpy of the address.
Apply(m, data) ==
    CASE m.updateType = "INTERNET_UPDATE" ->
            [data EXCEPT !.internetConnection = m.connected, !.internetMode = m.internetMode,
                         !.mqttConnection = IF m.spill = {} THEN @ ELSE m.spill = {TRUE}]
      [] m.updateType = "RELAY_UPDATE" -> ApplyRelay(m, data)
      [] m.updateType = "MQTT_UPDATE" -> [data EXCEPT !.mqttConnection = m.connected]
      [] OTHER -> data

\* The panel is without power, has just been initialised, or shows a picture.
Dark == [wifi |-> "dark", cloud |-> "dark", boxes |-> [r \in Relays |-> NotInitialized]]
Blank == [wifi |-> "none", cloud |-> "none", boxes |-> [r \in Relays |-> NotInitialized]]

\* The code draws the boxes of three relays, which is how many there are.
Picture(data) ==
    [wifi  |-> CASE data.internetMode = "STATION" -> IF data.internetConnection THEN "full" ELSE "animated"
                 [] data.internetMode = "AP_MODE" -> "ap"
                 [] OTHER -> "none",
     cloud |-> IF data.internetMode # "STATION" THEN "none"
               ELSE IF data.mqttConnection THEN "cloud"
               ELSE IF data.internetConnection THEN "flashing" ELSE "none",
     boxes |-> data.relays]

Online(data) == data.internetConnection /\ data.mqttConnection

-----------------------------------------------------------------------------
DisplayInit ==
    /\ displayQueue = <<>>
    /\ newDisplayMessage = NoMessage
    /\ displayRefresh = TRUE
    /\ currentDisplayData = [internetConnection |-> FALSE, internetMode |-> "none",
                             mqttConnection |-> FALSE, relays |-> [r \in Relays |-> NotInitialized]]
    /\ panel = Blank
    /\ owed = {}

\* Mutants of NextRefresh: nothing is animated; every round draws.
NextRefreshNever(data) == FALSE
NextRefreshAlways(data) == TRUE

\* While a connection is missing the next round draws again, for the animation.
NextRefresh(data) == ~Online(data)

\* A round that draws, on a panel that may be dark.
Draw(m) ==
    /\ newDisplayMessage' = m
    /\ currentDisplayData' = Apply(m, currentDisplayData)
    /\ panel' = IF panel = Dark THEN Dark ELSE Picture(currentDisplayData')
    /\ displayRefresh' = NextRefresh(currentDisplayData')
    /\ UNCHANGED owed

TakeUpdate ==
    /\ displayQueue # <<>>
    /\ Draw(Head(displayQueue))
    /\ displayQueue' = Tail(displayQueue)

Redraw ==
    /\ displayQueue = <<>>
    /\ displayRefresh
    /\ Draw(newDisplayMessage)
    /\ UNCHANGED displayQueue

\* Mutant of Restart: the panel is initialised and left blank.
RestartBlank ==
    /\ displayQueue = <<>> /\ ~displayRefresh
    /\ panel = Dark
    /\ panel' = Blank
    /\ UNCHANGED <<displayQueue, newDisplayMessage, displayRefresh, currentDisplayData, owed>>

\* Nothing to draw and no answer to the ping: the panel is initialised.  (With an
\* answer the round changes nothing.)
Restart ==
    /\ displayQueue = <<>> /\ ~displayRefresh
    /\ panel = Dark
    /\ panel' = Blank
    /\ displayRefresh' = TRUE
    /\ UNCHANGED <<displayQueue, newDisplayMessage, currentDisplayData, owed>>

DisplayStep == TakeUpdate \/ Redraw \/ Restart

\* The panel loses its power or its settings.
PanelFails ==
    /\ panel' = Dark
    /\ UNCHANGED <<displayQueue, newDisplayMessage, displayRefresh, currentDisplayData, owed>>

-----------------------------------------------------------------------------
(* The senders                                                             *)

SamePart(m, u) == m.updateType = u.updateType /\ (m.updateType = "RELAY_UPDATE" => m.relay = u.relay)

\* An address without an end takes the other icon with it.
Spills(m, u) == m.updateType = "INTERNET_UPDATE" /\ m.spill # {} /\ u.updateType = "MQTT_UPDATE"

\* What is owed once m was sent, or was lost.
Owe(m) ==
    owed' = IF HasRoom(displayQueue, DisplayQueueLen)
            THEN {u \in owed : ~SamePart(m, u) /\ ~Spills(m, u)} \cup {m}
            ELSE {u \in owed : ~SamePart(m, u)}

\* A full queue makes the handlers give up at once and the relay task after 100
\* ticks.
SendUpdate(m) ==
    /\ displayQueue' = IF HasRoom(displayQueue, DisplayQueueLen) THEN Append(displayQueue, m) ELSE displayQueue
    /\ Owe(m)
    /\ UNCHANGED screenVars

DisplayNext == DisplayStep \/ PanelFails \/ \E m \in Updates : SendUpdate(m)

DisplaySpec == DisplayInit /\ [][DisplayNext]_displayVars

\* The display task never waits: each round ends with a delay of at most 500 ms.
FairDisplaySpec == DisplaySpec /\ WF_displayVars(DisplayStep)

-----------------------------------------------------------------------------
(* Properties *)

\* Every variable has its type, and a round ends without a redraw pending only
\* when both connections are up.
DisplayTypeOK ==
    /\ displayQueue \in Seq(Updates) /\ Len(displayQueue) <= DisplayQueueLen
    /\ newDisplayMessage \in Updates \cup {NoMessage}
    /\ displayRefresh \in BOOLEAN
    /\ currentDisplayData \in Data
    /\ panel \in [wifi : {"dark", "none", "animated", "full", "ap"},
                  cloud : {"dark", "none", "flashing", "cloud"}, boxes : [Relays -> Boxes]]
    /\ displayRefresh \/ Online(currentDisplayData)
    /\ owed \subseteq Updates

\* The data say what m says.
Agrees(m, data) ==
    CASE m.updateType = "INTERNET_UPDATE" ->
            data.internetConnection = m.connected /\ data.internetMode = m.internetMode
      [] m.updateType = "RELAY_UPDATE" -> data.relays[m.relay] = Box(m)
      [] m.updateType = "MQTT_UPDATE" -> data.mqttConnection = m.connected

\* Nothing that is taken from position k on changes what m shows.
LastAfter(m, k) ==
    \A n \in k + 1 .. Len(displayQueue) : ~SamePart(m, displayQueue[n]) /\ ~Spills(displayQueue[n], m)

\* No update that found room is forgotten, overtaken, or undone by a redraw of the
\* message before it: until it is followed by another of its part, it is in the
\* queue as the last of its part, or it is what the task draws and no redraw of
\* the message in hand will change that (displayTask.cpp:106-125).
ScreenFollows ==
    \A m \in owed :
        \/ \E k \in 1 .. Len(displayQueue) : displayQueue[k] = m /\ LastAfter(m, k)
        \/ /\ LastAfter(m, 0)
           /\ Agrees(m, currentDisplayData)
           /\ Agrees(m, Apply(newDisplayMessage, currentDisplayData))

\* An update that is not lost nor followed by another is soon on the panel, and
\* stays there, unless the panel fails again and again or for good.
Pictured(m) ==
    CASE m.updateType = "INTERNET_UPDATE" -> panel.wifi = (IF m.internetMode = "AP_MODE" THEN "ap"
                                                           ELSE IF m.connected THEN "full" ELSE "animated")
      [] m.updateType = "RELAY_UPDATE" -> panel.boxes[m.relay] = Box(m)
      [] m.updateType = "MQTT_UPDATE" -> panel.wifi \in {"animated", "full"} =>
                                             (panel.cloud = "cloud" <=> m.connected)

ScreenSettles ==
    \A m \in Updates : <>[](m \in owed) => <>[]Pictured(m) \/ []<>(panel = Dark)

\* "Display not responding. Restarting display...": a panel that fails is found and
\* started again (displayTask.cpp:229-236), unless a connection is down or updates
\* keep coming, because a round that draws does not ask.
PanelRestarts ==
    \/ panel = Dark ~> panel # Dark \/ ~Online(currentDisplayData)
    \/ []<><<TakeUpdate>>_displayVars
=============================================================================
