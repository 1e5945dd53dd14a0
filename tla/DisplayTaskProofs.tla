-------------------------- MODULE DisplayTaskProofs --------------------------
(***************************************************************************)
(* Proofs about DisplayTask, for every number of relays, every set of      *)
(* updates, and every length of displayQueue.                              *)
(***************************************************************************)
EXTENDS DisplayTask, TLAPS

-----------------------------------------------------------------------------
(* The data the task draws                                                 *)

\* An update is one of the three the switch knows.
LEMMA MessageCases ==
    ASSUME NEW m \in DisplayMessage
    PROVE  \/ /\ m.updateType = "RELAY_UPDATE"
              /\ m.relay \in Relays /\ m.pin \in BOOLEAN /\ m.mode \in Modes
           \/ m.updateType = "MQTT_UPDATE" /\ m.connected \in BOOLEAN
           \/ /\ m.updateType = "INTERNET_UPDATE" /\ m.connected \in BOOLEAN
              /\ m.internetMode \in {"STATION", "AP_MODE"} /\ m.spill \in SUBSET BOOLEAN
BY DEF DisplayMessage, InternetUpdate

\* Applying a message yields data.
LEMMA ApplyType ==
    ASSUME NEW m \in DisplayMessage \cup {NoMessage}, NEW data \in Data
    PROVE  Apply(m, data) \in Data
<1>1. CASE m = NoMessage
  BY <1>1 DEF Apply, NoMessage
<1>2. CASE m \in DisplayMessage
  <2>1. CASE m.updateType = "RELAY_UPDATE"
    <3>1. Box(m) \in Boxes
      BY <1>2, <2>1, MessageCases DEF Box, Boxes
    <3> QED
      BY <1>2, <2>1, <3>1, MessageCases DEF Apply, ApplyRelay, Data
  <2>2. CASE m.updateType = "MQTT_UPDATE"
    BY <1>2, <2>2, MessageCases DEF Apply, Data
  <2>3. CASE m.updateType = "INTERNET_UPDATE"
    <3>1. (m.spill = {TRUE}) \in BOOLEAN
      OBVIOUS
    <3> DEFINE flag == IF m.spill = {} THEN data.mqttConnection ELSE m.spill = {TRUE}
    <3>2. flag \in BOOLEAN
      BY <3>1 DEF Data
    <3>3. Apply(m, data) = [data EXCEPT !.internetConnection = m.connected,
                                        !.internetMode = m.internetMode, !.mqttConnection = flag]
      BY <2>3 DEF Apply
    <3> HIDE DEF flag
    <3> QED
      BY <1>2, <2>3, <3>2, <3>3, MessageCases DEF Data
  <2> QED
    BY <1>2, <2>1, <2>2, <2>3, MessageCases
<1> QED
  BY <1>1, <1>2

\* What is on a panel that is lit is a picture.
LEMMA PictureType ==
    ASSUME NEW data \in Data
    PROVE  Picture(data) \in [wifi : {"dark", "none", "animated", "full", "ap"},
                              cloud : {"dark", "none", "flashing", "cloud"},
                              boxes : [Relays -> Boxes]]
BY DEF Picture, Data

\* After a message was applied the data say what it says.
LEMMA ApplyAgrees ==
    ASSUME NEW m \in DisplayMessage, NEW data \in Data
    PROVE  Agrees(m, Apply(m, data))
BY MessageCases DEF Agrees, Apply, ApplyRelay, Data

\* Applying a message twice is applying it once: a redraw does no harm.
LEMMA ApplyIdempotent ==
    ASSUME NEW m \in DisplayMessage \cup {NoMessage}, NEW data \in Data
    PROVE  Apply(m, Apply(m, data)) = Apply(m, data)
<1>1. CASE m = NoMessage
  BY <1>1 DEF Apply, NoMessage
<1>2. CASE m \in DisplayMessage
  BY <1>2, MessageCases DEF Apply, ApplyRelay, Data
<1> QED
  BY <1>1, <1>2

\* A message leaves alone what the data say of another part.
LEMMA ApplyKeeps ==
    ASSUME NEW m \in DisplayMessage, NEW u \in DisplayMessage, NEW data \in Data,
           ~SamePart(u, m), ~Spills(m, u), Agrees(u, data)
    PROVE  Agrees(u, Apply(m, data))
<1>1. CASE m.updateType = "RELAY_UPDATE"
  BY <1>1, MessageCases DEF Agrees, Apply, ApplyRelay, Data, SamePart
<1>2. CASE m.updateType = "MQTT_UPDATE"
  BY <1>2, MessageCases DEF Agrees, Apply, Data, SamePart
<1>3. CASE m.updateType = "INTERNET_UPDATE"
  BY <1>3, MessageCases DEF Agrees, Apply, Data, SamePart, Spills
<1> QED
  BY <1>1, <1>2, <1>3, MessageCases

-----------------------------------------------------------------------------
(* Type correctness                                                        *)

LEMMA UpdatesAreMessages == \A m \in Updates : m \in DisplayMessage
BY DisplayAssumption

\* A round that draws m keeps the types of what it changes.
LEMMA DrawType ==
    ASSUME DisplayTypeOK, NEW m \in Updates \cup {NoMessage}, Draw(m)
    PROVE  /\ newDisplayMessage' \in Updates \cup {NoMessage}
           /\ displayRefresh' \in BOOLEAN
           /\ currentDisplayData' \in Data
           /\ panel' \in [wifi : {"dark", "none", "animated", "full", "ap"},
                          cloud : {"dark", "none", "flashing", "cloud"}, boxes : [Relays -> Boxes]]
           /\ displayRefresh' \/ Online(currentDisplayData')
           /\ owed' \subseteq Updates
<1>1. m \in DisplayMessage \cup {NoMessage}
  BY UpdatesAreMessages
<1>2. currentDisplayData' \in Data
  BY <1>1, ApplyType DEF DisplayTypeOK, Draw
<1>3. panel' \in [wifi : {"dark", "none", "animated", "full", "ap"},
                  cloud : {"dark", "none", "flashing", "cloud"}, boxes : [Relays -> Boxes]]
  BY <1>2, PictureType DEF DisplayTypeOK, Draw
<1>4. displayRefresh' \in BOOLEAN /\ (displayRefresh' \/ Online(currentDisplayData'))
  BY <1>2 DEF Draw, NextRefresh, Online, Data
<1> QED
  BY <1>2, <1>3, <1>4 DEF Draw, DisplayTypeOK

LEMMA DisplayInitType == DisplayInit => DisplayTypeOK
<1> SUFFICES ASSUME DisplayInit PROVE DisplayTypeOK
  OBVIOUS
<1>1. currentDisplayData \in Data
  BY DEF DisplayInit, Data, Boxes
<1>2. panel \in [wifi : {"dark", "none", "animated", "full", "ap"},
                 cloud : {"dark", "none", "flashing", "cloud"}, boxes : [Relays -> Boxes]]
  BY DEF DisplayInit, Blank, Boxes
<1> QED
  BY <1>1, <1>2, DisplayAssumption DEF DisplayInit, DisplayTypeOK

LEMMA DisplayStepType == DisplayTypeOK /\ [DisplayNext]_displayVars => DisplayTypeOK'
<1> SUFFICES ASSUME DisplayTypeOK, [DisplayNext]_displayVars PROVE DisplayTypeOK'
  OBVIOUS
<1>1. CASE TakeUpdate
  <2>1. Head(displayQueue) \in Updates /\ displayQueue' \in Seq(Updates) /\ Len(displayQueue') <= DisplayQueueLen
    BY <1>1, DisplayAssumption DEF TakeUpdate, DisplayTypeOK
  <2> QED
    BY <1>1, <2>1, DrawType DEF TakeUpdate, DisplayTypeOK
<1>2. CASE Redraw
  <2>1. newDisplayMessage \in Updates \cup {NoMessage} /\ Draw(newDisplayMessage)
    BY <1>2 DEF Redraw, DisplayTypeOK
  <2> QED
    BY <1>2, <2>1, DrawType DEF Redraw, DisplayTypeOK
<1>3. CASE Restart \/ PanelFails
  <2>1. panel' \in {Blank, Dark}
    BY <1>3 DEF Restart, PanelFails
  <2>2. panel' \in [wifi : {"dark", "none", "animated", "full", "ap"},
                   cloud : {"dark", "none", "flashing", "cloud"}, boxes : [Relays -> Boxes]]
    BY <2>1 DEF Blank, Dark, Boxes
  <2>3. displayRefresh' \in BOOLEAN /\ (displayRefresh' \/ Online(currentDisplayData)')
    BY <1>3 DEF Restart, PanelFails, DisplayTypeOK
  <2> QED
    BY <1>3, <2>2, <2>3 DEF Restart, PanelFails, DisplayTypeOK
<1>4. ASSUME NEW m \in Updates, SendUpdate(m) PROVE DisplayTypeOK'
  <2>1. displayQueue' \in Seq(Updates) /\ Len(displayQueue') <= DisplayQueueLen
    BY <1>4, DisplayAssumption DEF SendUpdate, HasRoom, DisplayTypeOK
  <2>2. owed' \subseteq Updates
    BY <1>4 DEF SendUpdate, Owe, DisplayTypeOK
  <2> QED
    BY <1>4, <2>1, <2>2 DEF SendUpdate, screenVars, DisplayTypeOK
<1>5. CASE UNCHANGED displayVars
  BY <1>5 DEF displayVars, screenVars, DisplayTypeOK
<1> QED
  BY <1>1, <1>2, <1>3, <1>4, <1>5 DEF DisplayNext, DisplayStep

\* Every variable of the display task keeps its type, and the task stops redrawing
\* only when both connections are up.
THEOREM DisplayTypeCorrect == DisplaySpec => []DisplayTypeOK
<1> QED
  BY DisplayInitType, DisplayStepType, PTL DEF DisplaySpec

-----------------------------------------------------------------------------
(* What the screen owes                                                    *)

\* The data agree with m, and still do after a redraw of the message in hand.
Settled(m) ==
    Agrees(m, currentDisplayData) /\ Agrees(m, Apply(newDisplayMessage, currentDisplayData))

\* Drawing m settles m, ...
LEMMA DrawSettles ==
    ASSUME DisplayTypeOK, NEW m \in Updates, Draw(m)
    PROVE  Settled(m)'
<1>1. m \in DisplayMessage /\ currentDisplayData \in Data
  BY UpdatesAreMessages DEF DisplayTypeOK
<1>2. Agrees(m, Apply(m, currentDisplayData))
  BY <1>1, ApplyAgrees
<1>3. Apply(m, Apply(m, currentDisplayData)) = Apply(m, currentDisplayData)
  BY <1>1, ApplyIdempotent
<1> QED
  BY <1>2, <1>3 DEF Draw, Settled

\* ... and leaves every other part as it was.
LEMMA DrawKeeps ==
    ASSUME DisplayTypeOK, NEW m \in Updates, NEW u \in Updates, Draw(m),
           ~SamePart(u, m), ~Spills(m, u), Settled(u)
    PROVE  Settled(u)'
<1>1. m \in DisplayMessage /\ u \in DisplayMessage /\ currentDisplayData \in Data
  BY UpdatesAreMessages DEF DisplayTypeOK
<1>2. Agrees(u, Apply(m, currentDisplayData))
  BY <1>1, ApplyKeeps DEF Settled
<1>3. Apply(m, Apply(m, currentDisplayData)) = Apply(m, currentDisplayData)
  BY <1>1, ApplyIdempotent
<1> QED
  BY <1>2, <1>3 DEF Draw, Settled

\* Drawing the message in hand again leaves everything as it was.
LEMMA RedrawKeeps ==
    ASSUME DisplayTypeOK, NEW u, Draw(newDisplayMessage), Settled(u)
    PROVE  Settled(u)'
<1>1. newDisplayMessage \in DisplayMessage \cup {NoMessage} /\ currentDisplayData \in Data
  BY UpdatesAreMessages DEF DisplayTypeOK
<1>2. Apply(newDisplayMessage, Apply(newDisplayMessage, currentDisplayData)) =
      Apply(newDisplayMessage, currentDisplayData)
  BY <1>1, ApplyIdempotent
<1> QED
  BY <1>2 DEF Draw, Settled

\* m is the last of its part in the queue.
Pending(m, k) == k \in 1 .. Len(displayQueue) /\ displayQueue[k] = m /\ LastAfter(m, k)

LEMMA TakeKeeps ==
    ASSUME DisplayTypeOK, TakeUpdate, ScreenFollows, NEW m \in owed
    PROVE  (\E k \in 1 .. Len(displayQueue) : Pending(m, k))' \/ (LastAfter(m, 0) /\ Settled(m))'
<1> DEFINE h == Head(displayQueue)
<1>1. /\ h \in Updates /\ m \in Updates /\ Draw(h)
      /\ displayQueue \in Seq(Updates) /\ displayQueue # <<>> /\ displayQueue' = Tail(displayQueue)
  BY DEF TakeUpdate, DisplayTypeOK
<1>2. /\ Len(displayQueue') = Len(displayQueue) - 1
      /\ \A n \in 1 .. Len(displayQueue') : displayQueue'[n] = displayQueue[n + 1]
  BY <1>1
<1>3. ASSUME NEW k \in 1 .. Len(displayQueue), displayQueue[k] = m, LastAfter(m, k)
      PROVE  (\E n \in 1 .. Len(displayQueue) : Pending(m, n))' \/ (LastAfter(m, 0) /\ Settled(m))'
  <2>1. CASE k = 1
    <3>1. m = h
      BY <1>1, <1>3, <2>1
    <3>2. Settled(m)'
      BY <1>1, <3>1, DrawSettles
    <3>3. LastAfter(m, 0)'
      BY <1>1, <1>2, <1>3, <2>1 DEF LastAfter
    <3> QED
      BY <3>2, <3>3
  <2>2. CASE k > 1
    <3>1. k - 1 \in 1 .. Len(displayQueue') /\ displayQueue'[k - 1] = m
      BY <1>1, <1>2, <1>3, <2>2
    <3>2. LastAfter(m, k - 1)'
      BY <1>1, <1>2, <1>3, <2>2 DEF LastAfter
    <3> QED
      BY <3>1, <3>2 DEF Pending
  <2> QED
    BY <1>1, <2>1, <2>2
<1>4. ASSUME LastAfter(m, 0), Settled(m)
      PROVE  (LastAfter(m, 0) /\ Settled(m))'
  <2>1. ~SamePart(m, h) /\ ~Spills(h, m)
    BY <1>1, <1>4 DEF LastAfter
  <2>2. Settled(m)'
    BY <1>1, <1>4, <2>1, DrawKeeps
  <2>3. LastAfter(m, 0)'
    BY <1>1, <1>2, <1>4 DEF LastAfter
  <2> QED
    BY <2>2, <2>3
<1> QED
  BY <1>3, <1>4 DEF ScreenFollows, Settled

LEMMA SendKeeps ==
    ASSUME DisplayTypeOK, NEW u \in Updates, SendUpdate(u), ScreenFollows, NEW m \in owed'
    PROVE  (\E k \in 1 .. Len(displayQueue) : Pending(m, k))' \/ (LastAfter(m, 0) /\ Settled(m))'
<1>1. Settled(m)' <=> Settled(m)
  BY DEF SendUpdate, screenVars, Settled
<1>2. CASE ~HasRoom(displayQueue, DisplayQueueLen)
  <2>1. m \in owed /\ displayQueue' = displayQueue
    BY <1>2 DEF SendUpdate, Owe
  <2> QED
    BY <1>1, <2>1 DEF ScreenFollows, Settled, Pending, LastAfter
<1>3. CASE HasRoom(displayQueue, DisplayQueueLen)
  <2>1. /\ displayQueue' = Append(displayQueue, u) /\ displayQueue \in Seq(Updates)
        /\ owed' = {x \in owed : ~SamePart(u, x) /\ ~Spills(u, x)} \cup {u}
    BY <1>3 DEF SendUpdate, Owe, DisplayTypeOK
  <2>2. /\ Len(displayQueue') = Len(displayQueue) + 1 /\ displayQueue'[Len(displayQueue) + 1] = u
        /\ \A n \in 1 .. Len(displayQueue) : displayQueue'[n] = displayQueue[n]
        /\ Len(displayQueue) \in Nat
    BY <2>1
  <2>3. CASE m = u
    <3>1. Pending(m, Len(displayQueue))'
      BY <2>2, <2>3 DEF Pending, LastAfter
    <3> QED
      BY <2>2, <3>1
  <2>4. CASE m \in owed /\ ~SamePart(u, m) /\ ~Spills(u, m)
    <3>1. ~SamePart(m, u)
      BY <2>4 DEF SamePart
    <3>2. ASSUME NEW k \in 0 .. Len(displayQueue), LastAfter(m, k) PROVE LastAfter(m, k)'
      BY <2>2, <2>4, <3>1, <3>2 DEF LastAfter
    <3> QED
      BY <1>1, <2>2, <2>4, <3>2 DEF ScreenFollows, Settled, Pending
  <2> QED
    BY <2>1, <2>3, <2>4
<1> QED
  BY <1>2, <1>3

LEMMA ScreenInit == DisplayInit => ScreenFollows
BY DEF DisplayInit, ScreenFollows

LEMMA ScreenStep == DisplayTypeOK /\ ScreenFollows /\ [DisplayNext]_displayVars => ScreenFollows'
<1> SUFFICES ASSUME DisplayTypeOK, ScreenFollows, [DisplayNext]_displayVars, NEW m \in owed'
             PROVE  \/ (\E k \in 1 .. Len(displayQueue) : Pending(m, k))'
                    \/ (LastAfter(m, 0) /\ Settled(m))'
  BY DEF ScreenFollows, Settled, Pending
<1>1. CASE TakeUpdate
  BY <1>1, TakeKeeps DEF TakeUpdate, Draw
<1>2. CASE Redraw
  <2>1. /\ Draw(newDisplayMessage) /\ m \in owed
        /\ displayQueue = <<>> /\ displayQueue' = displayQueue
    BY <1>2 DEF Redraw, Draw
  <2>2. LastAfter(m, 0) /\ Settled(m)
    BY <2>1 DEF ScreenFollows, Settled
  <2>3. Settled(m)'
    BY <2>1, <2>2, RedrawKeeps
  <2> QED
    BY <2>1, <2>2, <2>3 DEF LastAfter
<1>3. CASE Restart \/ PanelFails \/ UNCHANGED displayVars
  <2>1. UNCHANGED <<displayQueue, newDisplayMessage, currentDisplayData, owed>>
    BY <1>3 DEF Restart, PanelFails, displayVars, screenVars
  <2> QED
    BY <2>1 DEF ScreenFollows, Settled, Pending, LastAfter
<1>4. ASSUME NEW u \in Updates, SendUpdate(u)
      PROVE  \/ (\E k \in 1 .. Len(displayQueue) : Pending(m, k))'
             \/ (LastAfter(m, 0) /\ Settled(m))'
  BY <1>4, SendKeeps
<1> QED
  BY <1>1, <1>2, <1>3, <1>4 DEF DisplayNext, DisplayStep

\* Whatever is sent and in whatever order, an update that found room and was not
\* followed by another of its part is in the queue, the last of its part, or is
\* what the task draws, now and at every redraw.
THEOREM ScreenFollowsUpdates == DisplaySpec => []ScreenFollows
<1> QED
  BY DisplayTypeCorrect, ScreenInit, ScreenStep, PTL DEF DisplaySpec
=============================================================================
