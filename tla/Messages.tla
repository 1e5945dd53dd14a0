------------------------------ MODULE Messages ------------------------------
(***************************************************************************)
(* The messages the tasks of the firmware exchange, from main/include/     *)
(* main.h.  A double is an Int, its value in thousandths: the code         *)
(* compares prices with thresholds and with the two sentinels below, and   *)
(* prints both with two decimals.                                          *)
(***************************************************************************)
EXTENDS Integers, Sequences

CONSTANT NumRelays      \* CONFIG_AMOUNT_OF_RELAYS

ASSUME NumRelaysAssumption == NumRelays \in Nat \ {0}

Relays == 0 .. NumRelays - 1

Modes == {"automatic", "manual"}
RelayMode == Modes \cup {"noModeChange"}
RelayState == {"on", "off", "noStateChange"}

NoThreshold == -1000    \* "this command leaves the threshold alone"
NoPrice == 0            \* "this command leaves the price alone": NULL

\* What travels through relayQueue.  relayNumber is any int: neither the MQTT
\* parser nor the console checks its range.
RelaySettings == [relayNumber : Int, state : RelayState, mode : RelayMode,
                  threshold : Int, price : Int]

\* One relay: the fields of class Relay and the level of its output pin.
RelayRecord == [mode : Modes, pin : BOOLEAN, price : Int, threshold : Int]

\* The text String(double) makes, as the number of hundredths it shows: it rounds
\* to the nearest, and halves away from zero.
Printed(x) == IF x < 0 THEN -((5 - x) \div 10) ELSE (x + 5) \div 10

\* The text Relay::status() builds for MQTT_DEVICE_STATUS_TOPIC, with the price and
\* the threshold as they are printed.
StatusMessage == [relay : Relays, mode : Modes, pin : BOOLEAN, price : Int, threshold : Int]

\* What travels through displayQueue: a relay to draw, or the state of one of
\* the two connections.  The address in an INTERNET_UPDATE is never written, so that
\* the text in it may end after its last byte: after internetConnection when that is
\* false, else possibly after mqttConnection.  spill is what the latter then reads.
InternetUpdate == [updateType : {"INTERNET_UPDATE"}, connected : BOOLEAN,
                   internetMode : {"STATION", "AP_MODE"}, spill : SUBSET BOOLEAN]

DisplayMessage ==
    [updateType : {"RELAY_UPDATE"}, relay : Relays, pin : BOOLEAN, mode : Modes, threshold : Int]
        \cup [updateType : {"MQTT_UPDATE"}, connected : BOOLEAN]
        \cup {m \in InternetUpdate : m.spill \in {{}, {FALSE}, {TRUE}} /\ (m.spill # {} => m.connected)}

\* A FreeRTOS queue of length n: sends are refused (or wait) when it is full.
HasRoom(queue, n) == Len(queue) < n
=============================================================================
