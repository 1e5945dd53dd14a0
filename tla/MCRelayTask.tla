---------------------------- MODULE MCRelayTask ----------------------------
(* Small instances of RelayTask for TLC. *)
EXTENDS RelayTask

\* A command that carries the settings in f and leaves the others alone.
MCSet(n, f) == [k \in {"relayNumber", "state", "mode", "threshold", "price"} |->
                   IF k \in DOMAIN f THEN f[k]
                   ELSE IF k = "relayNumber" THEN n ELSE NoCommand[k]]

\* For two relays, one that changes its mode and one that is held by hand whatever
\* its price: a state that overrides a mode, several settings in one command, prices
\* on either side of the threshold, and numbers out of range.  The price of the
\* message is below the threshold of 24 thousandths and is printed like it, the one of
\* the command is above.
MCCommands ==
    {MCSet(0, [mode |-> "automatic", threshold |-> 24]),
     MCSet(0, [state |-> "off", mode |-> "automatic", price |-> 26]),
     MCSet(1, [state |-> "on"]),
     MCSet(2, [state |-> "on"]),
     MCSet(-2, [state |-> "on"])}

MCConnectionUpdates == {[updateType |-> "MQTT_UPDATE", connected |-> TRUE]}

MCPrices == {21}
=============================================================================
