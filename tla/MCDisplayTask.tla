---------------------------- MODULE MCDisplayTask ----------------------------
(* A small instance of DisplayTask: one relay, and both connections. *)
EXTENDS DisplayTask

MCRelay(p) == [updateType |-> "RELAY_UPDATE", relay |-> 0, pin |-> p, mode |-> "manual", threshold |-> 0]
MCInternet(c, mode, s) == [updateType |-> "INTERNET_UPDATE", connected |-> c, internetMode |-> mode, spill |-> s]
MCMqtt(c) == [updateType |-> "MQTT_UPDATE", connected |-> c]

MCUpdates ==
    {MCRelay(TRUE), MCRelay(FALSE), MCMqtt(TRUE), MCMqtt(FALSE),
     MCInternet(FALSE, "STATION", {}), MCInternet(TRUE, "STATION", {}),
     MCInternet(TRUE, "STATION", {FALSE}), MCInternet(TRUE, "AP_MODE", {})}
=============================================================================
