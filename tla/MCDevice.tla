------------------------------- MODULE MCDevice -------------------------------
(* Small instances of Device. *)
EXTENDS Device

MCLine(n, s) == [number |-> n, setting |-> s]

\* For the screen: a relay switched on by hand and off by its price, and a
\* word that is no number.
MCLines == {MCLine(0, "on"), MCLine(NotANumber, "")}
MCDoubles == {0}

\* For inquiries: an automatic relay, and doubles that are no setting or a
\* threshold on either side of the price.
MCInquiries == {MCLine(0, "auto"), MCLine(0, "")}
MCGarbage == {NoThreshold, NoPrice, 2}

MCBrokerCommands ==
    {[NoCommand EXCEPT !.mode = "automatic", !.threshold = 1]}

MCCommands == MCBrokerCommands \cup UNION {Typed!CommandsOf(line) : line \in MCLines}
MCInquiryCommands == UNION {Typed!CommandsOf(line) : line \in MCInquiries}

MCConnectionUpdates == {[updateType |-> "MQTT_UPDATE", connected |-> TRUE]}

MCPrices == {1}
MCNoCommands == {}
=============================================================================
