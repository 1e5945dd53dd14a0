---------------------------- MODULE MCControlPath ----------------------------
(* Small instances of ControlPath for TLC. *)
EXTENDS ControlPath

MCTok(k, v) == [key |-> k, value |-> v]
MCMessage(t, s) == [topic |-> t, tokens |-> s]
MCPing == MCMessage("ping", <<MCTok("status", "")>>)
MCPriceMessage(p) == MCMessage("price", <<MCTok("hour1", 9), MCTok("hour0", p)>>)

\* One relay: commands that commute with prices and commands that do not, one
\* without a relay, and prices on either side of the threshold.
MCInbox ==
    {MCPing,
     MCPriceMessage(1), MCPriceMessage(3),
     MCMessage("command", <<MCTok("relay", 0), MCTok("mode", "auto"), MCTok("threshold", 2)>>),
     MCMessage("command", <<MCTok("relay", 0), MCTok("mode", "manual")>>),
     MCMessage("command", <<MCTok("relay", 0), MCTok("state", "on")>>),
     MCMessage("command", <<MCTok("mode", "auto")>>)}

\* For progress: a request, a price, a command, and one the relay task refuses.
\* What they set does not matter, so they set nothing.
MCLiveInbox ==
    {MCPing,
     MCMessage("price", <<MCTok("hour1", 9)>>),
     MCMessage("command", <<MCTok("relay", 0)>>),
     MCMessage("command", <<MCTok("relay", 7)>>)}

MCParse(inbox) ==
    {c \in {Mqtt!ParseRelaySettings(m.tokens) : m \in {m \in inbox : m.topic = "command"}} :
        c.relayNumber # -1}
MCParsed == MCParse(MCInbox)
MCLiveParsed == MCParse(MCLiveInbox)
MCPrices == {1, 3}
MCNoPrices == {0}
MCConnectionUpdates == {}
=============================================================================
