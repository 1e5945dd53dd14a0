----------------------------- MODULE MCMqttTask -----------------------------
(* Small instances of MqttTask for TLC. *)
EXTENDS MqttTask

MCTok(k, v) == [key |-> k, value |-> v]

\* Every command of up to two of these tokens: settings that are repeated, out of
\* order, unacceptable, unknown, and a command without a relay.
MCTokens == {MCTok("relay", 0), MCTok("state", "on"), MCTok("state", "blink"),
             MCTok("mode", "auto"), MCTok("mode", "manual"), MCTok("price", 2)}

MCInbox ==
    {[topic |-> "command", tokens |-> s] : s \in {<<t>> : t \in MCTokens} \cup (MCTokens \X MCTokens)}
        \cup {[topic |-> "price", tokens |-> <<MCTok("hour1", 3)>>],
              [topic |-> "ping", tokens |-> <<MCTok("status", "")>>],
              [topic |-> "other", tokens |-> <<>>]}
=============================================================================
