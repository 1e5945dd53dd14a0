---------------------------- MODULE RelayControl ----------------------------
(***************************************************************************)
(* What the relay task promises: a command changes the one relay it names, *)
(* in one step and only in the settings it carries; a price message        *)
(* changes every relay in one step; and a relay in automatic mode is on    *)
(* exactly when its price is below its threshold.  The steps the code      *)
(* takes to get there, the queues and the reports are in RelayTask, which  *)
(* implements this module.                                                 *)
(***************************************************************************)
EXTENDS Messages

CONSTANTS Commands,     \* the RelaySettings the other tasks may send
          Prices        \* the prices the other tasks may send

VARIABLE relays

\* A relay whose pin obeys its mode.
Follow(r) ==
    IF r.mode = "automatic" THEN [r EXCEPT !.pin = r.price < r.threshold] ELSE r

\* Switching a relay on or off by hand takes it out of automatic mode; every
\* setting a command does not carry stays as it is.
Commanded(r, c) ==
    Follow([mode      |-> IF c.state # "noStateChange" THEN "manual"
                          ELSE IF c.mode # "noModeChange" THEN c.mode ELSE r.mode,
            pin       |-> IF c.state # "noStateChange" THEN c.state = "on" ELSE r.pin,
            price     |-> IF c.price # NoPrice THEN c.price ELSE r.price,
            threshold |-> IF c.threshold # NoThreshold THEN c.threshold ELSE r.threshold])

Repriced(r, p) == Follow([r EXCEPT !.price = p])

-----------------------------------------------------------------------------
Init == relays \in [Relays -> [mode : {"manual"}, pin : BOOLEAN, price : {0}, threshold : {0}]]

Command(c) ==
    /\ c.relayNumber \in Relays
    /\ relays' = [relays EXCEPT ![c.relayNumber] = Commanded(relays[c.relayNumber], c)]

Reprice(p) == relays' = [r \in Relays |-> Repriced(relays[r], p)]

Next == \/ \E c \in Commands : Command(c)
        \/ \E p \in Prices : Reprice(p)

Spec == Init /\ [][Next]_relays

=============================================================================
