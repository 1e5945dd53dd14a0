------------------------------- MODULE Console -------------------------------
(***************************************************************************)
(* The relay command of the serial console (CommandInterface.cpp), as the  *)
(* debug task runs it.  The other commands print, set the console's own    *)
(* LED or restart the chip.                                                *)
(***************************************************************************)
EXTENDS Messages

CONSTANTS Doubles,      \* what a double that was never assigned may read
          NotANumber    \* a word that strtol does not read to its end

\* "relay [number] [setting]"; the setting is "" when there are two words.
Line == [number : Int \cup {NotANumber}, setting : {"on", "off", "auto", "manual", "other", ""}]

\* What relayHandler sends for a line: nothing, or a command whose threshold and
\* price are whatever the stack held.  A setting it does not know is logged, and
\* the command sent all the same.
CommandsOf(line) ==
    IF line.number = NotANumber THEN {}
    ELSE [relayNumber : {line.number},
          state       : {IF line.setting \in {"on", "off"} THEN line.setting ELSE "noStateChange"},
          mode        : {CASE line.setting = "auto"   -> "automatic"
                           [] line.setting = "manual" -> "manual"
                           [] OTHER                   -> "noModeChange"},
          threshold   : Doubles,
          price       : Doubles]

\* A line that asks for no change: an inquiry, or a setting that was refused.
IsInquiry(line) == line.number # NotANumber /\ line.setting \in {"", "other"}
=============================================================================
