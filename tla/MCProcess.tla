----------------------------- MODULE MCProcess -----------------------------
(* The package-level state every database of a process shares, for TLC: the *)
(* registry and the key generator.  They have no variable in common, so a   *)
(* state of the process is a state of one and a state of the other, and     *)
(* each is explored while the other rests.  Four configurations, the third  *)
(* under another name, and a consumer of each name and of the default       *)
(* twice.                                                                   *)
EXTENDS Registry, UuidClock

TwoNames == {"default", "other"}
ConfigNames == [p \in Processes |-> IF p \in {"h3", "c3"} THEN "other" ELSE "default"]

Start == RegInit /\ ClockInit
RegistryMoves == ClockInit /\ RegNext /\ UNCHANGED clockVars
ClockMoves == RegInit /\ ClockNext /\ UNCHANGED regVars
OneAtATime == Start /\ [][RegistryMoves \/ ClockMoves]_<<regVars, clockVars>>
=============================================================================
