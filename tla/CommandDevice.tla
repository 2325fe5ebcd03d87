--------------------------- MODULE CommandDevice ----------------------------
(***************************************************************************)
(* What /dev/aesdchar promises a process that writes to it: bytes are      *)
(* gathered until a write brings a newline, the bytes gathered then form   *)
(* one command, and the device keeps the last N commands in order.         *)
(* Commands are told apart by their length.                                *)
(***************************************************************************)
EXTENDS Naturals, Sequences

CONSTANT N          \* how many commands the device keeps

VARIABLES commands, \* the lengths of the commands kept, oldest first
          pending   \* how many bytes wait for their newline

Init ==
  /\ commands = << >>
  /\ pending = 0

\* A write whose bytes hold no newline.
Gather ==
  /\ pending' \in Nat
  /\ pending' >= pending
  /\ UNCHANGED commands

\* A write whose bytes hold a newline: its bytes end the pending command.
Complete ==
  \E last \in {commands'[Len(commands')]} :
    /\ last \in Nat
    /\ last > pending
    /\ commands' = Append(IF Len(commands) = N THEN Tail(commands) ELSE commands,
                          last)
    /\ pending' = 0

\* The driver is unloaded.
Reset ==
  /\ commands' = << >>
  /\ pending' = 0

Next == Reset \/ Gather \/ Complete

Spec == Init /\ [][Next]_<<commands, pending>>
=============================================================================
