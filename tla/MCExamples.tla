----------------------------- MODULE MCExamples -----------------------------
(***************************************************************************)
(* The small programs and scripts of the repository for TLC.  They have    *)
(* nothing to do with each other, so a behaviour is one of Threading, of   *)
(* SystemCalls, of FinderApp or of DeviceNode, and the variables of the    *)
(* other three keep initial values.                                        *)
(***************************************************************************)
EXTENDS Threading

CONSTANTS MaxCalls, MaxLines, MaxFiles, Strings, Majors

ASSUME BoundAssumption ==
  /\ MaxCalls \in Nat /\ MaxLines \in Nat /\ MaxFiles \in Nat
  /\ Strings \subseteq [line : Nat, bare : Nat, cut : Nat]

VARIABLES
  example,   \* the program of this behaviour
  calls, waiting, printed, buffer, terminal, outputs, child, reaped, returned,
  interrupted,                                                 \* of SystemCalls
  NUMFILES, WRITESTR, step, next, dir, file, counts, result_txt, verdict,
  faults,                                                      \* of FinderApp
  group, module, node, admin, exitOk, service, server, sigterm, open, stopped,
  raced                                                        \* of DeviceNode

S == INSTANCE SystemCalls WITH file <- outputs, result <- returned
F == INSTANCE FinderApp
D == INSTANCE DeviceNode

\* A plain string, one that does not match itself, and ten lines.
MCStrings == {[line |-> 1, bare |-> 1, cut |-> 0], [line |-> 0, bare |-> 0, cut |-> 0],
              [line |-> 10, bare |-> 10, cut |-> 9]}

Svars == <<calls, waiting, printed, buffer, terminal, outputs, child, reaped,
           returned, interrupted>>
Fvars == <<NUMFILES, WRITESTR, step, next, dir, file, counts, result_txt, verdict,
           faults>>
Dvars == <<group, module, node, admin, exitOk, service, server, sigterm, open, stopped,
           raced>>
MCvars == <<example, vars, Svars, Fvars, Dvars>>

MCInit ==
  /\ example \in {"threading", "systemcalls", "finder-app", "device node"}
  /\ Init /\ S!Init /\ F!Init /\ D!Init
  /\ example # "finder-app" => NUMFILES = 0 /\ ~dir /\ WRITESTR = F!Plain
  /\ example # "device node" => group

MCNext ==
  /\ UNCHANGED example
  /\ \/ example = "threading" /\ Next /\ UNCHANGED <<Svars, Fvars, Dvars>>
     \/ example = "systemcalls" /\ S!Next /\ UNCHANGED <<vars, Fvars, Dvars>>
     \/ example = "finder-app" /\ F!Next /\ UNCHANGED <<vars, Svars, Dvars>>
     \/ example = "device node" /\ D!Next /\ UNCHANGED <<vars, Svars, Fvars>>

MCSpec == MCInit /\ [][MCNext]_MCvars /\ Fairness /\ S!Fairness

ReturnsWhenOver  == S!ReturnsWhenOver
LinesOnce        == S!LinesOnce
OutputGoesToFile == S!OutputGoesToFile
CallsReturn      == S!CallsReturn
VerdictExact     == F!VerdictExact

DeviceReached           == D!DeviceReached
LoadFailsOnlyOnRace     == D!LoadFailsOnlyOnRace
CrashOnlyWhileUnloading == D!CrashOnlyWhileUnloading
=============================================================================
