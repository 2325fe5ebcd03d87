----------------------------- MODULE DeviceNode -----------------------------
(***************************************************************************)
(* What is at /dev/aesdchar, which four programs change: the scripts       *)
(* aesdchar_load and aesdchar_unload, the server when it starts, serves a  *)
(* request or is stopped, and aesdsocket-start-stop.sh, which starts and   *)
(* stops the server.  One load or unload and one start-stop script run at  *)
(* a time, next to each other and to the server.                           *)
(*                                                                         *)
(* A node carries the major number it was made for; the kernel gives the   *)
(* module any free one each time it is loaded.  A node opens only while    *)
(* the module is loaded under that number.  The scripts and the server run *)
(* as root, so chgrp and chmod matter only by their failing.               *)
(***************************************************************************)
CONSTANTS
  Majors   \* major numbers that alloc_chrdev_region may give

VARIABLES
  group,    \* whether the group that the load script picks exists
  module,   \* the major number of the loaded module, as a set: {} if none is
  node,     \* what is at /dev/aesdchar
  admin,    \* where the load or unload script is
  exitOk,   \* whether the last load past insmod or modprobe ended with 0
  service,  \* where the start-stop script is: "idle" or "sleep"
  server,   \* "off", "running" or "crashed"
  sigterm,  \* whether SIGTERM is on its way to it
  open,     \* what its handler has open: "none", "device" or "regular"
  stopped,  \* history: the server was stopped since the rm or mknod of a load
  raced     \* history: the server made a file since the rm of a load

vars == <<group, module, node, admin, exitOk, service, server, sigterm, open,
          stopped, raced>>

Absent     == [type |-> "absent", major |-> {}]
Regular    == [type |-> "regular", major |-> {}]
CharDev(m) == [type |-> "char", major |-> m]

\* "staff" is picked because it is in /etc/group, "wheel" without a look.
Init ==
  /\ group \in BOOLEAN
  /\ module = {}
  /\ node = Absent
  /\ admin = "idle"
  /\ exitOk = TRUE
  /\ service = "idle"
  /\ server = "off"
  /\ sigterm = FALSE
  /\ open = "none"
  /\ stopped = FALSE
  /\ raced = FALSE

Opens == node.type = "char" /\ node.major = module

ServerSame == UNCHANGED <<group, service, server, sigterm, open>>
AdminSame  == UNCHANGED <<group, module, admin, exitOk>>

-----------------------------------------------------------------------------
(* aesdchar_load.                                                          *)

\* insmod, or modprobe where no aesdchar.ko lies next to the script, of a
\* module that is not loaded; else the script ends and nothing has changed.
Insmod(m) ==
  /\ admin = "idle" /\ module = {}
  /\ module' = {m}
  /\ admin' = "load rm"
  /\ UNCHANGED <<node, exitOk, stopped, raced>> /\ ServerSame

\* insmod refuses a module that is loaded; modprobe finds nothing to do, ends
\* with 0, and the script goes on to make the node again.
ModprobeLoaded ==
  /\ admin = "idle" /\ module # {}
  /\ admin' = "load rm"
  /\ UNCHANGED <<module, node, exitOk, stopped, raced>> /\ ServerSame

\* Fault: the stale node is not removed.
LoadRmMissing ==
  /\ admin = "load rm"
  /\ raced' = FALSE /\ stopped' = FALSE
  /\ admin' = "load mknod"
  /\ UNCHANGED <<module, node, exitOk>> /\ ServerSame

LoadRm ==
  /\ admin = "load rm"
  /\ node' = Absent
  /\ raced' = FALSE /\ stopped' = FALSE
  /\ admin' = "load mknod"
  /\ UNCHANGED <<module, exitOk>> /\ ServerSame

Mknod ==
  /\ admin = "load mknod" /\ node = Absent
  /\ node' = CharDev(module)
  /\ stopped' = FALSE
  /\ admin' = "load chmod"
  /\ UNCHANGED <<module, exitOk, raced>> /\ ServerSame

\* Fault: without set -e the script goes on.
MknodFailsGoesOn ==
  /\ admin = "load mknod" /\ node # Absent
  /\ admin' = "load chmod"
  /\ UNCHANGED <<module, node, exitOk, stopped, raced>> /\ ServerSame

\* Something is there already: the script ends, for set -e.
MknodFails ==
  /\ admin = "load mknod" /\ node # Absent
  /\ exitOk' = FALSE
  /\ admin' = "idle"
  /\ UNCHANGED <<module, node, stopped, raced>> /\ ServerSame

\* chgrp, which fails for a group that does not exist too, and chmod.
LoadChmod ==
  /\ admin = "load chmod"
  /\ exitOk' = (group /\ node # Absent)
  /\ admin' = "idle"
  /\ UNCHANGED <<module, node, stopped, raced>> /\ ServerSame

-----------------------------------------------------------------------------
(* aesdchar_unload.                                                        *)

\* rmmod, or else the script ends and nothing has changed.
Rmmod ==
  /\ admin = "idle" /\ module # {}
  /\ open # "device"
  /\ module' = {}
  /\ admin' = "unload rm"
  /\ UNCHANGED <<node, exitOk, stopped, raced>> /\ ServerSame

\* Fault: the node stays.
UnloadRmMissing ==
  /\ admin = "unload rm"
  /\ admin' = "idle"
  /\ UNCHANGED <<module, node, exitOk, stopped, raced>> /\ ServerSame

UnloadRm ==
  /\ admin = "unload rm"
  /\ node' = Absent
  /\ admin' = "idle"
  /\ UNCHANGED <<module, exitOk, stopped, raced>> /\ ServerSame

-----------------------------------------------------------------------------
(* The server.                                                             *)

\* open(2) with O_CREAT: makes a regular file where nothing is.
CreatesFile ==
  /\ node' = IF node = Absent THEN Regular ELSE node
  /\ raced' = (raced \/ node = Absent)

\* ConfigureSocket calls creat, whose result is ignored.
Started ==
  IF server = "running" THEN UNCHANGED <<server, node, raced>>
  ELSE server' = "running" /\ CreatesFile

\* A thread's fopen(dataFile, "a+").
OpenFile ==
  /\ server = "running" /\ open = "none"
  /\ node.type = "char" => Opens
  /\ CreatesFile
  /\ open' = IF Opens THEN "device" ELSE "regular"
  /\ UNCHANGED <<service, server, sigterm, stopped>> /\ AdminSame

\* fopen returns NULL, which fileno, fwrite and rewind do not survive.
OpenFails ==
  /\ server = "running" /\ open = "none"
  /\ node.type = "char" /\ ~Opens
  /\ server' = "crashed"
  /\ sigterm' = FALSE
  /\ UNCHANGED <<node, service, open, stopped, raced>> /\ AdminSame

CloseFile ==
  /\ open # "none"
  /\ open' = "none"
  /\ UNCHANGED <<node, service, server, sigterm, stopped, raced>> /\ AdminSame

signalHandler ==
  /\ sigterm
  /\ node' = Absent
  /\ server' = "off" /\ open' = "none" /\ sigterm' = FALSE
  /\ stopped' = TRUE
  /\ UNCHANGED <<service, raced>> /\ AdminSame

-----------------------------------------------------------------------------
(* aesdsocket-start-stop.sh.                                               *)

\* start-stop-daemon -S starts the server unless one is running.
ServiceStart ==
  /\ service = "idle"
  /\ Started
  /\ UNCHANGED <<service, sigterm, open, stopped>> /\ AdminSame

\* start-stop-daemon -K; restart goes on to sleep.
ServiceStop ==
  /\ service = "idle"
  /\ sigterm' = (server = "running")
  /\ service' \in {"idle", "sleep"}
  /\ UNCHANGED <<node, server, open, stopped, raced>> /\ AdminSame

\* The sleep of a restart is over.
RestartStart ==
  /\ service = "sleep"
  /\ service' = "idle"
  /\ Started
  /\ UNCHANGED <<sigterm, open, stopped>> /\ AdminSame

Next ==
  \/ (\E m \in Majors : Insmod(m)) \/ ModprobeLoaded
  \/ LoadRm \/ Mknod \/ MknodFails \/ LoadChmod
  \/ Rmmod \/ UnloadRm
  \/ OpenFile \/ OpenFails \/ CloseFile \/ signalHandler
  \/ ServiceStart \/ ServiceStop \/ RestartStart

Spec == Init /\ [][Next]_vars

-----------------------------------------------------------------------------
(* Properties.                                                             *)

(***************************************************************************)
(* While the module is loaded and no script is at work the node leads to   *)
(* it, whatever the server did during the load and since.  Two cases       *)
(* excepted: the server was stopped after the node was made, for           *)
(* signalHandler removes it and neither a start nor insmod makes it again  *)
(* (a load through modprobe does); or the last load lost the race for the  *)
(* name against the server, and has said so.                               *)
(***************************************************************************)
DeviceReached ==
  admin = "idle" /\ module # {} => Opens \/ stopped \/ (raced /\ ~exitOk)

(***************************************************************************)
(* A load that has got past insmod or modprobe fails only if the group it  *)
(* picked does not exist, if the server makes a file between its rm and    *)
(* its mknod, or if the server is stopped before its chmod.  What was at   *)
(* /dev/aesdchar before does not matter.                                   *)
(***************************************************************************)
LoadFailsOnlyOnRace == admin = "idle" /\ ~exitOk => ~group \/ raced \/ stopped

(***************************************************************************)
(* The server dies of fopen's NULL only in the moment between rmmod and rm *)
(* of an unload.                                                           *)
(***************************************************************************)
CrashOnlyWhileUnloading ==
  [][server = "running" /\ server' = "crashed" => admin = "unload rm"]_vars
=============================================================================
