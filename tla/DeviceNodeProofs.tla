-------------------------- MODULE DeviceNodeProofs --------------------------
(***************************************************************************)
(* What DeviceNode says of a load, an unload and the server next to them,  *)
(* for any set of major numbers.                                           *)
(***************************************************************************)
EXTENDS MCExamples, TLAPS

Loading == admin \in {"load rm", "load mknod", "load chmod"}

TypeOK ==
  /\ group \in BOOLEAN
  /\ module = {} \/ \E m \in Majors : module = {m}
  /\ node = D!Absent \/ node = D!Regular \/ \E m \in Majors : node = D!CharDev({m})
  /\ admin \in {"idle", "load rm", "load mknod", "load chmod", "unload rm"}
  /\ exitOk \in BOOLEAN
  /\ stopped \in BOOLEAN
  /\ raced \in BOOLEAN

\* Where the script is says whether the module is loaded.
ModuleThere ==
  /\ Loading => module # {}
  /\ admin = "unload rm" => module = {}

\* A node that does not open is there only between rmmod and rm: this is what
\* makes the rm of a load find no node of an earlier major number.
StaleNode == node.type = "char" /\ ~D!Opens => admin = "unload rm"

\* What is known of the node and of the server while a load is under way.
LoadUnderWay ==
  /\ admin = "load mknod" /\ node # D!Absent => raced
  /\ admin = "load chmod" => D!Opens \/ stopped

\* The verdict of the last load, which an unload carries along.
Verdict ==
  /\ DeviceReached
  /\ admin \in {"idle", "unload rm"} /\ ~exitOk => ~group \/ raced \/ stopped

IInv == TypeOK /\ ModuleThere /\ StaleNode /\ LoadUnderWay /\ Verdict

-----------------------------------------------------------------------------
LEMMA Initially == D!Init => IInv
<1> SUFFICES ASSUME D!Init PROVE IInv
  OBVIOUS
<1> USE DEF D!Init
<1>1. TypeOK
  BY DEF TypeOK
<1>2. ModuleThere /\ LoadUnderWay /\ Verdict
  BY DEF ModuleThere, LoadUnderWay, Verdict, DeviceReached, D!DeviceReached, Loading
<1>3. node.type = "absent"
  BY DEF D!Absent
<1>4. StaleNode
  BY <1>3 DEF StaleNode
<1> QED
  BY <1>1, <1>2, <1>4 DEF IInv

\* Three kinds of nodes, told apart by their types.
LEMMA NodeKinds ==
  ASSUME TypeOK
  PROVE  /\ node = D!Absent \/ node = D!Regular \/ \E m \in Majors : node = D!CharDev({m})
         /\ D!Absent.type = "absent" /\ D!Regular.type = "regular"
         /\ \A m \in Majors : D!CharDev({m}).type = "char" /\ D!CharDev({m}).major = {m}
         /\ node = D!Absent <=> node.type = "absent"
         /\ node.type = "char" => node.major # {}
<1>1. node = D!Absent \/ node = D!Regular \/ \E m \in Majors : node = D!CharDev({m})
  BY DEF TypeOK
<1>2. D!Absent.type = "absent" /\ D!Regular.type = "regular"
  BY DEF D!Absent, D!Regular
<1>3. \A m \in Majors : D!CharDev({m}).type = "char" /\ D!CharDev({m}).major = {m}
  BY DEF D!CharDev
<1> QED
  BY <1>1, <1>2, <1>3

\* The steps of the load script.
LEMMA LoadStep ==
  ASSUME IInv,
         \/ (\E m \in Majors : D!Insmod(m)) \/ D!ModprobeLoaded
         \/ D!LoadRm \/ D!Mknod \/ D!MknodFails \/ D!LoadChmod
  PROVE  IInv'
<1> USE NodeKinds DEF IInv, TypeOK, ModuleThere, StaleNode,
        LoadUnderWay, Verdict, DeviceReached, D!DeviceReached, Loading, D!Opens
<1>1. ASSUME NEW m \in Majors, D!Insmod(m)
      PROVE  IInv'
  BY <1>1 DEF D!Insmod, D!ServerSame
<1>2. CASE D!LoadRm
  BY <1>2 DEF D!LoadRm, D!ServerSame
<1>3. CASE D!Mknod
  <2>1. PICK m \in Majors : module = {m}
    BY <1>3 DEF D!Mknod
  <2>2. node' = D!CharDev({m}) /\ module' = {m}
    BY <1>3, <2>1 DEF D!Mknod
  <2> QED
    BY <1>3, <2>1, <2>2 DEF D!Mknod, D!ServerSame
<1>4. CASE D!MknodFails
  BY <1>4 DEF D!MknodFails, D!ServerSame
<1>5. CASE D!LoadChmod
  BY <1>5 DEF D!LoadChmod, D!ServerSame
<1>6. CASE D!ModprobeLoaded
  BY <1>6 DEF D!ModprobeLoaded, D!ServerSame
<1> QED
  BY <1>1, <1>2, <1>3, <1>4, <1>5, <1>6

\* The steps of the unload script.
LEMMA UnloadStep ==
  ASSUME IInv, D!Rmmod \/ D!UnloadRm
  PROVE  IInv'
<1> USE NodeKinds DEF IInv, TypeOK, ModuleThere, StaleNode,
        LoadUnderWay, Verdict, DeviceReached, D!DeviceReached, Loading, D!Opens
<1>1. CASE D!Rmmod
  BY <1>1 DEF D!Rmmod, D!ServerSame
<1>2. CASE D!UnloadRm
  BY <1>2 DEF D!UnloadRm, D!ServerSame
<1> QED
  BY <1>1, <1>2

\* The steps that make a file where nothing is, or change nothing here.
LEMMA FileStep ==
  ASSUME IInv, D!AdminSame, UNCHANGED stopped, D!CreatesFile \/ UNCHANGED <<node, raced>>
  PROVE  IInv'
<1> USE NodeKinds DEF IInv, TypeOK, ModuleThere, StaleNode,
        LoadUnderWay, Verdict, DeviceReached, D!DeviceReached, Loading, D!Opens,
        D!AdminSame
<1>1. CASE D!CreatesFile
  BY <1>1 DEF D!CreatesFile
<1>2. CASE UNCHANGED <<node, raced>>
  BY <1>2
<1> QED
  BY <1>1, <1>2

\* The steps of the server and of the script that starts and stops it.
LEMMA ServerStep ==
  ASSUME IInv,
         \/ D!OpenFile \/ D!OpenFails \/ D!CloseFile \/ D!signalHandler
         \/ D!ServiceStart \/ D!ServiceStop \/ D!RestartStart
  PROVE  IInv'
<1>1. CASE D!signalHandler
  BY <1>1, NodeKinds DEF D!signalHandler, D!AdminSame, IInv, TypeOK,
     ModuleThere, StaleNode, LoadUnderWay, Verdict, DeviceReached, D!DeviceReached,
     Loading, D!Opens
<1>2. CASE D!OpenFile \/ D!OpenFails \/ D!CloseFile
  BY <1>2, FileStep DEF D!OpenFile, D!OpenFails, D!CloseFile
<1>3. CASE D!ServiceStart \/ D!ServiceStop \/ D!RestartStart
  BY <1>3, FileStep DEF D!ServiceStart, D!ServiceStop, D!RestartStart, D!Started
<1> QED
  BY <1>1, <1>2, <1>3

LEMMA Stuttering ==
  ASSUME IInv, UNCHANGED D!vars
  PROVE  IInv'
BY FileStep DEF D!vars, D!AdminSame

LEMMA Inductive == D!Spec => []IInv
<1>1. IInv /\ [D!Next]_(D!vars) => IInv'
  BY LoadStep, UnloadStep, ServerStep, Stuttering DEF D!Next
<1> QED
  BY Initially, <1>1, PTL DEF D!Spec

-----------------------------------------------------------------------------
(***************************************************************************)
(* While the module is loaded and no script is at work the node leads to   *)
(* it, unless the server was stopped after the mknod of aesdchar_load or   *)
(* the load has failed against a file of the server's: whatever major      *)
(* numbers the kernel gives, through insmod or modprobe, and however the   *)
(* steps of the scripts interleave with the server's.                      *)
(***************************************************************************)
THEOREM NodeReached == D!Spec => []DeviceReached
<1>1. IInv => DeviceReached
  BY DEF IInv, Verdict
<1> QED
  BY Inductive, <1>1, PTL

(***************************************************************************)
(* A load that has got past insmod or modprobe fails only because the      *)
(* group for chgrp does not exist or because of the server: it made a file *)
(* between the rm and the mknod of aesdchar_load, or was stopped before    *)
(* its chmod.                                                              *)
(***************************************************************************)
THEOREM LoadFailure == D!Spec => []LoadFailsOnlyOnRace
<1>1. IInv => LoadFailsOnlyOnRace
  BY DEF IInv, Verdict, LoadFailsOnlyOnRace, D!LoadFailsOnlyOnRace
<1> QED
  BY Inductive, <1>1, PTL

(***************************************************************************)
(* The server dies of the NULL of fopen only between rmmod and rm of       *)
(* aesdchar_unload: a node for a module that is gone exists at no other    *)
(* time.                                                                   *)
(***************************************************************************)
THEOREM CrashWhileUnloading == D!Spec => CrashOnlyWhileUnloading
<1>1. ASSUME IInv, [D!Next]_(D!vars)
      PROVE  [server = "running" /\ server' = "crashed" => admin = "unload rm"]_(D!vars)
  <2> SUFFICES ASSUME D!Next, server = "running", server' = "crashed"
               PROVE  admin = "unload rm"
    BY <1>1
  <2>1. D!OpenFails
    BY DEF D!Next, D!Insmod, D!ModprobeLoaded, D!LoadRm, D!Mknod, D!MknodFails,
       D!LoadChmod, D!Rmmod, D!UnloadRm, D!ServerSame, D!OpenFile, D!CloseFile,
       D!signalHandler, D!ServiceStart, D!ServiceStop, D!RestartStart, D!Started
  <2> QED
    BY <1>1, <2>1 DEF D!OpenFails, IInv, StaleNode
<1> QED
  BY Inductive, <1>1, PTL DEF D!Spec, CrashOnlyWhileUnloading, D!CrashOnlyWhileUnloading
=============================================================================
