------------------------- MODULE ServerDeviceProofs -------------------------
(***************************************************************************)
(* Proofs about ServerDevice: the server's mutexLock makes its threads one *)
(* client of the driver at a time, so what AesdCharProofs shows for such a *)
(* client holds for any number of threads.                                 *)
(***************************************************************************)
EXTENDS ServerDevice, AesdCharProofs

Stages == {"none", "lock", "open", "write", "rewind", "seek", "sought", "read", "close",
           "unlock", "done"}

\* The stages with mutexLock held, and those with the file open.
InsideStages == {"open", "write", "rewind", "seek", "sought", "read", "close", "unlock"}
OpenStages == InsideStages \ {"open", "unlock"}

\* Where a thread is in threadHandler, and where it is in the driver.
SessionOf(c) ==
  /\ stage[c] # "none" => packet[c] \in Packets
  /\ stage[c] \in InsideStages => mutexLock = c
  /\ pc[c] = "closed" <=> stage[c] \notin OpenStages
  /\ pc[c] \in ReadPC => stage[c] = "read"
  /\ pc[c] \in WritePC => stage[c] = "rewind" /\ frame[c].count = packet[c].len
  /\ pc[c] \in IoctlPC => stage[c] = "sought"
  /\ stage[c] \in {"write", "rewind"} => ~packet[c].seek
  /\ stage[c] \in {"seek", "sought"} => packet[c].seek

SessionInv == \A c \in Clients : SessionOf(c)

\* The variables of a session that the proofs about the driver need.
StageTypes ==
  /\ mutexLock \in Clients \cup {NULL}
  /\ stage \in [Clients -> Stages]
  /\ packet \in [Clients -> Packets \cup {NoPacket}]

-----------------------------------------------------------------------------
(* Every step of the server is a step of the driver's specification.       *)

\* What the fields of seek_params can be is what AESDCHAR_IOCSEEKTO can be given.
LEMMA SeekParamsAreCalls ==
  ASSUME NEW p \in Packets, p.seek
  PROVE  SeekParams(p.args) \subseteq SeekCmds
<1> DEFINE args == p.args
           U == 0..(UINT_MOD - 1)
<1>1. args \in Seq(Int32)
  BY PacketAssumption DEF LinePackets, SeekPackets
<1> HIDE DEF args
<1>2. \A i \in DOMAIN args : Uint32(args[i]) \in U
  <2> SUFFICES ASSUME NEW i \in DOMAIN args
               PROVE  Uint32(args[i]) \in U
    OBVIOUS
  <2>1. args[i] \in Int
    <3>1. args[i] \in Int32
      BY <1>1
    <3> QED
      BY <3>1, PacketAssumption DEF Int32
  <2> QED
    BY <2>1, PacketAssumption DEF Uint32
<1>3. Garbage \subseteq U
  BY PacketAssumption
<1> HIDE DEF U
<1>4. SeekParams(args) \subseteq U \X U
  BY <1>2, <1>3 DEF SeekParams
<1> QED
  BY <1>4, CallAssumption DEF U, args

\* A step of thread c, as a step of client c of the driver.
ClientStep(c) == Call(c) \/ Step(c) \/ Acquire(c)

LEMMA HandlerIsClient ==
  ASSUME StageTypes, SessionInv, NEW c \in Clients, Handler(c)
  PROVE  ClientStep(c) \/ UNCHANGED vars
<1>s. SessionOf(c)
  BY DEF SessionInv
<1>1. CASE Lock(c) \/ Sought(c) \/ Unlock(c)
  BY <1>1 DEF Lock, Sought, Unlock
<1>2. CASE Open(c) \/ Close(c)
  BY <1>2 DEF Open, Close, ClientStep, Call
<1>3. CASE Write(c)
  <2>1. packet[c] \in Packets /\ ~packet[c].seek
    BY <1>3, <1>s DEF Write, SessionOf
  <2>2. packet[c].len \in WriteCounts
    BY <2>1, CallAssumption
  <2>3. CASE packet[c].len = 0
    BY <1>3, <2>3 DEF Write
  <2>4. CASE packet[c].len # 0
    <3>1. aesd_write(c, packet[c].len)
      BY <1>3, <2>4 DEF Write
    <3> QED
      BY <3>1, <2>2 DEF ClientStep, Call
  <2> QED
    BY <2>3, <2>4
<1>4. CASE Rewind(c)
  <2>1. aesd_llseek(c, 0)
    BY <1>4 DEF Rewind
  <2> QED
    BY <2>1, CallAssumption DEF ClientStep, Call
<1>5. CASE Seek(c)
  <2>1. packet[c] \in Packets /\ packet[c].seek
    BY <1>5, <1>s DEF Seek, SessionOf
  <2>2. PICK seek_params \in SeekParams(packet[c].args) : aesd_ioctl(c, seek_params)
    BY <1>5 DEF Seek
  <2>3. seek_params \in SeekCmds
    BY <2>1, <2>2, SeekParamsAreCalls
  <2> QED
    BY <2>2, <2>3 DEF ClientStep, Call
<1>6. CASE Read(c)
  <2>1. \E count \in ReadCounts : aesd_read(c, count)
    BY <1>6 DEF Read
  <2> QED
    BY <2>1 DEF ClientStep, Call
<1>7. CASE FindOrEnd(c) \/ CopyAndSend(c)
  BY <1>7 DEF FindOrEnd, CopyAndSend, ClientStep, Step
<1>8. CASE CopyPacket(c)
  BY <1>8 DEF CopyPacket, ClientStep, Acquire
<1>9. CASE DriverStep(c)
  BY <1>9 DEF DriverStep, ClientStep, Step, Acquire
<1> QED
  BY <1>1, <1>2, <1>3, <1>4, <1>5, <1>6, <1>7, <1>8, <1>9 DEF Handler

LEMMA SystemIsDriver ==
  ASSUME StageTypes, SessionInv, [SystemNext]_allVars
  PROVE  [Next]_vars
<1>1. CASE UNCHANGED allVars
  BY <1>1 DEF allVars
<1>2. CASE Load
  BY <1>2 DEF Load, Next
<1>3. ASSUME NEW c \in Clients, \E p \in Packets : Receive(c, p)
      PROVE  [Next]_vars
  BY <1>3 DEF Receive
<1>4. ASSUME NEW c \in Clients, Handler(c)
      PROVE  [Next]_vars
  BY <1>4, HandlerIsClient DEF Next, ClientStep
<1> QED
  BY <1>1, <1>2, <1>3, <1>4 DEF SystemNext

-----------------------------------------------------------------------------
(* The session of each thread.                                             *)

\* A step of thread c leaves the other threads where they are, and mutexLock
\* with the one of them that holds it.
LEMMA OtherThread ==
  ASSUME TypeOK, StageTypes, SessionInv, NEW c \in Clients, Handler(c),
         NEW d \in Clients, d # c
  PROVE  /\ pc'[d] = pc[d] /\ frame'[d] = frame[d] /\ f_pos'[d] = f_pos[d]
         /\ stage'[d] = stage[d] /\ packet' = packet
         /\ stage[d] \in InsideStages => mutexLock' = d
<1>1. pc'[d] = pc[d] /\ frame'[d] = frame[d] /\ f_pos'[d] = f_pos[d]
  <2>1. CASE ClientStep(c)
    BY <2>1, OtherClient DEF ClientStep
  <2>2. CASE UNCHANGED vars
    BY <2>2 DEF vars, files
  <2> QED
    BY <2>1, <2>2, HandlerIsClient
<1>2. stage'[d] = stage[d] /\ packet' = packet
  BY DEF StageTypes, Handler, Lock, Open, Write, Rewind, Seek, Sought, Read, FindOrEnd, CopyAndSend,
     Close, Unlock, CopyPacket, DriverStep, Stage, session
<1>3. stage[d] \in InsideStages => mutexLock' = d
  <2> SUFFICES ASSUME stage[d] \in InsideStages
               PROVE  mutexLock' = d
    OBVIOUS
  <2>1. mutexLock = d /\ d # NULL
    BY ClientAssumption DEF SessionInv, SessionOf
  <2>2. ~Lock(c)
    BY <2>1 DEF Lock
  <2>3. ~Unlock(c)
    BY <2>1 DEF Unlock, SessionInv, SessionOf, InsideStages
  <2> QED
    BY <2>1, <2>2, <2>3 DEF Handler, Open, Write, Rewind, Seek, Sought, Read, FindOrEnd,
       CopyAndSend, Close, CopyPacket, DriverStep, session
<1> QED
  BY <1>1, <1>2, <1>3

\* What the parts of a call do to the client that makes it.
LEMMA OwnStep ==
  ASSUME TypeOK, NEW c \in Clients
  PROVE  /\ \A label : Goto(c, label) => pc'[c] = label
         /\ \A r : Return(c, r) => pc'[c] = "idle"
         /\ \A label, f : Enter(c, label, f) => pc'[c] = label /\ frame'[c] = f
BY DEF TypeOK, FileTypes, Goto, Return, Enter

\* The steps inside a call of the driver, by the function they belong to.
LEMMA CallSteps ==
  ASSUME IInv, IInv', NEW c \in Clients, CopyPacket(c) \/ DriverStep(c)
  PROVE  \/ pc[c] \in ReadPC /\ pc'[c] \in ReadPC
         \/ pc[c] \in IoctlPC /\ pc'[c] \in IoctlPC \cup {"idle"}
         \/ pc[c] \in WritePC /\ pc'[c] = "idle"
         \/ pc[c] \in WritePC /\ pc'[c] \in WritePC /\ frame'[c].count = frame[c].count
<1>t. TypeOK /\ frame \in [Clients -> AnyFrame] /\ frame[c] \in Frames(pc[c])
  BY DEF IInv, TypeInv, TypeOK, FileTypes
<1>l. /\ "read_length" \in ReadPC /\ "read_copy" \in ReadPC
      /\ {"ioctl_lock", "ioctl_loop", "ioctl_entry"} = IoctlPC
      /\ {"write_lock", "write_unlock", "size_load", "size_store", "evict_free", "evict_clear",
          "add_out", "add_store", "add_in"} = WritePC
  BY DEF ReadPC, IoctlPC, WritePC, EvictPC, AddPC
<1>1. CASE CopyPacket(c)
  <2>1. WriteCopy(c)
    BY <1>1 DEF CopyPacket
  <2>2. PICK n \in 0..frame[c].count :
               /\ frame' = [frame EXCEPT ![c].retval = n]
               /\ Goto(c, IF tmp_nl' THEN AfterCopy ELSE "write_unlock")
    BY <2>1 DEF WriteCopy
  <2>3. pc[c] = "write_lock"
    BY <2>1 DEF WriteCopy
  <2>4. frame[c] \in WriteFrame
    BY <1>t, <1>l, <2>3, FrameKinds
  <2>5. frame'[c] = [frame[c] EXCEPT !.retval = n]
    BY <1>t, <2>2
  <2>6. frame'[c].count = frame[c].count
    BY <2>4, <2>5 DEF WriteFrame
  <2>7. pc'[c] \in WritePC
    BY <1>t, <1>l, <2>2, OwnStep DEF AfterCopy
  <2> QED
    BY <1>l, <2>3, <2>6, <2>7
<1>2. CASE ReadLength(c)
  BY <1>2, <1>t, <1>l, OwnStep DEF ReadLength
<1>3. CASE EvictFree(c) \/ EvictClear(c) \/ AddOut(c) \/ AddStore(c) \/ AddIn(c) \/ WriteUnlock(c)
  BY <1>3, <1>t, <1>l, OwnStep DEF EvictFree, EvictClear, AddOut, AddStore, AddIn, WriteUnlock
<1>4. CASE SizeLoad(c)
  <2>1. pc[c] = "size_load" /\ pc'[c] = "size_store"
    BY <1>4, <1>t, OwnStep DEF SizeLoad
  <2>2. frame[c] \in WriteFrame
    BY <1>t, <1>l, <2>1, FrameKinds
  <2>3. frame'[c] = [frame[c] EXCEPT !.loaded_size = buffer_size]
    BY <1>4, <1>t DEF SizeLoad
  <2>4. frame'[c].count = frame[c].count
    BY <2>2, <2>3 DEF WriteFrame
  <2> QED
    BY <1>l, <2>1, <2>4
<1>5. CASE SizeStore(c)
  BY <1>5, <1>t, <1>l, OwnStep DEF SizeStore
<1>6. CASE IoctlLock(c)
  BY <1>6, <1>t, <1>l, OwnStep DEF IoctlLock
<1>7. CASE IoctlLoop(c)
  <2>1. pc[c] = "ioctl_loop" /\ pc'[c] \in {"ioctl_loop", "ioctl_entry"}
    BY <1>7, <1>t, OwnStep DEF IoctlLoop
  <2> QED
    BY <1>l, <2>1
<1>8. CASE IoctlEntry(c)
  <2>1. pc[c] = "ioctl_entry" /\ pc'[c] = "idle"
    BY <1>8, <1>t, OwnStep DEF IoctlEntry
  <2> QED
    BY <1>l, <2>1
<1> QED
  BY <1>1, <1>2, <1>3, <1>4, <1>5, <1>6, <1>7, <1>8 DEF DriverStep

\* The functions of the driver have no label in common.
LEMMA LabelKinds ==
  /\ ReadPC \cap WritePC = {} /\ ReadPC \cap IoctlPC = {} /\ WritePC \cap IoctlPC = {}
  /\ \A l \in {"closed", "idle"} : l \notin ReadPC \cup WritePC \cup IoctlPC
  /\ "read_find" \in ReadPC /\ "read_length" \in ReadPC /\ "read_copy" \in ReadPC
  /\ "write_lock" \in WritePC /\ "ioctl_lock" \in IoctlPC
BY DEF ReadPC, WritePC, IoctlPC, EvictPC, AddPC

\* A step of thread c keeps its own session.
LEMMA OwnSession ==
  ASSUME IInv, IInv', StageTypes, SessionInv, NEW c \in Clients, Handler(c)
  PROVE  SessionOf(c)'
<1>t. TypeOK /\ pc \in [Clients -> Labels] /\ frame \in [Clients -> AnyFrame]
  BY DEF IInv, TypeInv, TypeOK, FileTypes
<1>s. SessionOf(c) /\ stage \in [Clients -> Stages] /\ packet \in [Clients -> Packets \cup {NoPacket}]
  BY DEF SessionInv, StageTypes
<1>l. \A l : Stage(c, l) => stage'[c] = l
  BY <1>s DEF Stage
<1>1. CASE Lock(c)
  BY <1>1, <1>s, <1>l DEF Lock, SessionOf, InsideStages, OpenStages, vars, files
<1>2. CASE Open(c)
  <2>1. pc'[c] = "idle" /\ stage[c] = "open" /\ mutexLock' = mutexLock /\ packet' = packet
        /\ stage'[c] = IF packet[c].seek THEN "seek" ELSE "write"
    BY <1>2, <1>t, <1>l, OwnStep DEF Open, aesd_open
  <2>2. packet[c].seek \in BOOLEAN
    BY <1>s, <2>1, PacketAssumption DEF SessionOf, LinePackets, SeekPackets
  <2> QED
    BY <2>1, <2>2, <1>s, LabelKinds DEF SessionOf, InsideStages, OpenStages
<1>3. CASE Write(c)
  <2>1. /\ stage[c] = "write" /\ stage'[c] = "rewind" /\ mutexLock' = mutexLock /\ packet' = packet
    BY <1>3, <1>l DEF Write
  <2>2. \/ pc'[c] = pc[c]
        \/ pc'[c] = "write_lock" /\ frame'[c].count = packet[c].len
    <3>1. CASE packet[c].len = 0
      BY <1>3, <3>1 DEF Write, vars, files
    <3>2. CASE packet[c].len # 0
      <4>1. aesd_write(c, packet[c].len) /\ pc'[c] = "write_lock"
        BY <1>3, <3>2 DEF Write
      <4>2. Enter(c, "write_lock", [count |-> packet[c].len, retval |-> 0, loaded_size |-> 0])
        BY <4>1, <1>t, OwnStep DEF aesd_write
      <4>3. frame'[c] = [count |-> packet[c].len, retval |-> 0, loaded_size |-> 0]
        BY <4>2, <1>t, OwnStep
      <4> QED
        BY <4>1, <4>3
    <3> QED
      BY <3>1, <3>2
  <2>3. pc[c] \notin ReadPC \cup WritePC \cup IoctlPC /\ pc[c] # "closed"
    BY <1>s, <2>1 DEF SessionOf, InsideStages, OpenStages
  <2> QED
    BY <2>1, <2>2, <2>3, <1>s, LabelKinds DEF SessionOf, InsideStages, OpenStages
<1>4. CASE Rewind(c)
  <2>1. /\ stage[c] = "rewind" /\ stage'[c] = "read" /\ mutexLock' = mutexLock /\ packet' = packet
        /\ pc'[c] = "idle"
    BY <1>4, <1>t, <1>l, OwnStep DEF Rewind, aesd_llseek
  <2> QED
    BY <2>1, <1>s, LabelKinds DEF SessionOf, InsideStages, OpenStages
<1>5. CASE Seek(c)
  <2>1. /\ stage[c] = "seek" /\ stage'[c] = "sought" /\ mutexLock' = mutexLock /\ packet' = packet
        /\ pc'[c] \in {"idle", "ioctl_lock"}
    BY <1>5, <1>t, <1>l, OwnStep DEF Seek, aesd_ioctl
  <2> QED
    BY <2>1, <1>s, LabelKinds DEF SessionOf, InsideStages, OpenStages
<1>6. CASE Sought(c)
  <2>1. /\ stage[c] = "sought" /\ stage'[c] = "read" /\ mutexLock' = mutexLock /\ packet' = packet
        /\ pc[c] = "idle" /\ pc'[c] = "idle"
    BY <1>6, <1>l DEF Sought, vars, files
  <2> QED
    BY <2>1, <1>s, LabelKinds DEF SessionOf, InsideStages, OpenStages
<1>7. CASE Read(c)
  <2>1. /\ stage[c] = "read" /\ stage' = stage /\ mutexLock' = mutexLock /\ packet' = packet
        /\ pc'[c] = "read_find"
    BY <1>7 DEF Read, session
  <2> QED
    BY <2>1, <1>s, LabelKinds DEF SessionOf, InsideStages, OpenStages
<1>8. CASE FindOrEnd(c)
  <2>1. /\ pc[c] = "read_find" /\ mutexLock' = mutexLock /\ packet' = packet
        /\ stage'[c] = IF pc'[c] = "idle" THEN "close" ELSE "read"
    BY <1>8, <1>l DEF FindOrEnd, ReadFind
  <2>2. pc'[c] \in {"idle", "read_find", "read_length"}
    BY <1>8, <1>t, OwnStep DEF FindOrEnd, ReadFind
  <2>3. stage[c] = "read"
    BY <2>1, <1>s, LabelKinds DEF SessionOf
  <2> QED
    BY <2>1, <2>2, <2>3, <1>s, LabelKinds DEF SessionOf, InsideStages, OpenStages
<1>9. CASE CopyAndSend(c)
  <2>1. /\ pc[c] = "read_copy" /\ stage' = stage /\ mutexLock' = mutexLock /\ packet' = packet
        /\ pc'[c] = "idle"
    BY <1>9, <1>t, OwnStep DEF CopyAndSend, ReadCopy
  <2>2. stage[c] = "read"
    BY <2>1, <1>s, LabelKinds DEF SessionOf
  <2> QED
    BY <2>1, <2>2, <1>s, LabelKinds DEF SessionOf, InsideStages, OpenStages
<1>10. CASE Close(c)
  <2>1. /\ stage[c] = "close" /\ stage'[c] = "unlock" /\ mutexLock' = mutexLock /\ packet' = packet
        /\ pc'[c] = "closed"
    BY <1>10, <1>t, <1>l, OwnStep DEF Close, aesd_release
  <2> QED
    BY <2>1, <1>s, LabelKinds DEF SessionOf, InsideStages, OpenStages
<1>11. CASE Unlock(c)
  <2>1. /\ stage[c] = "unlock" /\ stage'[c] = "done" /\ packet' = packet /\ pc' = pc
    BY <1>11, <1>l DEF Unlock, vars, files
  <2> QED
    BY <2>1, <1>s, LabelKinds DEF SessionOf, InsideStages, OpenStages
<1>12. CASE CopyPacket(c) \/ DriverStep(c)
  <2>1. /\ stage' = stage /\ mutexLock' = mutexLock /\ packet' = packet
    BY <1>12 DEF CopyPacket, DriverStep, session
  <2>2. \/ pc[c] \in ReadPC /\ pc'[c] \in ReadPC
        \/ pc[c] \in IoctlPC /\ pc'[c] \in IoctlPC \cup {"idle"}
        \/ pc[c] \in WritePC /\ pc'[c] = "idle"
        \/ pc[c] \in WritePC /\ pc'[c] \in WritePC /\ frame'[c].count = frame[c].count
    BY <1>12, CallSteps
  <2> QED
    BY <2>1, <2>2, <1>s, LabelKinds DEF SessionOf, InsideStages, OpenStages
<1> QED
  BY <1>1, <1>2, <1>3, <1>4, <1>5, <1>6, <1>7, <1>8, <1>9, <1>10, <1>11, <1>12 DEF Handler

\* Every step keeps the sessions.
LEMMA SessionStep ==
  ASSUME IInv, IInv', StageTypes, SessionInv, [SystemNext]_allVars
  PROVE  StageTypes' /\ SessionInv'
<1>1. CASE UNCHANGED allVars
  BY <1>1 DEF allVars, vars, files, session, StageTypes, SessionInv, SessionOf
<1>2. CASE Load
  BY <1>2 DEF Load, aesd_init_module, files, session, StageTypes, SessionInv, SessionOf
<1>3. ASSUME NEW c \in Clients, NEW p \in Packets, Receive(c, p)
      PROVE  StageTypes' /\ SessionInv'
  <2>1. /\ stage[c] \in {"none", "done"}
        /\ stage' = [stage EXCEPT ![c] = "lock"] /\ packet' = [packet EXCEPT ![c] = p]
        /\ mutexLock' = mutexLock /\ pc' = pc /\ frame' = frame
    BY <1>3 DEF Receive, Stage, vars, files
  <2>2. StageTypes'
    BY <2>1 DEF StageTypes, Stages
  <2>3. pc[c] = "closed"
    BY <2>1 DEF SessionInv, SessionOf, OpenStages, InsideStages
  <2>4. SessionOf(c)'
    BY <2>1, <2>3, LabelKinds DEF SessionOf, StageTypes, OpenStages, InsideStages
  <2>5. ASSUME NEW d \in Clients, d # c
        PROVE  SessionOf(d)'
    BY <2>1, <2>5 DEF SessionInv, SessionOf, StageTypes
  <2> QED
    BY <2>2, <2>4, <2>5 DEF SessionInv
<1>4. ASSUME NEW c \in Clients, Handler(c)
      PROVE  StageTypes' /\ SessionInv'
  <2>t. TypeOK
    BY DEF IInv, TypeInv
  <2>1. mutexLock' \in Clients \cup {NULL} /\ packet' = packet
    BY <1>4 DEF StageTypes, Handler, Lock, Open, Write, Rewind, Seek, Sought, Read, FindOrEnd, CopyAndSend,
       Close, Unlock, CopyPacket, DriverStep, session
  <2>2. \E l \in Stages : stage' = [stage EXCEPT ![c] = l]
    <3>1. stage[c] \in Stages /\ stage = [stage EXCEPT ![c] = stage[c]]
      BY DEF StageTypes
    <3>2. CASE stage' = stage
      BY <3>1, <3>2
    <3>3. CASE stage' # stage
      BY <1>4, <3>3 DEF Handler, Lock, Open, Write, Rewind, Seek, Sought, Read, FindOrEnd,
         CopyAndSend, Close, Unlock, CopyPacket, DriverStep, session, Stage, Stages
    <3> QED
      BY <3>2, <3>3
  <2>3. StageTypes'
    BY <2>1, <2>2 DEF StageTypes
  <2>4. SessionOf(c)'
    BY <1>4, OwnSession
  <2>5. ASSUME NEW d \in Clients, d # c
        PROVE  SessionOf(d)'
    <3>1. /\ pc'[d] = pc[d] /\ frame'[d] = frame[d]
          /\ stage'[d] = stage[d] /\ packet' = packet
          /\ stage[d] \in InsideStages => mutexLock' = d
      BY <1>4, <2>5, <2>t, OtherThread
    <3>2. SessionOf(d)
      BY DEF SessionInv
    <3> QED
      BY <3>1, <3>2 DEF SessionOf
  <2> QED
    BY <2>3, <2>4, <2>5 DEF SessionInv
<1> QED
  BY <1>1, <1>2, <1>3, <1>4 DEF SystemNext

LEMMA SessionInit == SystemInit => IInv /\ StageTypes /\ SessionInv
<1> SUFFICES ASSUME SystemInit
             PROVE  IInv /\ StageTypes /\ SessionInv
  OBVIOUS
<1>1. IInv
  BY TypeInit, LockInit, DataInit DEF SystemInit, IInv
<1>2. StageTypes
  BY DEF SystemInit, StageTypes, Stages
<1>3. SessionInv
  BY LabelKinds DEF SystemInit, Init, SessionInv, SessionOf, InsideStages, OpenStages
<1> QED
  BY <1>1, <1>2, <1>3

LEMMA DriverStepKeeps == IInv /\ [Next]_vars => IInv'
BY TypeStep, LockStep, DataStep, LostStep DEF IInv

LEMMA SystemInductive == SystemSpec => [](IInv /\ StageTypes /\ SessionInv)
<1>1. IInv /\ StageTypes /\ SessionInv /\ [SystemNext]_allVars
        => IInv' /\ StageTypes' /\ SessionInv'
  BY SystemIsDriver, DriverStepKeeps, SessionStep
<1> QED
  BY <1>1, SessionInit, PTL DEF SystemSpec

\* The server makes no call that AesdChar does not know: all that is proved of
\* the driver, for any clients, is true of it below the server.
THEOREM ServerUsesDriver == SystemSpec => Spec
<1>1. SystemInit => Init
  BY DEF SystemInit
<1>2. StageTypes /\ SessionInv /\ [SystemNext]_allVars => [Next]_vars
  BY SystemIsDriver
<1> QED
  BY <1>1, <1>2, SystemInductive, PTL DEF SystemSpec, Spec

\* mutexLock lets no two threads have the device open at the same time.
THEOREM ServerAlone == SystemSpec => []Alone
<1>1. SessionInv => Alone
  BY DEF SessionInv, SessionOf, Alone, OpenStages
<1> QED
  BY <1>1, SystemInductive, PTL

(***************************************************************************)
(* Under the server aesd_read never copies from memory that has been freed *)
(* nor past a block, for any number of threads and in the wrapped buffer:  *)
(* mutexLock stands in for the lock that aesd_read does not take.          *)
(***************************************************************************)
THEOREM ServerReadsLiveMemory == SystemSpec => []ReadsLiveMemory
BY ServerUsesDriver, ServerAlone, DriverMemoryAlone, PTL

\* And every read of a thread copies the byte at its position.
THEOREM ServerReadsRightByte == SystemSpec => ReadsRightByte
BY ServerUsesDriver, ServerAlone, DriverReadsAlone, PTL

-----------------------------------------------------------------------------
(* The bytes in the driver's memory.                                       *)

HistoryTypes ==
  /\ number \in [Clients -> Nat]
  /\ packets \in Nat
  /\ bytes \in [Ptr -> Seq(Nat)]
  /\ log \in Seq(Seq(Nat))
  /\ pending \in Seq(Nat)
  /\ seen \in [Clients -> Nat]

\* The last N of the first k elements of a sequence.
LastOf(l, k) == IF k > N THEN SubSeq(l, k - N + 1, k) ELSE SubSeq(l, 1, k)

\* The commands that the device keeps, as bytes.
Stored == LastOf(log, Len(log))

\* The blocks hold the bytes of the commands that are kept, in their order,
\* and the bytes that wait for a newline.
BlocksHold ==
  /\ Count(Settled) = Len(Stored)
  /\ \A k \in 1..Len(Stored) :
       /\ LogOf(Settled)[k].size = Len(Stored[k])
       /\ bytes[LogOf(Settled)[k].buffptr] = Stored[k]
  /\ Len(pending) = IF Adding THEN 0 ELSE tmp_size
  /\ ~Adding /\ tmp_size > 0 => bytes[tmp_buf] = pending

BytesInv ==
  /\ ~nomem
  /\ ~loaded => log = << >> /\ pending = << >>
  /\ loaded => BlocksHold

LEMMA KeptIs == \A k : Kept(k) = LastOf(log, k)
BY DEF Kept, LastOf

LEMMA LastOfIs ==
  ASSUME NEW T, NEW l \in Seq(T), NEW k \in 0..Len(l)
  PROVE  LET n == IF k > N THEN N ELSE k
         IN  /\ LastOf(l, k) \in Seq(T)
             /\ Len(LastOf(l, k)) = n
             /\ \A i \in 1..n : LastOf(l, k)[i] = l[k - n + i]
<1>n. N \in Nat /\ N > 0 /\ Len(l) \in Nat /\ k \in Nat /\ k <= Len(l)
  BY NAssumption
<1>1. CASE k > N
  <2> DEFINE m == k - N + 1
  <2>1. m \in 1..Len(l) /\ k \in m..Len(l) /\ k - m + 1 = N
    BY <1>n, <1>1
  <2>2. LastOf(l, k) = SubSeq(l, m, k)
    BY <1>1 DEF LastOf
  <2> HIDE DEF m
  <2>3. /\ SubSeq(l, m, k) \in Seq(T) /\ Len(SubSeq(l, m, k)) = N
        /\ \A i \in 1..N : SubSeq(l, m, k)[i] = l[m + i - 1]
    BY <1>n, <2>1
  <2>4. \A i \in 1..N : m + i - 1 = k - N + i
    BY <1>n, <1>1 DEF m
  <2> QED
    BY <1>1, <2>2, <2>3, <2>4
<1>2. CASE ~(k > N)
  <2>2. LastOf(l, k) = SubSeq(l, 1, k)
    BY <1>2 DEF LastOf
  <2>3. /\ SubSeq(l, 1, k) \in Seq(T) /\ Len(SubSeq(l, 1, k)) = k
        /\ \A i \in 1..k : SubSeq(l, 1, k)[i] = l[i]
    BY <1>n
  <2>4. \A i \in 1..k : k - k + i = i
    BY <1>n
  <2> QED
    BY <1>2, <2>2, <2>3, <2>4
<1> QED
  BY <1>1, <1>2

\* A command more does not change what was kept before it.
LEMMA LastOfLonger ==
  ASSUME NEW T, NEW l \in Seq(T), NEW x \in T, NEW k \in 0..Len(l)
  PROVE  LastOf(Append(l, x), k) = LastOf(l, k)
<1> DEFINE r == Append(l, x)
           n == IF k > N THEN N ELSE k
           u == LastOf(r, k)
           v == LastOf(l, k)
<1>1. r \in Seq(T) /\ Len(r) = Len(l) + 1 /\ \A i \in 1..Len(l) : r[i] = l[i]
  OBVIOUS
<1>2. k \in 0..Len(r) /\ n \in Nat /\ n <= k /\ k \in Nat /\ Len(l) \in Nat
  BY <1>1, NAssumption
<1> HIDE DEF r
<1>3. /\ u \in Seq(T) /\ Len(u) = n /\ \A i \in 1..n : u[i] = r[k - n + i]
  BY <1>1, <1>2, LastOfIs
<1>4. /\ v \in Seq(T) /\ Len(v) = n /\ \A i \in 1..n : v[i] = l[k - n + i]
  BY <1>2, LastOfIs
<1>5. \A i \in 1..n : k - n + i \in 1..Len(l)
  BY <1>2
<1> HIDE DEF u, v, n
<1>6. \A i \in 1..n : u[i] = v[i]
  BY <1>1, <1>3, <1>4, <1>5
<1>7. u = v
  BY <1>3, <1>4, <1>6, SeqEqual
<1> QED
  BY <1>7 DEF u, v, r

\* What is kept after a command more.
LEMMA LastOfAppend ==
  ASSUME NEW T, NEW l \in Seq(T), NEW x \in T
  PROVE  LET s == LastOf(l, Len(l))
             t == LastOf(Append(l, x), Len(l) + 1)
         IN  /\ s \in Seq(T) /\ Len(s) \in 0..N
             /\ t \in Seq(T)
             /\ Len(t) = IF Len(s) = N THEN N ELSE Len(s) + 1
             /\ t[Len(t)] = x
             /\ \A i \in 1..(Len(t) - 1) : t[i] = IF Len(s) = N THEN s[i + 1] ELSE s[i]
<1> DEFINE r == Append(l, x)
           L == Len(l)
           n == IF L > N THEN N ELSE L
           m == IF L + 1 > N THEN N ELSE L + 1
           s == LastOf(l, L)
           t == LastOf(r, L + 1)
<1>1. /\ r \in Seq(T) /\ Len(r) = L + 1 /\ r[L + 1] = x
      /\ \A i \in 1..L : r[i] = l[i]
  OBVIOUS
<1>2. L \in Nat /\ L \in 0..Len(l) /\ L + 1 \in 0..Len(r) /\ N \in Nat /\ N > 0
  BY <1>1, NAssumption
<1> HIDE DEF r, L
<1>3. s \in Seq(T) /\ Len(s) = n /\ \A i \in 1..n : s[i] = l[L - n + i]
  BY <1>2, LastOfIs
<1>4. t \in Seq(T) /\ Len(t) = m /\ \A i \in 1..m : t[i] = r[(L + 1) - m + i]
  BY <1>1, <1>2, LastOfIs
<1> HIDE DEF s, t
<1>5. n \in 0..N /\ m = (IF n = N THEN N ELSE n + 1) /\ m \in 1..m /\ (L + 1) - m + m = L + 1
  BY <1>2
<1>6. ASSUME NEW i \in 1..(m - 1)
      PROVE  t[i] = IF n = N THEN s[i + 1] ELSE s[i]
  <2>1. i \in 1..m /\ (L + 1) - m + i \in 1..L
    BY <1>2, <1>5
  <2>2. t[i] = l[(L + 1) - m + i]
    BY <1>1, <1>4, <2>1
  <2>3. CASE n = N
    <3>1. i + 1 \in 1..n /\ L - n + (i + 1) = (L + 1) - m + i
      BY <1>2, <1>5, <2>3
    <3>2. s[i + 1] = l[L - n + (i + 1)]
      BY <1>3, <3>1
    <3> QED
      BY <2>2, <2>3, <3>1, <3>2
  <2>4. CASE n # N
    <3>1. i \in 1..n /\ L - n + i = (L + 1) - m + i
      BY <1>2, <1>5, <2>4
    <3>2. s[i] = l[L - n + i]
      BY <1>3, <3>1
    <3> QED
      BY <2>2, <2>4, <3>1, <3>2
  <2> QED
    BY <2>3, <2>4
<1>7. t[m] = x
  BY <1>1, <1>4, <1>5
<1> HIDE DEF n, m
<1> QED
  BY <1>3, <1>4, <1>5, <1>6, <1>7 DEF s, t, r, L

\* Outside a write the commands kept are entries in use, each with its block.
LEMMA KeptEntries ==
  ASSUME IInv, loaded, Phase = "none", NEW k \in 1..Count(cb)
  PROVE  /\ SlotOf(cb, k - 1) \in Slots
         /\ LogOf(cb)[k] = cb.entry[SlotOf(cb, k - 1)]
         /\ Live(SlotOf(cb, k - 1))
         /\ LogOf(cb)[k].buffptr \in Ptr
         /\ heap[LogOf(cb)[k].buffptr] \in Nat /\ heap[LogOf(cb)[k].buffptr] > 0
<1> DEFINE E == [buffptr : Pointers, size : Nat]
           s == SlotOf(cb, k - 1)
<1>t. cb \in Buffers(E) /\ heap \in [Ptr -> Nat]
  BY DEF IInv, TypeInv, TypeOK, DeviceTypes
<1>1. OffsetsInv /\ EntriesInv
  BY DEF IInv, DataInv
<1>2. OffsetsAgree(cb)
  BY <1>1 DEF OffsetsInv, OffsetsAgree
<1>3. /\ s \in Slots /\ LogOf(cb)[k] = cb.entry[s]
      /\ ~cb.full => Count(cb) = cb.in_offs
      /\ Count(cb) \in 0..N
  <2> HIDE DEF E
  <2> QED BY <1>t, <1>2, LogOfBuffer
<1>4. cb.full \/ s < cb.in_offs
  <2>1. CASE ~cb.full
    <3>1. cb.out_offs = 0 /\ Count(cb) = cb.in_offs
      BY <1>2, <1>3, <2>1 DEF OffsetsAgree
    <3>2. s = k - 1
      BY <1>3, <3>1, NAssumption DEF SlotOf
    <3> QED
      BY <1>3, <3>1, <3>2, NAssumption
  <2> QED
    BY <2>1
<1>5. cb.entry[s].size > 0
  BY <1>1, <1>3, <1>4 DEF EntriesInv, InUse
<1>6. Live(s)
  BY <1>5 DEF Live
<1>7. cb.entry[s].buffptr \in Ptr /\ heap[cb.entry[s].buffptr] >= cb.entry[s].size
  BY <1>1, <1>3, <1>6 DEF EntriesInv
<1>8. cb.entry[s].size \in Nat /\ heap[cb.entry[s].buffptr] \in Nat
  BY <1>t, <1>3, <1>7 DEF Buffers
<1>9. heap[cb.entry[s].buffptr] > 0
  <2> DEFINE h == heap[cb.entry[s].buffptr]
             z == cb.entry[s].size
  <2>1. h \in Nat /\ z \in Nat /\ h >= z /\ z > 0
    BY <1>5, <1>7, <1>8
  <2> HIDE DEF h, z
  <2>2. h > 0
    BY <2>1
  <2> QED
    BY <2>2 DEF h
<1> QED
  BY <1>3, <1>6, <1>7, <1>8, <1>9

\* The bytes that a packet brings.
Brought(c) == [i \in 1..packet[c].len |-> number[c]]

\* What the copy of a packet does to the memory of the driver.
LEMMA CopyBytes ==
  ASSUME IInv, IInv', StageTypes, SessionInv, HistoryTypes, BytesInv,
         NEW c \in Clients, CopyPacket(c)
  PROVE  /\ loaded /\ loaded' /\ Phase = "none" /\ ~Adding /\ Settled = cb
         /\ Brought(c) \in Seq(Nat) /\ Len(Brought(c)) = packet[c].len
         /\ packet[c].len \in Nat /\ packet[c].newline \in BOOLEAN
         /\ tmp_size \in Nat /\ tmp_size' = tmp_size + packet[c].len
         /\ bytes' \in [Ptr -> Seq(Nat)]
         /\ tmp_size' > 0 => bytes'[tmp_buf'] = pending \o Brought(c)
         /\ \A k \in 1..Count(cb) : bytes'[LogOf(cb)[k].buffptr] = bytes[LogOf(cb)[k].buffptr]
         /\ packet[c].newline =>
              packet[c].len > 0 /\ Adding' /\ Settled' = add_entry(cb, new_entry')
         /\ ~packet[c].newline => ~Adding' /\ Settled' = cb
<1> DEFINE len == packet[c].len
           new == Brought(c)
           before == IF tmp_size > 0 THEN bytes[tmp_buf] ELSE << >>
           free == {p \in Ptr : heap[p] = 0}
<1>t. /\ TypeOK /\ tmp_size \in Nat /\ tmp_nl \in BOOLEAN /\ heap \in [Ptr -> Nat]
      /\ pc \in [Clients -> Labels] /\ frame \in [Clients -> AnyFrame]
  BY DEF IInv, TypeInv, TypeOK, DeviceTypes, FileTypes
<1>w. WriteCopy(c)
  BY DEF CopyPacket
<1>1. cb' = cb /\ mx_lock = NULL /\ mx_lock' = c /\ loaded' = loaded /\ pc[c] = "write_lock"
  BY <1>w DEF WriteCopy
<1>2. loaded
  BY <1>1 DEF IInv, LockInv, UnloadedClosed
<1>3. Phase = "none" /\ OffsetsInv /\ PendingInv
  BY <1>1, <1>2, PhaseFree DEF IInv, DataInv
<1>4. ~Adding /\ Settled = cb
  BY <1>3, SettledByPhase DEF SettledIs, SettledBy, EvictPC
<1>5. SessionOf(c) /\ pc[c] \in WritePC
  BY <1>1, LabelKinds DEF SessionInv
<1>6. packet[c] \in Packets /\ ~packet[c].seek /\ frame[c].count = len
  BY <1>5 DEF SessionOf
<1>7. len \in Nat /\ packet[c].newline \in BOOLEAN
  BY <1>6, PacketAssumption DEF LinePackets, SeekPackets
<1>8. new \in Seq(Nat) /\ Len(new) = len
  <2>1. number[c] \in Nat
    BY DEF HistoryTypes
  <2>2. new = [i \in 1..len |-> number[c]]
    BY DEF Brought
  <2> HIDE DEF len, new
  <2> QED
    BY <1>7, <2>1, <2>2
<1>9. PICK n \in 0..frame[c].count, nl \in BOOLEAN :
        /\ nl => n > 0
        /\ tmp_size' = tmp_size + n
        /\ tmp_nl' = (tmp_nl \/ nl)
        /\ frame' = [frame EXCEPT ![c].retval = n]
        /\ Goto(c, IF tmp_nl' THEN AfterCopy ELSE "write_unlock")
  BY <1>w DEF WriteCopy
<1>10. n = len
  <2>1. frame[c] \in WriteFrame
    BY <1>5, FrameKinds DEF IInv, TypeInv, TypeOK, FileTypes
  <2>2. frame'[c].retval = n
    BY <1>t, <1>9, <2>1 DEF WriteFrame
  <2> QED
    BY <2>2 DEF CopyPacket
<1>11. ~tmp_nl /\ tmp_nl' = packet[c].newline
  BY <1>3 DEF PendingInv, CopyPacket
<1>12. packet[c].newline => len > 0
  BY <1>9, <1>10, <1>11
<1>13. packet[c].newline => Adding' /\ Settled' = add_entry(cb, new_entry')
  <2> SUFFICES ASSUME packet[c].newline
               PROVE  Adding' /\ Settled' = add_entry(cb, new_entry')
    OBVIOUS
  <2>1. Phase' = AfterCopy /\ AfterCopy \in {"evict_free", "add_out"}
    BY <1>t, <1>1, <1>9, <1>11, PhaseNext DEF AfterCopy, EvictPC, AddPC
  <2> QED
    BY <1>1, <2>1, SettledNext DEF SettledIs, SettledBy, EvictPC
<1>14. ~packet[c].newline => ~Adding' /\ Settled' = cb
  <2> SUFFICES ASSUME ~packet[c].newline
               PROVE  ~Adding' /\ Settled' = cb
    OBVIOUS
  <2>1. Phase' = "none"
    BY <1>t, <1>1, <1>9, <1>11, PhaseNext DEF EvictPC, AddPC
  <2> QED
    BY <1>1, <2>1, SettledNext DEF SettledIs, SettledBy, EvictPC
<1>15. /\ tmp_size > 0 => tmp_buf \in Ptr /\ bytes[tmp_buf] = pending
       /\ tmp_size = 0 => pending = << >>
  <2>1. BlocksHold
    BY <1>2 DEF BytesInv
  <2>2. ASSUME tmp_size > 0
        PROVE  tmp_buf \in Ptr /\ bytes[tmp_buf] = pending
    <3>1. tmp_buf # NULL
      BY <1>1, <1>2, <2>2 DEF IInv, LostInv
    <3>2. tmp_buf \in Ptr
      BY <1>3, <2>2, <3>1 DEF PendingInv
    <3> QED
      BY <1>4, <2>1, <2>2, <3>2 DEF BlocksHold
  <2>3. ASSUME tmp_size = 0
        PROVE  pending = << >>
    <3>1. Len(pending) = 0 /\ pending \in Seq(Nat)
      BY <1>4, <2>1, <2>3 DEF BlocksHold, HistoryTypes
    <3> QED
      BY <3>1
  <2> QED
    BY <2>2, <2>3
<1>16. before = pending /\ before \o new \in Seq(Nat)
  <2>1. before = pending
    BY <1>t, <1>15
  <2>2. pending \in Seq(Nat)
    BY DEF HistoryTypes
  <2> HIDE DEF before, new
  <2> QED
    BY <1>8, <2>1, <2>2
<1>17. bytes' = [bytes EXCEPT ![tmp_buf'] = before \o new]
  BY DEF CopyPacket, Brought
<1>b. bytes \in [Ptr -> Seq(Nat)]
  BY DEF HistoryTypes
<1>18. bytes' \in [Ptr -> Seq(Nat)]
  <2> HIDE DEF before, new
  <2> QED BY <1>16, <1>17, <1>b
<1>19. \/ tmp_size > 0 /\ tmp_buf' \in {tmp_buf} \cup free
       \/ tmp_size = 0 /\ len > 0 /\ tmp_buf' \in free
       \/ tmp_size = 0 /\ len = 0 /\ tmp_buf' = ZERO_SIZE_PTR
  BY <1>w, <1>6 DEF WriteCopy
<1>20. tmp_size' > 0 => bytes'[tmp_buf'] = pending \o new
  <2>1. tmp_size' > 0 => tmp_buf' \in Ptr
    BY <1>9, <1>10, <1>15, <1>19
  <2> HIDE DEF before, new
  <2> QED BY <2>1, <1>16, <1>17, <1>b
<1>21. ASSUME NEW k \in 1..Count(cb)
       PROVE  bytes'[LogOf(cb)[k].buffptr] = bytes[LogOf(cb)[k].buffptr]
  <2> DEFINE p == LogOf(cb)[k].buffptr
  <2>1. /\ SlotOf(cb, k - 1) \in Slots /\ Live(SlotOf(cb, k - 1))
        /\ LogOf(cb)[k] = cb.entry[SlotOf(cb, k - 1)]
        /\ p \in Ptr /\ heap[p] \in Nat /\ heap[p] > 0
    BY <1>2, <1>3, KeptEntries
  <2>2. p \notin free
    BY <2>1
  <2>3. tmp_size > 0 => p # tmp_buf
    <3>1. tmp_size > 0 => tmp_buf # NULL
      BY <1>15, ClientAssumption
    <3> QED
      BY <1>3, <2>1, <3>1 DEF PendingInv
  <2>4. p # tmp_buf'
    BY <1>19, <2>1, <2>2, <2>3, ClientAssumption
  <2> HIDE DEF before, new, p
  <2>5. bytes'[p] = bytes[p]
    BY <1>17, <1>b, <2>4, <2>1
  <2> QED
    BY <2>5 DEF p
<1> QED
  BY <1>t, <1>1, <1>2, <1>3, <1>4, <1>7, <1>8, <1>9, <1>10, <1>12, <1>13, <1>14, <1>18, <1>20, <1>21

\* A command that is completed: the entry that add_entry stores holds its bytes.
LEMMA BytesCompleted ==
  ASSUME IInv, IInv', StageTypes, SessionInv, HistoryTypes, BytesInv,
         NEW c \in Clients, CopyPacket(c), packet[c].newline
  PROVE  BlocksHold'
<1> DEFINE E == [buffptr : Pointers, size : Nat]
           x == pending \o Brought(c)
           e == new_entry'
           S == Stored
           T == LastOf(Append(log, x), Len(log) + 1)
           L == LogOf(cb)
           M == LogOf(Settled')
           n == Len(S)
           m == Len(T)
<1>1. /\ loaded /\ ~Adding /\ Settled = cb /\ Phase = "none"
      /\ Brought(c) \in Seq(Nat) /\ Len(Brought(c)) = packet[c].len
      /\ packet[c].len \in Nat /\ packet[c].len > 0
      /\ tmp_size \in Nat /\ tmp_size' = tmp_size + packet[c].len
      /\ tmp_size' > 0 => bytes'[tmp_buf'] = x
      /\ \A k \in 1..Count(cb) : bytes'[L[k].buffptr] = bytes[L[k].buffptr]
      /\ Adding' /\ Settled' = add_entry(cb, e)
  BY CopyBytes
<1>2. log \in Seq(Seq(Nat)) /\ pending \in Seq(Nat)
  BY DEF HistoryTypes
<1>3. x \in Seq(Nat) /\ Len(x) = tmp_size'
  <2>1. Len(pending) = tmp_size
    BY <1>1 DEF BytesInv, BlocksHold
  <2>b. Brought(c) \in Seq(Nat)
    BY <1>1
  <2>2. x \in Seq(Nat) /\ Len(x) = Len(pending) + Len(Brought(c))
    BY <1>2, <2>b, ConcatProperties
  <2> QED
    BY <1>1, <2>1, <2>2
<1>4. log' = Append(log, x) /\ pending' = << >>
  BY DEF CopyPacket, Brought
<1>5. Stored' = T
  <2>1. Len(Append(log, x)) = Len(log) + 1
    <3> HIDE DEF x
    <3> QED BY <1>2, <1>3
  <2> QED
    BY <1>4, <2>1 DEF Stored
<1>6. /\ n \in 0..N
      /\ m = IF n = N THEN N ELSE n + 1
      /\ T[m] = x
      /\ \A i \in 1..(m - 1) : T[i] = IF n = N THEN S[i + 1] ELSE S[i]
  <2> HIDE DEF x
  <2> QED
    BY <1>2, <1>3, LastOfAppend DEF Stored
<1>7. /\ Count(cb) = n
      /\ \A k \in 1..n : L[k].size = Len(S[k]) /\ bytes[L[k].buffptr] = S[k]
  BY <1>1 DEF BytesInv, BlocksHold
<1>t. cb \in Buffers(E) /\ e \in E
  <2>1. cb \in Buffers(E) /\ tmp_buf' \in Pointers /\ tmp_size' \in Nat
    BY DEF IInv, TypeInv, TypeOK, DeviceTypes
  <2> QED
    BY <2>1 DEF new_entry
<1>e. e.buffptr = tmp_buf' /\ e.size = tmp_size'
  BY DEF new_entry
<1>8. OffsetsAgree(cb)
  BY <1>1 DEF IInv, DataInv, OffsetsInv, OffsetsAgree
<1>9. L \in Seq(E) /\ Len(L) = n /\ (cb.full <=> n = N)
  <2> HIDE DEF E
  <2> QED BY <1>t, <1>7, <1>8, LogOfBuffer
<1>10. /\ M = IF cb.full THEN Append(Tail(L), e) ELSE Append(L, e)
       /\ OffsetsAgree(Settled')
       /\ Settled' \in Buffers(E)
  <2> HIDE DEF E, e
  <2>1. add_entry(cb, e) \in Buffers(E)
    BY <1>t, AddEntryFields
  <2>2. OffsetsAgree(add_entry(cb, e)) /\ LogOf(add_entry(cb, e)) =
              IF cb.full THEN Append(Tail(L), e) ELSE Append(L, e)
    BY <1>t, <1>8, LogOfAdd
  <2> QED
    BY <1>1, <2>1, <2>2
<1>11. Len(M) = Count(Settled')
  <2> HIDE DEF E, M
  <2>1. M = LogOf(Settled')
    BY DEF M
  <2> QED BY <1>10, <2>1, LogOfBuffer
<1>n. N \in Nat /\ N > 0
  BY NAssumption
<1> HIDE DEF E, e, L, M, S, T, n, m, x
<1>12. /\ Len(M) = m
       /\ M[m] = e
       /\ \A i \in 1..(m - 1) : M[i] = IF n = N THEN L[i + 1] ELSE L[i]
  <2>1. CASE n = N
    <3>1. Tail(L) \in Seq(E) /\ Len(Tail(L)) = N - 1 /\ \A i \in 1..(N - 1) : Tail(L)[i] = L[i + 1]
      BY <1>9, <1>n, <2>1
    <3>2. M = Append(Tail(L), e)
      BY <1>9, <1>10, <2>1
    <3>3. Len(M) = N /\ M[N] = e /\ \A i \in 1..(N - 1) : M[i] = Tail(L)[i]
      BY <1>t, <1>n, <3>1, <3>2
    <3> QED
      BY <1>6, <2>1, <3>1, <3>3
  <2>2. CASE n # N
    <3>1. M = Append(L, e)
      BY <1>9, <1>10, <2>2
    <3>2. Len(M) = n + 1 /\ M[n + 1] = e /\ \A i \in 1..n : M[i] = L[i]
      BY <1>t, <1>9, <3>1
    <3>3. m = n + 1 /\ m - 1 = n
      BY <1>6, <2>2
    <3> QED
      BY <2>2, <3>2, <3>3
  <2> QED
    BY <2>1, <2>2
<1>13. ASSUME NEW k \in 1..m
       PROVE  M[k].size = Len(T[k]) /\ bytes'[M[k].buffptr] = T[k]
  <2>1. CASE k = m
    <3>1. tmp_size' > 0
      BY <1>1
    <3> QED
      BY <1>1, <1>3, <1>6, <1>12, <1>e, <2>1, <3>1
  <2>2. CASE k # m
    <3>1. k \in 1..(m - 1)
      BY <1>6, <1>n, <2>2
    <3>2. CASE n = N
      <4>1. k + 1 \in 1..n /\ M[k] = L[k + 1] /\ T[k] = S[k + 1]
        BY <1>6, <1>12, <1>n, <3>1, <3>2
      <4>2. L[k + 1].size = Len(S[k + 1]) /\ bytes[L[k + 1].buffptr] = S[k + 1]
        BY <1>7, <4>1
      <4>3. bytes'[L[k + 1].buffptr] = bytes[L[k + 1].buffptr]
        BY <1>1, <1>7, <4>1
      <4> QED
        BY <4>1, <4>2, <4>3
    <3>3. CASE n # N
      <4>1. k \in 1..n /\ M[k] = L[k] /\ T[k] = S[k]
        BY <1>6, <1>12, <1>n, <3>1, <3>3
      <4>2. L[k].size = Len(S[k]) /\ bytes[L[k].buffptr] = S[k]
        BY <1>7, <4>1
      <4>3. bytes'[L[k].buffptr] = bytes[L[k].buffptr]
        BY <1>1, <1>7, <4>1
      <4> QED
        BY <4>1, <4>2, <4>3
    <3> QED
      BY <3>2, <3>3
  <2> QED
    BY <2>1, <2>2
<1>14. Len(pending') = 0
  BY <1>4
<1> QED
  BY <1>1, <1>5, <1>11, <1>12, <1>13, <1>14 DEF BlocksHold, M, m

\* Bytes without a newline: they wait in a block of their own.
LEMMA BytesGathered ==
  ASSUME IInv, IInv', StageTypes, SessionInv, HistoryTypes, BytesInv,
         NEW c \in Clients, CopyPacket(c), ~packet[c].newline
  PROVE  BlocksHold'
<1> DEFINE x == pending \o Brought(c)
<1>1. /\ loaded /\ ~Adding /\ Settled = cb
      /\ Brought(c) \in Seq(Nat) /\ Len(Brought(c)) = packet[c].len
      /\ packet[c].len \in Nat
      /\ tmp_size \in Nat /\ tmp_size' = tmp_size + packet[c].len
      /\ tmp_size' > 0 => bytes'[tmp_buf'] = x
      /\ \A k \in 1..Count(cb) : bytes'[LogOf(cb)[k].buffptr] = bytes[LogOf(cb)[k].buffptr]
      /\ ~Adding' /\ Settled' = cb
  BY CopyBytes
<1>2. pending \in Seq(Nat) /\ Len(pending) = tmp_size
  BY <1>1 DEF HistoryTypes, BytesInv, BlocksHold
<1>3. Len(x) = tmp_size'
  <2>b. Brought(c) \in Seq(Nat)
    BY <1>1
  <2>1. Len(x) = Len(pending) + Len(Brought(c))
    BY <1>2, <2>b, ConcatProperties
  <2> QED
    BY <1>1, <1>2, <2>1
<1>4. log' = log /\ pending' = x
  BY DEF CopyPacket, Brought
<1>5. Stored' = Stored
  BY <1>4 DEF Stored
<1>6. /\ Count(cb) = Len(Stored)
      /\ \A k \in 1..Len(Stored) : /\ LogOf(cb)[k].size = Len(Stored[k])
                                   /\ bytes[LogOf(cb)[k].buffptr] = Stored[k]
  BY <1>1 DEF BytesInv, BlocksHold
<1> HIDE DEF x
<1> QED
  BY <1>1, <1>3, <1>4, <1>5, <1>6 DEF BlocksHold

\* What the steps of a thread leave alone.
LEMMA HandlerLeaves ==
  ASSUME NEW c \in Clients, Handler(c)
  PROVE  /\ loaded' = loaded /\ nomem' = nomem /\ number' = number /\ packets' = packets
         /\ CopyPacket(c) \/ UNCHANGED <<bytes, log, pending>>
         /\ CopyPacket(c) \/ Lock(c) \/ seen' = seen
         /\ CopyAndSend(c) \/ reply' = reply
<1>1. CASE Lock(c) \/ Sought(c) \/ Unlock(c)
  BY <1>1 DEF Lock, Sought, Unlock, history, vars
<1>2. CASE Open(c) \/ Close(c) \/ Rewind(c)
  BY <1>2 DEF Open, Close, Rewind, aesd_open, aesd_release, aesd_llseek, history
<1>3. CASE Write(c) \/ Seek(c) \/ Read(c)
  BY <1>3 DEF Write, Seek, Read, aesd_write, aesd_ioctl, aesd_read, vars, history, session
<1>4. CASE FindOrEnd(c) \/ CopyAndSend(c)
  BY <1>4 DEF FindOrEnd, CopyAndSend, ReadFind, ReadCopy, history
<1>5. CASE CopyPacket(c)
  BY <1>5 DEF CopyPacket, WriteCopy, session
<1>6. CASE DriverStep(c)
  BY <1>6 DEF DriverStep, ReadLength, EvictFree, EvictClear, AddOut, AddStore, AddIn, WriteUnlock,
     SizeLoad, SizeStore, IoctlLock, IoctlLoop, IoctlEntry, session, history
<1> QED
  BY <1>1, <1>2, <1>3, <1>4, <1>5, <1>6 DEF Handler

\* The copy of a write is always the copy of a packet.
LEMMA CopiesAreOfPackets ==
  ASSUME IInv, StageTypes, SessionInv, NEW c \in Clients, Handler(c),
         NEW d \in Clients, WriteCopy(d)
  PROVE  CopyPacket(c)
<1>t. TypeOK
  BY DEF IInv, TypeInv
<1>1. pc[d] = "write_lock" /\ pc'[d] # "write_lock"
  <2>1. PICK l \in {AfterCopy, "write_unlock"} : Goto(d, l)
    BY DEF WriteCopy
  <2> QED
    BY <1>t, <2>1, OwnStep DEF WriteCopy, AfterCopy
<1>2. d = c
  BY <1>1, <1>t, OtherThread
<1>3. stage[c] = "rewind"
  BY <1>1, <1>2, LabelKinds DEF SessionInv, SessionOf
<1> QED
  BY <1>1, <1>2, <1>3 DEF Handler, Lock, Open, aesd_open, Write, Rewind, Seek, Sought, Read,
     FindOrEnd, ReadFind, CopyAndSend, ReadCopy, Close, Unlock, DriverStep, ReadLength, EvictFree,
     EvictClear, AddOut, AddStore, AddIn, WriteUnlock, SizeLoad, SizeStore, IoctlLock, IoctlLoop,
     IoctlEntry

\* A step that leaves the settled buffer, the bytes and the log.
LEMMA BlocksKept ==
  ASSUME BlocksHold, Settled' = Settled, TmpKept, ~nomem', UNCHANGED <<bytes, log, pending>>
  PROVE  BlocksHold'
<1>1. Stored' = Stored
  BY DEF Stored
<1>2. Len(pending') = IF Adding' THEN 0 ELSE tmp_size'
  BY DEF BlocksHold, TmpKept
<1>3. ~Adding' /\ tmp_size' > 0 => bytes'[tmp_buf'] = pending'
  BY DEF BlocksHold, TmpKept
<1> QED
  BY <1>1, <1>2, <1>3 DEF BlocksHold

\* Every step keeps the bytes.
LEMMA BytesStep ==
  ASSUME IInv, IInv', StageTypes, SessionInv, HistoryTypes, BytesInv, [SystemNext]_allVars
  PROVE  HistoryTypes' /\ BytesInv'
<1>t. TypeOK
  BY DEF IInv, TypeInv
<1>1. CASE UNCHANGED <<vars, number, packets, bytes, log, pending, seen>>
  <2>1. loaded' = loaded /\ Settled' = Settled /\ TmpKept /\ nomem' = nomem
    BY <1>1 DEF vars, device, files, Settled, Adding, At, TmpKept, new_entry
  <2>2. HistoryTypes'
    BY <1>1 DEF HistoryTypes
  <2> QED
    BY <1>1, <2>1, <2>2, BlocksKept DEF BytesInv
<1>2. CASE Load
  <2>1. /\ ~loaded /\ cb' = EmptyBuffer /\ tmp_size' = 0 /\ ~nomem' /\ pc' = pc
        /\ UNCHANGED <<number, packets, bytes, log, pending, seen>>
    BY <1>2 DEF Load, aesd_init_module, files, session, history
  <2>2. HistoryTypes'
    BY <2>1 DEF HistoryTypes
  <2>3. log' = << >> /\ pending' = << >>
    BY <2>1 DEF BytesInv
  <2>4. ~Adding' /\ Settled' = EmptyBuffer
    BY <2>1 DEF Settled, Adding, At, EvictPC, AddPC, IInv, LockInv, UnloadedClosed
  <2>5. Count(EmptyBuffer) = 0
    BY DEF EmptyBuffer, Count
  <2>6. Len(Stored') = 0
    <3>1. << >> \in Seq(Seq(Nat)) /\ 0 \in 0..Len(<< >>) /\ Len(<< >>) = 0 /\ ~(0 > N)
      BY NAssumption
    <3>2. Len(LastOf(<< >>, 0)) = 0
      BY <3>1, LastOfIs
    <3> QED
      BY <2>3, <3>1, <3>2 DEF Stored
  <2>7. BlocksHold'
    BY <2>1, <2>3, <2>4, <2>5, <2>6 DEF BlocksHold
  <2> QED
    BY <2>1, <2>2, <2>3, <2>7 DEF BytesInv
<1>3. ASSUME NEW c \in Clients, NEW p \in Packets, Receive(c, p)
      PROVE  HistoryTypes' /\ BytesInv'
  <2>1. /\ UNCHANGED <<vars, bytes, log, pending, seen>> /\ packets' = packets + 1
        /\ number' = [number EXCEPT ![c] = packets + 1]
    BY <1>3 DEF Receive, history
  <2>2. HistoryTypes'
    BY <2>1 DEF HistoryTypes
  <2>3. loaded' = loaded /\ Settled' = Settled /\ TmpKept /\ nomem' = nomem
    BY <2>1 DEF vars, device, files, Settled, Adding, At, TmpKept, new_entry
  <2> QED
    BY <2>1, <2>2, <2>3, BlocksKept DEF BytesInv
<1>4. ASSUME NEW c \in Clients, Handler(c), ~CopyPacket(c)
      PROVE  HistoryTypes' /\ BytesInv'
  <2>1. /\ loaded' = loaded /\ nomem' = nomem /\ number' = number /\ packets' = packets
        /\ UNCHANGED <<bytes, log, pending>>
        /\ Lock(c) \/ seen' = seen
    BY <1>4, HandlerLeaves
  <2>2. HistoryTypes'
    <3>1. seen' \in [Clients -> Nat]
      <4>1. Lock(c) => seen' = [seen EXCEPT ![c] = Len(log)]
        BY DEF Lock
      <4>2. Len(log) \in Nat /\ seen \in [Clients -> Nat]
        BY DEF HistoryTypes
      <4> QED
        BY <2>1, <4>1, <4>2
    <3> QED
      BY <2>1, <3>1 DEF HistoryTypes
  <2>3. ASSUME loaded
        PROVE  BlocksHold'
    <3>1. [Next]_vars
      BY <1>4, SystemIsDriver DEF SystemNext
    <3>2. ~ \E d \in Clients : WriteCopy(d)
      BY <1>4, CopiesAreOfPackets
    <3>3. Settled' = Settled /\ TmpKept
      BY <2>1, <2>3, <3>1, <3>2, SettledStays, SettledByPhase, SettledNext
    <3> QED
      BY <2>1, <2>3, <3>3, BlocksKept DEF BytesInv
  <2> QED
    BY <2>1, <2>2, <2>3 DEF BytesInv
<1>5. ASSUME NEW c \in Clients, CopyPacket(c)
      PROVE  HistoryTypes' /\ BytesInv'
  <2> DEFINE x == pending \o Brought(c)
  <2>1. /\ loaded /\ loaded' /\ bytes' \in [Ptr -> Seq(Nat)] /\ Brought(c) \in Seq(Nat)
        /\ packet[c].newline \in BOOLEAN
    BY <1>5, CopyBytes
  <2>2. nomem' = nomem /\ number' = number /\ packets' = packets
    BY <1>5, HandlerLeaves DEF Handler
  <2>3. BlocksHold'
    BY <1>5, <2>1, BytesCompleted, BytesGathered
  <2>4. x \in Seq(Nat) /\ log \in Seq(Seq(Nat)) /\ << >> \in Seq(Nat)
    BY <2>1 DEF HistoryTypes
  <2>5. log' \in Seq(Seq(Nat)) /\ pending' \in Seq(Nat)
    <3>1. CASE packet[c].newline
      <4>1. log' = Append(log, x) /\ pending' = << >>
        BY <1>5, <3>1 DEF CopyPacket, Brought
      <4> HIDE DEF x
      <4> QED BY <2>4, <4>1
    <3>2. CASE ~packet[c].newline
      BY <1>5, <2>4, <3>2 DEF CopyPacket, Brought
    <3> QED
      BY <3>1, <3>2
  <2>6. seen' \in [Clients -> Nat]
    <3>1. seen' = [seen EXCEPT ![c] = Len(log')] /\ Len(log') \in Nat
      BY <1>5, <2>5 DEF CopyPacket
    <3> QED
      BY <3>1 DEF HistoryTypes
  <2>7. HistoryTypes'
    BY <2>1, <2>2, <2>5, <2>6 DEF HistoryTypes
  <2> QED
    BY <2>1, <2>2, <2>3, <2>7 DEF BytesInv
<1> QED
  BY <1>1, <1>2, <1>3, <1>4, <1>5 DEF SystemNext, allVars, session, history

-----------------------------------------------------------------------------
(* The replies.                                                            *)

\* All the bytes that the device keeps, in their order.
Whole == FlattenSeq(Stored)

\* Thread c has sent the bytes from position k up to where its file is.
SentFrom(c, k) ==
  /\ reply[c] \in Seq(Nat)
  /\ k + Len(reply[c]) = f_pos[c]
  /\ \A i \in 1..Len(reply[c]) : reply[c][i] = Whole[k + i]
  /\ f_pos[c] <= Len(Whole) \/ reply[c] = << >>

\* Thread c has a seek with both numbers, and no command had been dropped yet.
Asked(c) == packet[c].seek /\ Len(packet[c].args) = 2 /\ seen[c] <= N

\* The bytes of the first k commands.
PrefixLen(k) == Len(FlattenSeq(SubSeq(log, 1, k)))

\* Where a seek goes, by the numbers that the driver gets.
Target(c) ==
  LET cmd == Uint32(packet[c].args[1])
      offset == Uint32(packet[c].args[2])
  IN  IF cmd < seen[c] /\ offset <= Len(log[cmd + 1]) THEN PrefixLen(cmd) + offset ELSE 0

\* The reply to c's packet may begin at position k.
Right(c, k) == (~packet[c].seek => k = 0) /\ (Asked(c) => k = Target(c))

\* The reply is what was kept after the packet, from a position that is right.
Replied(c) ==
  LET all == FlattenSeq(LastOf(log, seen[c]))
  IN  \E k \in 0..Len(all) : reply[c] = From(all, k) /\ Right(c, k)

ReplyOf(c) ==
  /\ stage[c] \in {"lock", "open", "write", "rewind", "seek", "sought"} => reply[c] = << >>
  /\ stage[c] \in InsideStages => seen[c] = Len(log)
  /\ stage[c] = "read" => \E k \in Nat : SentFrom(c, k) /\ Right(c, k)
  /\ stage[c] \in {"close", "unlock", "done"} => seen[c] <= Len(log) /\ Replied(c)

ReplyInv == reply \in [Clients -> Seq(Nat)] /\ \A c \in Clients : ReplyOf(c)

\* Outside a write: how many bytes there are, and in which block each of them is.
LEMMA WholeIs ==
  ASSUME IInv, HistoryTypes, BytesInv, loaded, Phase = "none"
  PROVE  /\ cb.out_offs \in Slots /\ \A s \in Slots : cb.entry[s].size \in Nat
         /\ Count(cb) \in 0..N
         /\ Whole \in Seq(Nat) /\ Len(Whole) = TotalFn(cb)[Count(cb)]
         /\ \A k \in 1..Count(cb) :
              LET e == cb.entry[SlotOf(cb, k - 1)]
              IN  /\ bytes[e.buffptr] \in Seq(Nat) /\ Len(bytes[e.buffptr]) = e.size
                  /\ \A i \in 1..e.size : Whole[TotalFn(cb)[k - 1] + i] = bytes[e.buffptr][i]
<1> DEFINE E == [buffptr : Pointers, size : Nat]
           S == Stored
           n == Count(cb)
           f == TotalFn(cb)
           at == [k \in 0..Len(S) |-> f[k]]
<1>t. cb \in Buffers(E) /\ TypeOK
  BY DEF IInv, TypeInv, TypeOK, DeviceTypes
<1>1. OffsetsAgree(cb)
  BY DEF IInv, DataInv, OffsetsInv, OffsetsAgree
<1>2. n \in 0..N /\ \A k \in 1..n : SlotOf(cb, k - 1) \in Slots /\ LogOf(cb)[k] = cb.entry[SlotOf(cb, k - 1)]
  <2> HIDE DEF E
  <2> QED BY <1>t, <1>1, LogOfBuffer
<1>3. Settled = cb /\ BlocksHold
  BY SettledByPhase DEF SettledIs, SettledBy, EvictPC, BytesInv
<1>4. /\ Len(S) = n
      /\ \A k \in 1..n : /\ cb.entry[SlotOf(cb, k - 1)].size = Len(S[k])
                         /\ bytes[cb.entry[SlotOf(cb, k - 1)].buffptr] = S[k]
  BY <1>2, <1>3 DEF BlocksHold
<1>5. S \in Seq(Seq(Nat))
  <2>1. log \in Seq(Seq(Nat)) /\ Len(log) \in 0..Len(log)
    BY DEF HistoryTypes
  <2> QED
    BY <2>1, LastOfIs DEF Stored
<1>6. cb.out_offs \in Slots /\ \A s \in Slots : cb.entry[s].size \in Nat
  BY <1>t, SlotFacts
<1>7. /\ f \in [0..N -> Nat] /\ f[0] = 0
      /\ \A k \in Slots : f[k + 1] = f[k] + cb.entry[SlotOf(cb, k)].size
  BY <1>6, TotalFnIs
<1>n. N \in Nat /\ n \in Nat /\ n <= N
  BY <1>2, NAssumption
<1> HIDE DEF S, n, f, E
<1>8. at \in [0..Len(S) -> Nat] /\ at[0] = 0
  BY <1>4, <1>7, <1>n
<1>9. ASSUME NEW k \in 1..Len(S)
      PROVE  at[k] = at[k - 1] + Len(S[k])
  <2>1. k \in 1..n /\ k - 1 \in Slots /\ (k - 1) + 1 = k /\ k \in 0..Len(S) /\ k - 1 \in 0..Len(S)
    BY <1>4, <1>n DEF Slots
  <2>2. f[k] = f[k - 1] + cb.entry[SlotOf(cb, k - 1)].size
    BY <1>7, <2>1
  <2> QED
    BY <1>4, <2>1, <2>2
<1>a. \A k \in 0..n : at[k] = f[k]
  BY <1>4
<1> HIDE DEF at
<1>10. /\ FlattenSeq(S) \in Seq(Nat)
       /\ Len(FlattenSeq(S)) = at[Len(S)]
       /\ \A k \in 1..Len(S), i \in Nat :
            i \in 1..Len(S[k]) => FlattenSeq(S)[at[k - 1] + i] = S[k][i]
  BY <1>5, <1>8, <1>9, FlattenIs
<1>11. Whole = FlattenSeq(S)
  BY DEF Whole, S
<1>12. Len(Whole) = f[n]
  BY <1>4, <1>10, <1>11, <1>a, <1>n
<1>13. ASSUME NEW k \in 1..n
       PROVE  LET e == cb.entry[SlotOf(cb, k - 1)]
              IN  /\ bytes[e.buffptr] \in Seq(Nat) /\ Len(bytes[e.buffptr]) = e.size
                  /\ \A i \in 1..e.size : Whole[f[k - 1] + i] = bytes[e.buffptr][i]
  <2> DEFINE e == cb.entry[SlotOf(cb, k - 1)]
  <2>1. S[k] \in Seq(Nat) /\ k \in 1..Len(S) /\ k - 1 \in 0..n
    BY <1>4, <1>5, <1>n
  <2>2. e.size = Len(S[k]) /\ bytes[e.buffptr] = S[k]
    BY <1>4
  <2>3. ASSUME NEW i \in 1..e.size
        PROVE  Whole[f[k - 1] + i] = bytes[e.buffptr][i]
    <3>1. i \in Nat /\ i \in 1..Len(S[k])
      BY <2>1, <2>2
    <3>2. FlattenSeq(S)[at[k - 1] + i] = S[k][i]
      BY <1>10, <2>1, <3>1
    <3> QED
      BY <1>11, <1>a, <2>1, <2>2, <3>2
  <2> QED
    BY <2>1, <2>2, <2>3
<1> QED
  BY <1>2, <1>6, <1>10, <1>11, <1>12, <1>13 DEF n, f

\* A copy of aesd_read extends the reply by the bytes that follow.
LEMMA SendStep ==
  ASSUME IInv, StageTypes, SessionInv, Alone, AloneInv, HistoryTypes, BytesInv, ReplyInv,
         NEW c \in Clients, CopyAndSend(c), NEW k \in Nat, SentFrom(c, k)
  PROVE  SentFrom(c, k)'
<1> DEFINE f == frame[c]
           cur == f.current_offset
           e == cb.entry[cur]
           block == bytes[e.buffptr]
           off == f.entry_off
           len == f.read_length
           piece == SubSeq(block, off + 1, off + len)
           r == reply[c]
<1>1. ReadCopy(c) /\ ret'[c] = "ok" /\ reply' = [reply EXCEPT ![c] = r \o piece] /\ log' = log
  BY DEF CopyAndSend, history
<1>2. pc[c] = "read_copy" /\ pc[c] \in ReadPC
  BY <1>1, LabelKinds DEF ReadCopy
<1>3. loaded /\ Phase = "none" /\ f \in ReadFrame /\ cb.in_offs \in Slots
  BY <1>2, AloneDevice
<1>t. /\ TypeOK /\ ret \in [Clients -> Results \cup {NULL}] /\ f_pos \in [Clients -> Nat]
      /\ cb \in Buffers([buffptr : Pointers, size : Nat])
  BY DEF IInv, TypeInv, TypeOK, DeviceTypes, FileTypes
<1>4. f_pos' = [f_pos EXCEPT ![c] = @ + len]
  BY <1>1, <1>t DEF ReadCopy, Return
<1>5. AloneGood(c)
  BY <1>2 DEF AloneInv
<1>6. /\ f_pos[c] = f.total_chars + off /\ off < e.size /\ off + len <= e.size
  BY <1>2, <1>5 DEF AloneGood
<1>7. PICK j \in Slots : cur = SlotOf(cb, j) /\ f.total_chars = TotalFn(cb)[j]
  BY <1>5 DEF AloneGood
<1>8. /\ cb.out_offs \in Slots /\ \A s \in Slots : cb.entry[s].size \in Nat
      /\ Count(cb) \in 0..N
      /\ Whole \in Seq(Nat) /\ Len(Whole) = TotalFn(cb)[Count(cb)]
  BY <1>3, WholeIs
<1>9. cur \in Slots /\ off \in Nat /\ len \in Nat /\ f.total_chars \in Nat /\ e.size \in Nat
      /\ f_pos[c] \in Nat
  BY <1>3, <1>8, <1>t DEF ReadFrame
<1>10. e.size > 0
  <2> HIDE DEF e, off, len
  <2> QED BY <1>6, <1>9
<1>11. j < Count(cb)
  <2>1. cb.full \/ cur < cb.in_offs
    BY <1>3, <1>9, <1>10 DEF IInv, DataInv, EntriesInv, InUse
  <2>2. OffsetsAgree(cb)
    BY <1>3 DEF IInv, DataInv, OffsetsInv, OffsetsAgree
  <2>3. (cb.full <=> Count(cb) = N) /\ (~cb.full => Count(cb) = cb.in_offs)
    BY <1>t, <2>2, LogOfBuffer
  <2>4. CASE cb.full
    BY <2>3, <2>4, NAssumption DEF Slots
  <2>5. CASE ~cb.full
    <3>1. cb.out_offs = 0
      BY <2>2, <2>5 DEF OffsetsAgree
    <3>2. cur = j
      BY <1>7, <3>1, NAssumption DEF SlotOf, Slots
    <3> QED
      BY <2>1, <2>3, <2>5, <3>2
  <2> QED
    BY <2>4, <2>5
<1>12. j + 1 \in 1..Count(cb) /\ (j + 1) - 1 = j /\ j \in Nat /\ j + 1 \in 0..N
  BY <1>8, <1>11, NAssumption DEF Slots
<1>13. /\ block \in Seq(Nat) /\ Len(block) = e.size
       /\ \A i \in 1..e.size : Whole[TotalFn(cb)[j] + i] = block[i]
  <2>1. LET d == cb.entry[SlotOf(cb, (j + 1) - 1)]
        IN  /\ bytes[d.buffptr] \in Seq(Nat) /\ Len(bytes[d.buffptr]) = d.size
            /\ \A i \in 1..d.size : Whole[TotalFn(cb)[(j + 1) - 1] + i] = bytes[d.buffptr][i]
    BY <1>3, <1>12, WholeIs
  <2> QED
    BY <1>7, <1>12, <2>1
<1>14. f_pos[c] + len <= Len(Whole)
  <2>1. TotalFn(cb)[j + 1] = TotalFn(cb)[j] + e.size
    BY <1>7, <1>8, TotalFnIs
  <2>2. TotalFn(cb)[j + 1] <= TotalFn(cb)[Count(cb)]
    <3>1. j + 1 <= Count(cb) /\ Count(cb) \in 0..N
      BY <1>8, <1>12
    <3> QED
      BY <1>8, <1>12, <3>1, TotalFnGrows
  <2>3. TotalFn(cb)[j + 1] \in Nat /\ TotalFn(cb)[Count(cb)] \in Nat
    <3>1. TotalFn(cb) \in [0..N -> Nat]
      BY <1>8, TotalFnIs
    <3> QED
      BY <1>8, <1>12, <3>1
  <2> DEFINE a == TotalFn(cb)[j + 1]
             b == TotalFn(cb)[Count(cb)]
             z == e.size
             y == f.total_chars
             p == f_pos[c]
  <2>4. a = y + z /\ a <= b /\ a \in Nat /\ b \in Nat /\ p = y + off /\ off + len <= z
        /\ y \in Nat /\ z \in Nat
    BY <1>6, <1>7, <1>9, <2>1, <2>2, <2>3
  <2> HIDE DEF a, b, z, y, p, off, len
  <2>5. p + len <= b
    BY <1>9, <2>4
  <2> QED
    BY <1>8, <2>5 DEF p, b
<1>15. /\ piece \in Seq(Nat) /\ Len(piece) = len
       /\ \A i \in 1..len : piece[i] = block[off + i]
  <2>0. off \in Nat /\ len \in Nat /\ off + len <= Len(block)
    BY <1>6, <1>9, <1>13
  <2> HIDE DEF block, off, len
  <2>1. off + 1 \in Nat /\ off + len \in Nat /\ off + len <= Len(block)
    BY <2>0
  <2>2. CASE len = 0
    <3>1. off + len < off + 1
      BY <1>9, <2>2
    <3>2. piece = << >>
      BY <1>9, <1>13, <2>1, <3>1
    <3> HIDE DEF piece
    <3> QED
      BY <2>2, <3>2
  <2>3. CASE len # 0
    <3>1. off + 1 \in 1..Len(block) /\ off + len \in (off + 1)..Len(block)
          /\ (off + len) - (off + 1) + 1 = len
      BY <1>9, <1>13, <2>1, <2>3
    <3>2. /\ piece \in Seq(Nat) /\ Len(piece) = len
          /\ \A i \in 1..len : piece[i] = block[(off + 1) + i - 1]
      BY <1>9, <1>13, <3>1
    <3>3. \A i \in 1..len : (off + 1) + i - 1 = off + i
      BY <1>9
    <3> HIDE DEF piece
    <3> QED
      BY <3>2, <3>3
  <2> QED
    BY <2>2, <2>3
<1>16. /\ r \in Seq(Nat) /\ k + Len(r) = f_pos[c]
       /\ \A i \in 1..Len(r) : r[i] = Whole[k + i]
  BY DEF SentFrom
<1>17. ASSUME NEW i \in 1..len
       PROVE  piece[i] = Whole[f_pos[c] + i]
  <2>1. off + i \in 1..e.size /\ TotalFn(cb)[j] + (off + i) = f_pos[c] + i
    <3> DEFINE y == f.total_chars
               z == e.size
               p == f_pos[c]
    <3>1. y \in Nat /\ z \in Nat /\ p = y + off /\ off + len <= z /\ off \in Nat /\ len \in Nat
      BY <1>6, <1>9
    <3>2. TotalFn(cb)[j] = y
      BY <1>7
    <3> HIDE DEF y, z, p, off, len
    <3>3. off + i \in 1..z /\ y + (off + i) = p + i
      BY <3>1
    <3> QED
      BY <3>2, <3>3 DEF z, p
  <2>2. Whole[TotalFn(cb)[j] + (off + i)] = block[off + i]
    BY <1>13, <2>1
  <2> QED
    BY <1>15, <2>1, <2>2
<1>18. reply'[c] = r \o piece /\ f_pos'[c] = f_pos[c] + len /\ Whole' = Whole
  <2>1. reply \in [Clients -> Seq(Nat)]
    BY DEF ReplyInv
  <2> HIDE DEF piece, r
  <2> QED
    BY <1>1, <1>4, <1>t, <2>1 DEF Whole, Stored, r
<1> DEFINE w == r \o piece
<1>p. len \in Nat /\ f_pos[c] \in Nat /\ piece \in Seq(Nat) /\ Len(piece) = len
  BY <1>9, <1>15
<1> HIDE DEF r, piece, len
<1>19. /\ w \in Seq(Nat) /\ Len(w) = Len(r) + len
       /\ \A i \in 1..(Len(r) + len) : w[i] = IF i <= Len(r) THEN r[i] ELSE piece[i - Len(r)]
  BY <1>16, <1>p, ConcatProperties
<1> HIDE DEF w
<1>20. Len(r) \in Nat
  BY <1>16
<1>21. ASSUME NEW i \in 1..(Len(r) + len)
       PROVE  w[i] = Whole[k + i]
  <2>1. CASE i <= Len(r)
    <3>1. i \in 1..Len(r)
      BY <1>20, <2>1
    <3> QED
      BY <1>16, <1>19, <2>1, <3>1
  <2>2. CASE ~(i <= Len(r))
    <3>1. i - Len(r) \in 1..len /\ f_pos[c] + (i - Len(r)) = k + i
      BY <1>16, <1>20, <1>p, <2>2
    <3>2. w[i] = piece[i - Len(r)]
      BY <1>19, <2>2
    <3> QED
      BY <1>17, <3>1, <3>2
  <2> QED
    BY <2>1, <2>2
<1>22. k + Len(w) = f_pos[c] + len
  BY <1>16, <1>19, <1>20, <1>p
<1>23. reply'[c] = w
  BY <1>18 DEF w
<1> QED
  BY <1>14, <1>18, <1>19, <1>21, <1>22, <1>23 DEF SentFrom

\* Where each command begins in the concatenation of all.
LEMMA PrefixLengths ==
  ASSUME NEW l \in Seq(Seq(Nat))
  PROVE  \E at \in [0..Len(l) -> Nat] :
           /\ at[0] = 0
           /\ \A k \in 1..Len(l) : at[k] = at[k - 1] + Len(l[k])
           /\ \A k \in 0..Len(l) : /\ FlattenSeq(SubSeq(l, 1, k)) \in Seq(Nat)
                                   /\ Len(FlattenSeq(SubSeq(l, 1, k))) = at[k]
           /\ \A k \in 0..Len(l), j \in Nat : j <= k => at[j] <= at[k]
<1> DEFINE n == Len(l)
           z == [i \in 0..n |-> IF i = n THEN 0 ELSE Len(l[i + 1])]
<1>1. n \in Nat /\ \A i \in 1..n : l[i] \in Seq(Nat) /\ Len(l[i]) \in Nat
  OBVIOUS
<1>2. \A i \in 0..(n - 1) : z[i] \in Nat /\ z[i] = Len(l[i + 1])
  BY <1>1
<1> HIDE DEF z
<1>3. PICK at \in [0..n -> Nat] :
        at = [i \in 0..n |-> IF i = 0 THEN 0 ELSE at[i - 1] + z[i - 1]]
  BY <1>1, <1>2, SumsExist
<1>4. at[0] = 0
  BY <1>1, <1>3
<1>5. ASSUME NEW i \in 1..n
      PROVE  at[i] = at[i - 1] + Len(l[i])
  <2>1. i \in 0..n /\ i # 0 /\ i - 1 \in 0..(n - 1) /\ (i - 1) + 1 = i
    BY <1>1
  <2>2. at[i] = at[i - 1] + z[i - 1]
    BY <1>3, <2>1
  <2> QED
    BY <1>2, <2>1, <2>2
<1>6. ASSUME NEW k \in 0..n
      PROVE  FlattenSeq(SubSeq(l, 1, k)) \in Seq(Nat) /\ Len(FlattenSeq(SubSeq(l, 1, k))) = at[k]
  <2> DEFINE s == SubSeq(l, 1, k)
             b == [i \in 0..k |-> at[i]]
  <2>1. s \in Seq(Seq(Nat)) /\ Len(s) = k /\ \A i \in 1..k : s[i] = l[i]
    BY <1>1
  <2> HIDE DEF s
  <2>2. k \in Nat /\ \A i \in 1..k : i \in 1..n /\ i \in 0..k /\ i - 1 \in 0..k
    BY <1>1
  <2>3. b \in [0..Len(s) -> Nat] /\ b[0] = 0
    <3>0. at \in [0..n -> Nat] /\ \A i \in 0..k : i \in 0..n
      BY <1>1, <1>3
    <3>1. \A i \in 0..k : at[i] \in Nat
      BY <3>0
    <3>2. 0 \in 0..k
      BY <2>2
    <3> QED
      BY <1>4, <2>1, <3>1, <3>2
  <2>4. \A i \in 1..Len(s) : b[i] = b[i - 1] + Len(s[i])
    BY <1>5, <2>1, <2>2
  <2>5. b[k] = at[k]
    BY <2>2
  <2> HIDE DEF b
  <2>6. FlattenSeq(s) \in Seq(Nat) /\ Len(FlattenSeq(s)) = b[Len(s)]
    BY <2>1, <2>3, <2>4, FlattenIs
  <2> QED
    BY <2>1, <2>5, <2>6 DEF s
<1>7. \A k \in 0..n, j \in Nat : j <= k => at[j] <= at[k]
  <2> DEFINE S == {k \in 0..n : \A j \in Nat : j <= k => at[j] <= at[k]}
  <2>1. 0 \in S
    BY <1>1, <1>4
  <2>2. ASSUME NEW k \in 0..(n - 1), k \in S
        PROVE  k + 1 \in S
    <3>1. k \in Nat /\ k + 1 \in 0..n /\ k + 1 \in 1..n /\ (k + 1) - 1 = k /\ k \in 0..n
      BY <1>1
    <3>2. at[k + 1] = at[k] + Len(l[k + 1]) /\ Len(l[k + 1]) \in Nat
      BY <1>1, <1>5, <3>1
    <3>3. ASSUME NEW j \in Nat, j <= k + 1
          PROVE  at[j] <= at[k + 1]
      <4>1. CASE j = k + 1
        <5>1. at[k + 1] \in Nat
          BY <1>3, <3>1
        <5>2. at[k + 1] <= at[k + 1]
          BY <5>1
        <5> QED
          BY <4>1, <5>2
      <4>2. CASE j # k + 1
        <5>1. j <= k /\ j \in 0..n
          BY <3>1, <3>3, <4>2, <1>1
        <5>2. at[j] <= at[k] /\ at[j] \in Nat /\ at[k] \in Nat
          BY <1>3, <2>2, <3>1, <5>1
        <5> QED
          BY <3>2, <5>2
      <4> QED
        BY <4>1, <4>2
    <3> QED
      BY <3>1, <3>3
  <2>3. \A k \in 0..n : k \in S
    <3> HIDE DEF S, n
    <3> QED BY <1>1, <2>1, <2>2, Induction
  <2> QED
    BY <2>3
<1> QED
  BY <1>3, <1>4, <1>5, <1>6, <1>7

\* The numbers of a seek are what uint32_t can hold.
LEMMA AskedArgs ==
  ASSUME StageTypes, NEW c \in Clients, packet[c].seek, Len(packet[c].args) = 2
  PROVE  /\ packet[c] \in Packets
         /\ packet[c].args \in Seq(Int32)
         /\ \A i \in 1..2 : packet[c].args[i] \in Int32 /\ Uint32(packet[c].args[i]) \in Nat
<1>1. packet[c] \in Packets
  BY DEF StageTypes, NoPacket
<1>2. packet[c].args \in Seq(Int32)
  BY <1>1, PacketAssumption DEF LinePackets, SeekPackets
<1> DEFINE a == packet[c].args
<1> HIDE DEF a
<1>3. a \in Seq(Int32) /\ Len(a) = 2
  BY <1>2 DEF a
<1>4. \A i \in 1..2 : a[i] \in Int32
  <2>1. 1 \in 1..Len(a) /\ 2 \in 1..Len(a)
    BY <1>3
  <2>2. a[1] \in Int32 /\ a[2] \in Int32
    BY <1>3, <2>1, ElementOfSeq
  <2> QED
    BY <2>2
<1>5. \A i \in Int : Uint32(i) \in Nat
  BY PacketAssumption DEF Uint32
<1>6. \A i \in Int32 : i \in Int
  BY PacketAssumption DEF Int32
<1> QED
  BY <1>1, <1>2, <1>4, <1>5, <1>6 DEF a

\* A seek never goes behind what is kept.
LEMMA TargetWithin ==
  ASSUME StageTypes, HistoryTypes, NEW c \in Clients, Asked(c), seen[c] <= Len(log)
  PROVE  Target(c) \in 0..Len(FlattenSeq(LastOf(log, seen[c])))
<1> DEFINE a == Uint32(packet[c].args[1])
           b == Uint32(packet[c].args[2])
           n == seen[c]
<1>1. log \in Seq(Seq(Nat)) /\ n \in Nat /\ Len(log) \in Nat /\ n <= Len(log) /\ n <= N
  BY DEF HistoryTypes, Asked
<1>2. a \in Nat /\ b \in Nat
  BY AskedArgs DEF Asked
<1>3. PICK at \in [0..Len(log) -> Nat] :
        /\ \A k \in 1..Len(log) : at[k] = at[k - 1] + Len(log[k])
        /\ \A k \in 0..Len(log) : Len(FlattenSeq(SubSeq(log, 1, k))) = at[k]
        /\ \A k \in 0..Len(log), j \in Nat : j <= k => at[j] <= at[k]
  BY <1>1, PrefixLengths
<1>4. LastOf(log, n) = SubSeq(log, 1, n)
  BY <1>1, NAssumption DEF LastOf
<1>5. Len(FlattenSeq(LastOf(log, n))) = at[n] /\ at[n] \in Nat
  BY <1>1, <1>3, <1>4
<1> HIDE DEF a, b
<1>6. CASE a < n /\ b <= Len(log[a + 1])
  <2>1. Target(c) = PrefixLen(a) + b
    BY <1>6 DEF Target, a, b
  <2>2. a \in 0..Len(log) /\ a + 1 \in 1..Len(log) /\ (a + 1) - 1 = a /\ a + 1 <= n /\ n \in 0..Len(log)
        /\ a + 1 \in Nat /\ a + 1 \in 0..Len(log)
    BY <1>1, <1>2, <1>6
  <2>3. PrefixLen(a) = at[a] /\ at[a + 1] = at[a] + Len(log[a + 1]) /\ at[a + 1] <= at[n]
    BY <1>3, <2>2 DEF PrefixLen
  <2>4. at[a] \in Nat /\ at[a + 1] \in Nat /\ Len(log[a + 1]) \in Nat
    BY <1>1, <1>3, <2>2
  <2> DEFINE x == at[a]
             y == at[a + 1]
             l == Len(log[a + 1])
             w == at[n]
  <2>5. x \in Nat /\ y \in Nat /\ l \in Nat /\ w \in Nat /\ y = x + l /\ y <= w /\ b <= l
    BY <1>5, <1>6, <2>3, <2>4
  <2> HIDE DEF x, y, l, w
  <2>6. x + b \in 0..w
    BY <1>2, <2>5
  <2> QED
    BY <1>5, <2>1, <2>3, <2>6 DEF x, w
<1>7. CASE ~(a < n /\ b <= Len(log[a + 1]))
  <2>1. Target(c) = 0
    BY <1>7 DEF Target, a, b
  <2> QED
    BY <1>5, <2>1
<1> QED
  BY <1>6, <1>7

LEMMA RightSame ==
  ASSUME NEW d \in Clients, seen'[d] = seen[d], packet'[d] = packet[d], log' = log
  PROVE  \A k : Right(d, k)' <=> Right(d, k)
<1>1. Asked(d)' <=> Asked(d)
  BY DEF Asked
<1>2. Target(d)' = Target(d)
  BY DEF Target, PrefixLen
<1> QED
  BY <1>1, <1>2 DEF Right

\* Where the reply begins does not change when the log grows.
LEMMA RightStays ==
  ASSUME StageTypes, HistoryTypes, NEW d \in Clients, seen[d] <= Len(log),
         seen'[d] = seen[d], packet'[d] = packet[d],
         log' = log \/ \E x \in Seq(Nat) : log' = Append(log, x)
  PROVE  \A k : Right(d, k)' <=> Right(d, k)
<1>1. Asked(d)' <=> Asked(d)
  BY DEF Asked
<1>2. ASSUME Asked(d)
      PROVE  Target(d)' = Target(d)
  <2>1. CASE log' = log
    BY <2>1 DEF Target, PrefixLen
  <2>2. ASSUME NEW x \in Seq(Nat), log' = Append(log, x)
        PROVE  Target(d)' = Target(d)
    <3> DEFINE a == Uint32(packet[d].args[1])
               b == Uint32(packet[d].args[2])
    <3>1. log \in Seq(Seq(Nat)) /\ seen[d] \in Nat /\ Len(log) \in Nat
      BY DEF HistoryTypes
    <3>2. a \in Nat /\ b \in Nat
      BY <1>2, AskedArgs DEF Asked
    <3>3. /\ Target(d) = IF a < seen[d] /\ b <= Len(log[a + 1]) THEN PrefixLen(a) + b ELSE 0
          /\ Target(d)' = IF a < seen[d] /\ b <= Len(log'[a + 1])
                          THEN Len(FlattenSeq(SubSeq(log', 1, a))) + b ELSE 0
      BY DEF Target, PrefixLen
    <3> HIDE DEF a, b
    <3>4. CASE a < seen[d]
      <4>1. a + 1 \in 1..Len(log) /\ a \in 0..Len(log)
        BY <3>1, <3>2, <3>4
      <4>2. log'[a + 1] = log[a + 1]
        BY <2>2, <3>1, <4>1
      <4>3. SubSeq(log', 1, a) = SubSeq(log, 1, a)
        <5> DEFINE u == SubSeq(Append(log, x), 1, a)
                   v == SubSeq(log, 1, a)
        <5>1. u \in Seq(Seq(Nat)) /\ v \in Seq(Seq(Nat)) /\ Len(u) = a /\ Len(v) = a
              /\ \A i \in 1..a : u[i] = v[i]
          BY <3>1, <4>1
        <5> HIDE DEF u, v
        <5>2. u = v
          BY <5>1, SeqEqual
        <5> QED
          BY <2>2, <5>2 DEF u, v
      <4> QED
        BY <3>3, <3>4, <4>2, <4>3 DEF PrefixLen
    <3>5. CASE ~(a < seen[d])
      BY <3>3, <3>5
    <3> QED
      BY <3>4, <3>5
  <2> QED
    BY <2>1, <2>2
<1> SUFFICES ASSUME NEW k
             PROVE  Right(d, k)' <=> Right(d, k)
  OBVIOUS
<1>3. CASE Asked(d)
  BY <1>1, <1>2, <1>3 DEF Right
<1>4. CASE ~Asked(d)
  BY <1>1, <1>4 DEF Right
<1> QED
  BY <1>3, <1>4

\* When aesd_read finds no byte, the thread has sent all there is.
LEMMA EndStep ==
  ASSUME IInv, IInv', StageTypes, SessionInv, Alone, AloneInv, HistoryTypes, BytesInv, ReplyInv,
         NEW c \in Clients, FindOrEnd(c), pc'[c] = "idle", seen[c] = Len(log),
         NEW k \in Nat, SentFrom(c, k), Right(c, k)
  PROVE  Replied(c)'
<1> DEFINE f == frame[c]
           cur == f.current_offset
           r == reply[c]
           p == f_pos[c]
           m == Len(Whole)
<1>1. ReadFind(c) /\ packet' = packet /\ reply' = reply /\ log' = log /\ seen' = seen
  BY DEF FindOrEnd, history
<1>2. pc[c] = "read_find" /\ pc[c] \in ReadPC
  BY <1>1, LabelKinds DEF ReadFind
<1>3. /\ loaded /\ Phase = "none" /\ f \in ReadFrame /\ cb.in_offs \in Slots
      /\ cb.full => cb.in_offs = cb.out_offs
      /\ ~cb.full => cb.out_offs = 0
  BY <1>2, AloneDevice
<1>t. /\ TypeOK /\ f_pos \in [Clients -> Nat] /\ pc \in [Clients -> Labels]
      /\ cb \in Buffers([buffptr : Pointers, size : Nat])
  BY DEF IInv, TypeInv, TypeOK, DeviceTypes, FileTypes
<1>4. AloneGood(c)
  BY <1>2 DEF AloneInv
<1>5. ~Hit(cb, cur, f.total_chars, p) /\ NextSlot(cur) = cb.in_offs
  <2>1. f.in_offs = cb.in_offs
    BY <1>4 DEF AloneGood
  <2> QED
    BY <1>1, <1>2, <1>t, <2>1 DEF ReadFind, Goto
<1>6. PICK j \in Slots : cur = SlotOf(cb, j) /\ f.total_chars = TotalFn(cb)[j]
  BY <1>4 DEF AloneGood
<1>7. /\ cb.out_offs \in Slots /\ \A s \in Slots : cb.entry[s].size \in Nat
      /\ Count(cb) \in 0..N
      /\ Whole \in Seq(Nat) /\ m = TotalFn(cb)[Count(cb)]
  BY <1>3, WholeIs
<1>8. cur \in Slots /\ f.total_chars \in Nat /\ p \in Nat
  BY <1>3, <1>t DEF ReadFrame
<1>9. TotalFn(cb)[j + 1] <= p
  <2>1. TotalFn(cb)[j + 1] = f.total_chars + cb.entry[cur].size
    BY <1>6, <1>7, TotalFnIs
  <2>2. ~(f.total_chars + cb.entry[cur].size > p) /\ cb.entry[cur].size \in Nat
    BY <1>5, <1>7, <1>8 DEF Hit
  <2> DEFINE y == f.total_chars
             z == cb.entry[cur].size
  <2> HIDE DEF y, z, p
  <2>3. y + z <= p
    <3>1. y \in Nat /\ z \in Nat /\ ~(y + z > p)
      BY <1>8, <2>2 DEF y, z
    <3> QED
      BY <1>8, <3>1
  <2> QED
    BY <2>1, <2>3 DEF y, z
<1>10. j \in Nat /\ j + 1 \in 0..N
  BY NAssumption DEF Slots
<1>11. Count(cb) <= j + 1
  <2>1. OffsetsAgree(cb)
    BY <1>3 DEF OffsetsAgree
  <2>2. (cb.full <=> Count(cb) = N) /\ (~cb.full => Count(cb) = cb.in_offs)
    BY <1>t, <2>1, LogOfBuffer
  <2>3. cb.in_offs = IF cur + 1 = N THEN 0 ELSE cur + 1
    BY <1>5, <1>8, NextSlotIs
  <2>4. cur = IF cb.out_offs + j < N THEN cb.out_offs + j ELSE cb.out_offs + j - N
    BY <1>6 DEF SlotOf
  <2>5. CASE cb.full
    <3>1. cb.in_offs = cb.out_offs
      BY <1>3, <2>5
    <3>2. cb.out_offs \in 0..(N - 1) /\ j \in 0..(N - 1) /\ N \in Nat /\ N > 0
      BY <1>7, NAssumption DEF Slots
    <3> DEFINE o == cb.out_offs
    <3>3. o = (IF cur + 1 = N THEN 0 ELSE cur + 1)
          /\ cur = IF o + j < N THEN o + j ELSE o + j - N
      BY <2>3, <2>4, <3>1
    <3>4. o \in 0..(N - 1)
      BY <3>2
    <3> HIDE DEF o, cur
    <3>5. j + 1 = N
      BY <3>2, <3>3, <3>4
    <3> QED
      BY <2>2, <2>5, <3>2, <3>5
  <2>6. CASE ~cb.full
    <3>1. cb.out_offs = 0 /\ Count(cb) = cb.in_offs
      BY <1>3, <2>2, <2>6
    <3>2. cur = j
      BY <2>4, <3>1, NAssumption DEF Slots
    <3> QED
      BY <1>10, <2>3, <3>1, <3>2
  <2> QED
    BY <2>5, <2>6
<1>12. m <= p /\ m \in Nat
  <2>1. TotalFn(cb)[Count(cb)] <= TotalFn(cb)[j + 1]
    BY <1>7, <1>10, <1>11, TotalFnGrows
  <2>2. TotalFn(cb)[j + 1] \in Nat /\ TotalFn(cb)[Count(cb)] \in Nat
    <3>1. TotalFn(cb) \in [0..N -> Nat]
      BY <1>7, TotalFnIs
    <3> QED
      BY <1>7, <1>10, <3>1
  <2> DEFINE a == TotalFn(cb)[Count(cb)]
             b == TotalFn(cb)[j + 1]
  <2>3. a <= b /\ b <= p /\ a \in Nat /\ b \in Nat /\ p \in Nat
    BY <1>8, <1>9, <2>1, <2>2
  <2> HIDE DEF a, b, p
  <2>4. a <= p
    BY <2>3
  <2> QED
    BY <1>7, <2>3, <2>4 DEF a
<1>13. /\ r \in Seq(Nat) /\ k + Len(r) = p
       /\ \A i \in 1..Len(r) : r[i] = Whole[k + i]
       /\ p <= m \/ r = << >>
  BY DEF SentFrom
<1> HIDE DEF r, p, m
<1>14. Len(r) \in Nat
  BY <1>13
<1>15. \E i \in 0..m : r = From(Whole, i) /\ Right(c, i)
  <2>1. CASE p <= m
    <3>1. p = m /\ k \in 0..m /\ m = k + Len(r)
      BY <1>8, <1>12, <1>13, <1>14, <2>1
    <3> DEFINE s == From(Whole, k)
    <3>2. s \in Seq(Nat) /\ Len(s) = Len(r) /\ \A i \in 1..Len(r) : s[i] = Whole[k + i]
      <4>0. Len(Whole) = m /\ s = SubSeq(Whole, k + 1, m)
        BY DEF m, From
      <4>1. CASE Len(r) = 0
        <5>1. m < k + 1 /\ m \in Nat /\ k + 1 \in Nat
          BY <1>12, <1>14, <3>1, <4>1
        <5>2. s = << >>
          BY <1>7, <4>0, <5>1
        <5> HIDE DEF s
        <5> QED
          BY <4>1, <5>2
      <4>2. CASE Len(r) # 0
        <5>1. k + 1 \in 1..Len(Whole) /\ m \in (k + 1)..Len(Whole) /\ m - (k + 1) + 1 = Len(r)
          BY <1>12, <1>14, <3>1, <4>0, <4>2
        <5> HIDE DEF s
        <5>w. Whole \in Seq(Nat)
          BY <1>7
        <5>2. /\ s \in Seq(Nat) /\ Len(s) = Len(r)
              /\ \A i \in 1..Len(r) : s[i] = Whole[(k + 1) + i - 1]
          BY <4>0, <5>1, <5>w
        <5>3. \A i \in 1..Len(r) : (k + 1) + i - 1 = k + i
          BY <1>14
        <5> QED
          BY <5>2, <5>3
      <4> QED
        BY <4>1, <4>2
    <3> HIDE DEF s
    <3>3. r = s
      BY <1>13, <3>2, SeqEqual
    <3> QED
      BY <3>1, <3>3 DEF s
  <2>2. CASE ~(p <= m)
    <3>1. r = << >> /\ k = p /\ k # 0
      BY <1>8, <1>12, <1>13, <1>14, <2>2
    <3>2. From(Whole, m) = << >>
      <4>1. Len(Whole) = m /\ m + 1 \in Nat /\ m < m + 1
        BY <1>12 DEF m
      <4> QED
        BY <1>7, <4>1 DEF From
    <3>3. m \in 0..m
      BY <1>12
    <3>4. ~Asked(c)
      <4> SUFFICES ASSUME Asked(c)
                   PROVE  FALSE
        OBVIOUS
      <4>1. Target(c) \in 0..m
        <5>1. seen[c] <= Len(log)
          BY DEF HistoryTypes
        <5> QED
          BY <5>1, TargetWithin DEF m, Whole, Stored
      <4>2. k = Target(c)
        BY DEF Right
      <4> QED
        BY <1>8, <1>12, <2>2, <3>1, <4>1, <4>2
    <3>5. Right(c, m)
      BY <3>1, <3>4 DEF Right
    <3> QED
      BY <3>1, <3>2, <3>3, <3>5
  <2> QED
    BY <2>1, <2>2
<1>16. FlattenSeq(LastOf(log', seen'[c])) = Whole
  BY <1>1 DEF Whole, Stored
<1>17. \A i : Right(c, i)' <=> Right(c, i)
  <2>1. seen[c] <= Len(log)
    BY DEF HistoryTypes
  <2> QED
    BY <1>1, <2>1, RightStays
<1> QED
  BY <1>1, <1>15, <1>16, <1>17 DEF Replied, m, r

\* What a thread has replied stays the log of that time when the log grows.
LEMMA RepliedStays ==
  ASSUME StageTypes, HistoryTypes, NEW d \in Clients, seen[d] <= Len(log), Replied(d),
         reply'[d] = reply[d], seen'[d] = seen[d], packet'[d] = packet[d],
         log' = log \/ \E x \in Seq(Nat) : log' = Append(log, x)
  PROVE  seen'[d] <= Len(log') /\ Replied(d)'
<1>1. log \in Seq(Seq(Nat)) /\ seen[d] \in Nat /\ Len(log) \in Nat
  BY DEF HistoryTypes
<1>2. seen[d] \in 0..Len(log)
  BY <1>1
<1>3. LastOf(log', seen'[d]) = LastOf(log, seen[d]) /\ seen'[d] <= Len(log')
  <2>1. CASE log' = log
    BY <2>1
  <2>2. ASSUME NEW x \in Seq(Nat), log' = Append(log, x)
        PROVE  LastOf(log', seen'[d]) = LastOf(log, seen[d]) /\ seen'[d] <= Len(log')
    <3>1. LastOf(Append(log, x), seen[d]) = LastOf(log, seen[d])
      BY <1>1, <1>2, LastOfLonger
    <3>2. Len(Append(log, x)) = Len(log) + 1
      BY <1>1
    <3> QED
      BY <1>1, <2>2, <3>1, <3>2
  <2> QED
    BY <2>1, <2>2
<1>4. \A k : Right(d, k)' <=> Right(d, k)
  BY RightStays
<1> QED
  BY <1>3, <1>4 DEF Replied

\* The log grows by a command at a time, and only while a thread is inside.
LEMMA LogGrows ==
  ASSUME IInv, IInv', StageTypes, SessionInv, HistoryTypes, BytesInv, NEW c \in Clients, Handler(c)
  PROVE  /\ log' = log \/ \E x \in Seq(Nat) : log' = Append(log, x)
         /\ log' = log \/ stage[c] \in InsideStages
<1>1. CASE ~CopyPacket(c)
  BY <1>1, HandlerLeaves
<1>2. CASE CopyPacket(c)
  <2> DEFINE x == pending \o Brought(c)
  <2>1. Brought(c) \in Seq(Nat) /\ pending \in Seq(Nat)
    BY <1>2, CopyBytes DEF HistoryTypes
  <2>2. x \in Seq(Nat)
    BY <2>1
  <2>3. log' = log \/ log' = Append(log, x)
    BY <1>2 DEF CopyPacket, Brought
  <2>4. pc[c] \in WritePC
    BY <1>2, LabelKinds DEF CopyPacket, WriteCopy
  <2>5. stage[c] \in InsideStages
    BY <2>4 DEF SessionInv, SessionOf, InsideStages
  <2> QED
    BY <2>2, <2>3, <2>5
<1> QED
  BY <1>1, <1>2

\* While d holds mutexLock, no other thread adds to the log.
LEMMA InsideAlone ==
  ASSUME IInv, IInv', StageTypes, SessionInv, HistoryTypes, BytesInv, NEW c \in Clients, Handler(c),
         NEW d \in Clients, d # c
  PROVE  /\ stage[d] \in InsideStages => log' = log
         /\ seen'[d] = seen[d]
<1>1. seen'[d] = seen[d]
  BY HandlerLeaves DEF CopyPacket, Lock, HistoryTypes
<1>2. ASSUME stage[d] \in InsideStages
      PROVE  log' = log
  <2>1. mutexLock = d
    BY <1>2 DEF SessionInv, SessionOf
  <2>2. stage[c] \notin InsideStages
    BY <2>1 DEF SessionInv, SessionOf
  <2> QED
    BY <2>2, LogGrows
<1> QED
  BY <1>1, <1>2

-----------------------------------------------------------------------------
(* The seeks.                                                              *)

\* The oldest command is in slot 0 as long as none has been dropped.
FirstAtZero == loaded /\ Len(log) <= N => Settled.out_offs = 0

\* The loop of aesd_ioctl has counted the bytes of the commands before index.
LoopCounts(c) ==
  LET f == frame[c]
  IN  /\ f.write_cmd = Uint32(packet[c].args[1])
      /\ f.write_cmd_offset = Uint32(packet[c].args[2])
      /\ f.index \in 0..Len(log) /\ f.index <= f.write_cmd
      /\ f.loc_off = PrefixLen(f.index)
      /\ pc[c] = "ioctl_entry" => f.index = f.write_cmd \/ f.write_cmd >= Len(log)

SeekOf(c) ==
  /\ stage[c] = "seek" => f_pos[c] = 0
  /\ stage[c] = "sought" /\ Asked(c) /\ pc[c] = "idle" => f_pos[c] = Target(c)
  /\ stage[c] = "sought" /\ Asked(c) /\ pc[c] \in IoctlPC => f_pos[c] = 0 /\ LoopCounts(c)

SeeksInv == FirstAtZero /\ \A c \in Clients : SeekOf(c)

\* As long as none has been dropped, command i + 1 is in slot i.
LEMMA CommandsInSlots ==
  ASSUME IInv, HistoryTypes, BytesInv, loaded, Phase = "none", Len(log) <= N, FirstAtZero
  PROVE  \A i \in Nat : /\ Occupied(i) <=> i < Len(log)
                        /\ i < Len(log) => cb.entry[i].size = Len(log[i + 1])
<1> DEFINE E == [buffptr : Pointers, size : Nat]
           L == Len(log)
<1>1. Settled = cb
  BY SettledByPhase DEF SettledIs, SettledBy, EvictPC
<1>2. BlocksHold /\ cb.out_offs = 0 /\ OffsetsInv /\ EntriesInv
  BY <1>1 DEF BytesInv, FirstAtZero, IInv, DataInv
<1>3. log \in Seq(Seq(Nat)) /\ L \in Nat /\ L <= N /\ N \in Nat
  BY NAssumption DEF HistoryTypes
<1>4. Len(Stored) = L /\ \A i \in 1..L : Stored[i] = log[i]
  <2>1. L \in 0..Len(log) /\ ~(L > N)
    BY <1>3
  <2>2. /\ Len(LastOf(log, L)) = L
        /\ \A i \in 1..L : LastOf(log, L)[i] = log[L - L + i]
    BY <1>3, <2>1, LastOfIs
  <2>3. \A i \in 1..L : L - L + i = i
    BY <1>3
  <2> QED
    BY <2>2, <2>3 DEF Stored
<1>5. Count(cb) = L /\ \A k \in 1..L : LogOf(cb)[k].size = Len(log[k])
  BY <1>1, <1>2, <1>4 DEF BlocksHold
<1>t. cb \in Buffers(E) /\ OffsetsAgree(cb)
  BY <1>2 DEF IInv, TypeInv, TypeOK, DeviceTypes, OffsetsInv, OffsetsAgree
<1>6. /\ cb.full <=> L = N
      /\ ~cb.full => L = cb.in_offs
      /\ \A k \in 1..L : LogOf(cb)[k] = cb.entry[SlotOf(cb, k - 1)]
  <2> HIDE DEF E, L
  <2> QED BY <1>t, <1>5, LogOfBuffer
<1> SUFFICES ASSUME NEW i \in Nat
             PROVE  /\ Occupied(i) <=> i < L
                    /\ i < L => cb.entry[i].size = Len(log[i + 1])
  OBVIOUS
<1> HIDE DEF L
<1>7. i \in Slots => (Occupied(i) <=> i < L)
  <2> SUFFICES ASSUME i \in Slots
               PROVE  Occupied(i) <=> i < L
    OBVIOUS
  <2>1. cb.entry[i].size > 0 <=> (cb.full \/ i < cb.in_offs)
    BY <1>2 DEF EntriesInv, InUse
  <2>2. cb.entry[i].size > 0 => cb.entry[i].buffptr # NULL
    BY <1>2, ClientAssumption DEF EntriesInv, Live
  <2>3. cb.full \/ i < cb.in_offs <=> i < L
    <3>1. i < N
      BY <1>3 DEF Slots
    <3> QED
      BY <1>6, <3>1
  <2> QED
    BY <2>1, <2>2, <2>3 DEF Occupied
<1>8. i < L => i \in Slots
  BY <1>3 DEF Slots
<1>9. ASSUME i < L
      PROVE  cb.entry[i].size = Len(log[i + 1])
  <2>1. i + 1 \in 1..L /\ (i + 1) - 1 = i /\ i < N /\ 0 + i = i
    BY <1>3, <1>9
  <2>2. SlotOf(cb, i) = i
    BY <1>2, <2>1 DEF SlotOf
  <2> QED
    BY <1>5, <1>6, <2>1, <2>2
<1> QED
  BY <1>7, <1>8, <1>9 DEF Occupied

\* Adding to a buffer that is not full moves no read offset.
LEMMA NotFullStays ==
  ASSUME NEW E, NEW b \in Buffers(E), NEW e \in E, ~b.full
  PROVE  add_entry(b, e).out_offs = b.out_offs
<1>1. /\ add_entry(b, e) \in Buffers(E)
      /\ add_entry(b, e).entry = [b.entry EXCEPT ![b.in_offs] = e]
      /\ add_entry(b, e).in_offs = Advance(b.in_offs)
      /\ add_entry(b, e).out_offs = IF b.full THEN Advance(b.out_offs) ELSE b.out_offs
      /\ add_entry(b, e).full = (b.full \/ Advance(b.in_offs) = add_entry(b, e).out_offs)
  BY AddEntryFields
<1> QED
  BY <1>1

LEMMA FirstStep ==
  ASSUME IInv, IInv', StageTypes, SessionInv, HistoryTypes, BytesInv, FirstAtZero,
         [SystemNext]_allVars
  PROVE  FirstAtZero'
<1>1. CASE UNCHANGED <<vars, log>>
  BY <1>1 DEF vars, device, files, Settled, At, new_entry, FirstAtZero
<1>2. CASE Load
  <2>1. /\ ~loaded /\ cb' = EmptyBuffer /\ pc' = pc
    BY <1>2 DEF Load, aesd_init_module, files
  <2>2. Settled' = EmptyBuffer
    BY <2>1 DEF Settled, At, EvictPC, IInv, LockInv, UnloadedClosed
  <2> QED
    BY <2>2 DEF FirstAtZero, EmptyBuffer
<1>3. ASSUME NEW c \in Clients, Handler(c), ~CopyPacket(c)
      PROVE  FirstAtZero'
  <2>1. loaded' = loaded /\ log' = log
    BY <1>3, HandlerLeaves
  <2>2. [Next]_vars
    BY SystemIsDriver
  <2>3. ~ \E d \in Clients : WriteCopy(d)
    BY <1>3, CopiesAreOfPackets
  <2>4. loaded => Settled' = Settled
    BY <2>1, <2>2, <2>3, SettledStays, SettledByPhase, SettledNext
  <2> QED
    BY <2>1, <2>4 DEF FirstAtZero
<1>4. ASSUME NEW c \in Clients, CopyPacket(c)
      PROVE  FirstAtZero'
  <2> DEFINE x == pending \o Brought(c)
             E == [buffptr : Pointers, size : Nat]
             e == new_entry'
  <2>1. /\ loaded /\ Settled = cb /\ Brought(c) \in Seq(Nat) /\ packet[c].newline \in BOOLEAN
        /\ packet[c].newline => Settled' = add_entry(cb, e)
        /\ ~packet[c].newline => Settled' = cb
    BY <1>4, CopyBytes
  <2>2. CASE ~packet[c].newline
    <3>1. log' = log
      BY <1>4, <2>2 DEF CopyPacket
    <3> QED
      BY <2>1, <2>2, <3>1 DEF FirstAtZero
  <2>3. CASE packet[c].newline
    <3> SUFFICES ASSUME Len(log') <= N
                 PROVE  Settled'.out_offs = 0
      BY DEF FirstAtZero
    <3>b. Brought(c) \in Seq(Nat) /\ pending \in Seq(Nat) /\ log \in Seq(Seq(Nat))
      BY <2>1 DEF HistoryTypes
    <3>1. x \in Seq(Nat) /\ log' = Append(log, x)
      <4>1. x \in Seq(Nat)
        BY <3>b, ConcatProperties
      <4>2. log' = Append(log, x)
        BY <1>4, <2>3 DEF CopyPacket, Brought
      <4> QED
        BY <4>1, <4>2
    <3> HIDE DEF x
    <3>2. Len(log) + 1 <= N /\ Len(log) \in Nat
      BY <3>1, <3>b
    <3>3. cb.out_offs = 0
      <4>1. Len(log) <= N
        BY <3>2, NAssumption
      <4> QED
        BY <2>1, <4>1 DEF FirstAtZero
    <3>4. Count(cb) = Len(log)
      <4>1. Len(log) \in 0..Len(log) /\ ~(Len(log) > N)
        BY <3>2, NAssumption
      <4>2. Len(Stored) = Len(log)
        BY <3>b, <4>1, LastOfIs DEF Stored
      <4> QED
        BY <2>1, <4>2 DEF BytesInv, BlocksHold
    <3>t. cb \in Buffers(E) /\ e \in E
      <4>1. cb \in Buffers(E) /\ tmp_buf' \in Pointers /\ tmp_size' \in Nat
        BY DEF IInv, TypeInv, TypeOK, DeviceTypes
      <4> QED
        BY <4>1 DEF new_entry
    <3>5. ~cb.full
      BY <3>2, <3>4, NAssumption DEF Count
    <3> HIDE DEF E, e
    <3>6. add_entry(cb, e).out_offs = cb.out_offs
      BY <3>t, <3>5, NotFullStays
    <3> QED
      BY <2>1, <2>3, <3>3, <3>6
  <2> QED
    BY <2>1, <2>2, <2>3
<1>5. ASSUME NEW c \in Clients, NEW p \in Packets, Receive(c, p)
      PROVE  FirstAtZero'
  BY <1>1, <1>5 DEF Receive, history
<1> QED
  BY <1>1, <1>2, <1>3, <1>4, <1>5 DEF SystemNext, allVars, history

\* A step of aesd_ioctl under mx_lock, in a seek with both numbers.
LEMMA CountStep ==
  ASSUME IInv, IInv', StageTypes, SessionInv, HistoryTypes, BytesInv, SeeksInv,
         NEW c \in Clients, Asked(c), stage[c] = "sought", seen[c] = Len(log),
         IoctlLoop(c) \/ IoctlEntry(c),
         UNCHANGED <<session, history>>
  PROVE  SeekOf(c)'
<1> DEFINE f == frame[c]
           a == Uint32(packet[c].args[1])
           b == Uint32(packet[c].args[2])
           L == Len(log)
<1>t. /\ TypeOK /\ pc \in [Clients -> Labels] /\ frame \in [Clients -> AnyFrame]
      /\ f_pos \in [Clients -> Nat] /\ frame[c] \in Frames(pc[c])
  BY DEF IInv, TypeInv, TypeOK, FileTypes
<1>u. /\ stage' = stage /\ packet' = packet /\ log' = log /\ seen' = seen
  BY DEF session, history
<1>k. Asked(c)' /\ Target(c)' = Target(c)
  BY <1>u DEF Asked, Target, PrefixLen
<1>p. \A k : PrefixLen(k)' = PrefixLen(k)
  BY <1>u DEF PrefixLen
<1>1. pc[c] \in {"ioctl_loop", "ioctl_entry"} /\ pc[c] \in IoctlPC
  BY DEF IoctlLoop, IoctlEntry, IoctlPC
<1>2. f \in IoctlFrame
  BY <1>t, <1>1, FrameKinds
<1>3. /\ f.index \in Nat /\ f.loc_off \in Nat /\ f.write_cmd \in Nat /\ f.write_cmd_offset \in Nat
  BY <1>2 DEF IoctlFrame
<1>4. /\ f_pos[c] = 0
      /\ f.write_cmd = a /\ f.write_cmd_offset = b
      /\ f.index \in 0..L /\ f.index <= f.write_cmd
      /\ f.loc_off = PrefixLen(f.index)
      /\ pc[c] = "ioctl_entry" => f.index = f.write_cmd \/ f.write_cmd >= L
  BY <1>1 DEF SeeksInv, SeekOf, LoopCounts
<1>5. Phase = "none" /\ loaded
  <2>1. pc[c] \in LockedPC /\ pc[c] \notin EvictPC \cup AddPC /\ pc[c] # "closed"
    BY <1>1 DEF LockedPC, EvictPC, AddPC
  <2> QED
    BY <2>1, PhaseInside DEF IInv, LockInv, UnloadedClosed
<1>6. L <= N /\ L \in Nat /\ log \in Seq(Seq(Nat))
  BY DEF Asked, HistoryTypes
<1>7. \A i \in Nat : /\ Occupied(i) <=> i < L
                     /\ i < L => cb.entry[i].size = Len(log[i + 1])
  BY <1>5, <1>6, CommandsInSlots DEF SeeksInv
<1>8. \A i \in 0..(L - 1) : PrefixLen(i + 1) = PrefixLen(i) + Len(log[i + 1])
  <2>1. PICK at \in [0..L -> Nat] :
          /\ \A k \in 1..L : at[k] = at[k - 1] + Len(log[k])
          /\ \A k \in 0..L : Len(FlattenSeq(SubSeq(log, 1, k))) = at[k]
    BY <1>6, PrefixLengths
  <2>2. \A i \in 0..(L - 1) : i \in 0..L /\ i + 1 \in 0..L /\ i + 1 \in 1..L /\ (i + 1) - 1 = i
    BY <1>6
  <2> QED
    BY <2>1, <2>2 DEF PrefixLen
<1>s. stage'[c] = "sought" /\ stage'[c] # "seek"
  BY <1>u
<1>9. CASE IoctlLoop(c)
  <2>0. f_pos' = f_pos /\ pc[c] = "ioctl_loop" /\ "ioctl_entry" \in IoctlPC
    BY <1>9 DEF IoctlLoop, IoctlPC
  <2>1. CASE f.index < f.write_cmd /\ Occupied(f.index)
    <3>1. frame'[c] = [f EXCEPT !.index = @ + 1, !.loc_off = @ + cb.entry[f.index].size]
          /\ pc' = pc
      BY <1>9, <1>t, <2>1 DEF IoctlLoop
    <3>2. /\ frame'[c].index = f.index + 1 /\ frame'[c].write_cmd = f.write_cmd
          /\ frame'[c].loc_off = f.loc_off + cb.entry[f.index].size
          /\ frame'[c].write_cmd_offset = f.write_cmd_offset
      BY <1>2, <3>1 DEF IoctlFrame
    <3>3. f.index < L /\ cb.entry[f.index].size = Len(log[f.index + 1])
      BY <1>3, <1>7, <2>1
    <3>4. /\ f.index \in 0..(L - 1) /\ f.index + 1 \in 0..L /\ f.index + 1 <= f.write_cmd
      BY <1>3, <1>6, <2>1, <3>3
    <3>5. f.loc_off + cb.entry[f.index].size = PrefixLen(f.index + 1)
      BY <1>4, <1>8, <3>3, <3>4
    <3>6. frame'[c].loc_off = PrefixLen(frame'[c].index)
      BY <3>2, <3>5
    <3>7. LoopCounts(c)'
      BY <1>4, <1>u, <2>0, <3>1, <3>2, <3>4, <3>6 DEF LoopCounts, PrefixLen
    <3> QED
      BY <1>4, <1>s, <2>0, <3>1, <3>7 DEF SeekOf
  <2>2. CASE ~(f.index < f.write_cmd /\ Occupied(f.index))
    <3>1. /\ frame'[c] = [f EXCEPT !.retval = IF f.index < f.write_cmd THEN "EINVAL" ELSE "ok"]
          /\ pc'[c] = "ioctl_entry"
      BY <1>9, <1>t, <2>2 DEF IoctlLoop, Goto
    <3>2. /\ frame'[c].index = f.index /\ frame'[c].write_cmd = f.write_cmd
          /\ frame'[c].loc_off = f.loc_off /\ frame'[c].write_cmd_offset = f.write_cmd_offset
      BY <1>2, <3>1 DEF IoctlFrame
    <3>3. f.index = f.write_cmd \/ f.write_cmd >= L
      <4>1. CASE f.index < f.write_cmd
        <5>1. ~(f.index < L)
          BY <1>3, <1>7, <2>2, <4>1
        <5> QED
          BY <1>3, <1>6, <4>1, <5>1
      <4>2. CASE ~(f.index < f.write_cmd)
        BY <1>3, <1>4, <4>2
      <4> QED
        BY <4>1, <4>2
    <3>4. LoopCounts(c)'
      BY <1>4, <1>u, <3>2, <3>3 DEF LoopCounts, PrefixLen
    <3> QED
      BY <1>4, <1>s, <2>0, <3>1, <3>4 DEF SeekOf
  <2> QED
    BY <2>1, <2>2
<1>10. CASE IoctlEntry(c)
  <2> DEFINE taken == Occupied(f.write_cmd) /\ f.write_cmd_offset <= cb.entry[f.write_cmd].size
  <2>1. /\ pc[c] = "ioctl_entry" /\ pc'[c] = "idle"
        /\ f_pos'[c] = IF taken THEN f.loc_off + f.write_cmd_offset ELSE f_pos[c]
    BY <1>10, <1>t, OwnStep DEF IoctlEntry
  <2>2. Target(c) = IF a < L /\ b <= Len(log[a + 1]) THEN PrefixLen(a) + b ELSE 0
    BY DEF Target
  <2>3. taken <=> a < L /\ b <= Len(log[a + 1])
    BY <1>3, <1>4, <1>7
  <2>4. a < L => f.index = a
    BY <1>3, <1>4, <1>6, <2>1
  <2> HIDE DEF taken
  <2>5. f_pos'[c] = Target(c)
    <3>1. CASE taken
      <4>1. f.index = a
        BY <2>3, <2>4, <3>1
      <4>2. f.loc_off + f.write_cmd_offset = PrefixLen(a) + b
        BY <1>4, <4>1
      <4> QED
        BY <2>1, <2>2, <2>3, <3>1, <4>2
    <3>2. CASE ~taken
      BY <1>4, <2>1, <2>2, <2>3, <3>2
    <3> QED
      BY <3>1, <3>2
  <2> QED
    BY <1>k, <1>s, <2>1, <2>5, LabelKinds DEF SeekOf
<1> QED
  BY <1>9, <1>10

\* A step of thread c keeps its own seek.
LEMMA OwnSeek ==
  ASSUME IInv, IInv', StageTypes, SessionInv, HistoryTypes, BytesInv, ReplyInv, SeeksInv,
         NEW c \in Clients, Handler(c)
  PROVE  SeekOf(c)'
<1>t. /\ TypeOK /\ f_pos \in [Clients -> Nat] /\ stage \in [Clients -> Stages]
      /\ pc \in [Clients -> Labels] /\ frame \in [Clients -> AnyFrame]
  BY DEF IInv, TypeInv, TypeOK, FileTypes, StageTypes
<1>r. ReplyOf(c) /\ SessionOf(c) /\ SeekOf(c)
  BY DEF ReplyInv, SessionInv, SeeksInv
<1>l. \A l : Stage(c, l) => stage'[c] = l
  BY <1>t DEF Stage
<1>0. CASE stage'[c] \notin {"seek", "sought"}
  BY <1>0 DEF SeekOf
<1>1. CASE Open(c)
  <2>1. stage'[c] \in {"seek", "write"} /\ f_pos'[c] = 0
    BY <1>1, <1>l, <1>t DEF Open, aesd_open
  <2> QED
    BY <2>1 DEF SeekOf
<1>2. CASE Seek(c)
  <2>1. /\ stage[c] = "seek" /\ stage'[c] = "sought" /\ packet' = packet
        /\ log' = log /\ seen' = seen
    BY <1>2, <1>l DEF Seek, history
  <2>2. PICK sp \in SeekParams(packet[c].args) :
          aesd_ioctl(c, sp) /\ (sp[1] <= N => pc'[c] = "ioctl_lock")
    BY <1>2 DEF Seek
  <2>3. f_pos'[c] = 0
    BY <1>r, <2>1, <2>2 DEF SeekOf, aesd_ioctl
  <2> SUFFICES ASSUME Asked(c)'
               PROVE  /\ pc'[c] = "idle" => Target(c)' = 0
                      /\ pc'[c] \in IoctlPC => LoopCounts(c)'
    BY <2>1, <2>3 DEF SeekOf
  <2>4. Asked(c) /\ Target(c)' = Target(c)
    BY <2>1 DEF Asked, Target, PrefixLen
  <2> DEFINE a == Uint32(packet[c].args[1])
             b == Uint32(packet[c].args[2])
  <2>5. sp[1] = a /\ sp[2] = b /\ a \in Nat /\ b \in Nat
    BY <2>2, <2>4, AskedArgs DEF SeekParams, Asked
  <2>6. seen[c] = Len(log) /\ seen[c] <= N /\ Len(log) \in Nat /\ log \in Seq(Seq(Nat))
    BY <1>r, <2>1, <2>4 DEF ReplyOf, InsideStages, Asked, HistoryTypes
  <2>7. ASSUME pc'[c] = "idle"
        PROVE  Target(c) = 0
    <3>1. ~(sp[1] <= N)
      BY <2>2, <2>7
    <3>2. ~(a < seen[c])
      <4>1. ~(a <= N) /\ a \in Nat
        BY <2>5, <3>1
      <4>2. seen[c] <= N /\ seen[c] \in Nat
        BY <2>6
      <4> HIDE DEF a
      <4> QED
        BY <4>1, <4>2, NAssumption
    <3> QED
      BY <3>2 DEF Target
  <2>8. ASSUME pc'[c] \in IoctlPC
        PROVE  LoopCounts(c)'
    <3>1. Enter(c, "ioctl_lock",
                [write_cmd |-> sp[1], write_cmd_offset |-> sp[2],
                 index |-> 0, loc_off |-> 0, retval |-> "ok"])
      BY <1>t, <2>2, <2>8, OwnStep, LabelKinds DEF aesd_ioctl
    <3>2. /\ frame'[c] = [write_cmd |-> sp[1], write_cmd_offset |-> sp[2],
                          index |-> 0, loc_off |-> 0, retval |-> "ok"]
          /\ pc'[c] = "ioctl_lock"
      BY <1>t, <3>1, OwnStep
    <3>3. PrefixLen(0) = 0
      <4>1. PICK at \in [0..Len(log) -> Nat] :
              /\ at[0] = 0
              /\ \A k \in 0..Len(log) : Len(FlattenSeq(SubSeq(log, 1, k))) = at[k]
        BY <2>6, PrefixLengths
      <4>2. 0 \in 0..Len(log)
        BY <2>6
      <4> QED
        BY <4>1, <4>2 DEF PrefixLen
    <3>4. 0 \in 0..Len(log) /\ 0 <= a
      BY <2>5, <2>6
    <3> HIDE DEF a, b
    <3>5. /\ frame'[c].write_cmd = a /\ frame'[c].write_cmd_offset = b
          /\ frame'[c].index = 0 /\ frame'[c].loc_off = 0
      BY <2>5, <3>2
    <3> QED
      BY <2>1, <3>2, <3>3, <3>4, <3>5 DEF LoopCounts, PrefixLen, a, b
  <2> QED
    BY <2>4, <2>7, <2>8
<1>3. CASE CopyPacket(c)
  <2>1. stage' = stage /\ stage[c] = "rewind"
    BY <1>3, <1>r, LabelKinds DEF CopyPacket, WriteCopy, SessionOf, session
  <2> QED
    BY <1>0, <2>1
<1>4. CASE CopyAndSend(c)
  <2>1. stage' = stage /\ stage[c] = "read"
    BY <1>4, <1>r, LabelKinds DEF CopyAndSend, ReadCopy, SessionOf
  <2> QED
    BY <1>0, <2>1
<1>5. CASE Read(c)
  <2>1. stage' = stage /\ stage[c] = "read"
    BY <1>5 DEF Read, session
  <2> QED
    BY <1>0, <2>1
<1>6. CASE Lock(c) \/ Write(c) \/ Rewind(c) \/ Sought(c) \/ Close(c) \/ Unlock(c) \/ FindOrEnd(c)
  <2>1. stage'[c] \in {"open", "rewind", "read", "unlock", "done", "close"}
    BY <1>6, <1>l DEF Lock, Write, Rewind, Sought, Close, Unlock, FindOrEnd
  <2> QED
    BY <1>0, <2>1
<1>7. CASE DriverStep(c)
  <2>1. UNCHANGED <<session, history>>
    BY <1>7 DEF DriverStep
  <2>2. stage' = stage /\ packet' = packet /\ log' = log /\ seen' = seen
    BY <2>1 DEF session, history
  <2>3. CASE IoctlLock(c)
    <3>1. /\ pc[c] = "ioctl_lock" /\ pc'[c] = "ioctl_loop" /\ frame' = frame /\ f_pos' = f_pos
      BY <2>3, <1>t, OwnStep DEF IoctlLock
    <3>2. stage[c] = "sought"
      BY <1>r, <3>1, LabelKinds DEF SessionOf
    <3>3. Asked(c) => LoopCounts(c)' /\ f_pos'[c] = 0
      BY <1>r, <2>2, <3>1, <3>2, LabelKinds DEF SeekOf, LoopCounts, PrefixLen
    <3>4. Asked(c)' <=> Asked(c)
      BY <2>2 DEF Asked
    <3> QED
      BY <2>2, <3>1, <3>2, <3>3, <3>4 DEF SeekOf
  <2>4. CASE IoctlLoop(c) \/ IoctlEntry(c)
    <3>1. stage[c] = "sought"
      BY <1>r, <2>4 DEF SessionOf, IoctlLoop, IoctlEntry, IoctlPC
    <3>2. seen[c] = Len(log)
      BY <1>r, <3>1 DEF ReplyOf, InsideStages
    <3>3. CASE Asked(c)
      BY <2>1, <2>4, <3>1, <3>2, <3>3, CountStep
    <3>4. CASE ~Asked(c)
      <4>1. ~Asked(c)'
        BY <2>2, <3>4 DEF Asked
      <4> QED
        BY <2>2, <3>1, <4>1 DEF SeekOf
    <3> QED
      BY <3>3, <3>4
  <2>5. CASE ~IoctlLock(c) /\ ~IoctlLoop(c) /\ ~IoctlEntry(c)
    <3>1. pc[c] \in ReadPC \cup WritePC
      BY <1>7, <2>5 DEF DriverStep, ReadLength, EvictFree, EvictClear, AddOut, AddStore, AddIn,
         WriteUnlock, SizeLoad, SizeStore, ReadPC, WritePC, EvictPC, AddPC
    <3>2. stage[c] \in {"read", "rewind"}
      BY <1>r, <3>1 DEF SessionOf
    <3> QED
      BY <1>0, <2>2, <3>2
  <2> QED
    BY <2>3, <2>4, <2>5
<1> QED
  BY <1>1, <1>2, <1>3, <1>4, <1>5, <1>6, <1>7 DEF Handler

\* Every step keeps the seeks.
LEMMA SeeksStep ==
  ASSUME IInv, IInv', StageTypes, SessionInv, HistoryTypes, BytesInv, ReplyInv, SeeksInv,
         [SystemNext]_allVars
  PROVE  SeeksInv'
<1>1. FirstAtZero'
  BY FirstStep DEF SeeksInv
<1>t. /\ TypeOK /\ stage \in [Clients -> Stages] /\ packet \in [Clients -> Packets \cup {NoPacket}]
  BY DEF IInv, TypeInv, StageTypes
<1> SUFFICES ASSUME NEW d \in Clients
             PROVE  SeekOf(d)'
  BY <1>1 DEF SeeksInv
<1>s. SeekOf(d)
  BY DEF SeeksInv
<1>2. ASSUME stage'[d] = stage[d], packet'[d] = packet[d], f_pos'[d] = f_pos[d],
             pc'[d] = pc[d], frame'[d] = frame[d], seen'[d] = seen[d],
             stage[d] \in InsideStages => log' = log
      PROVE  SeekOf(d)'
  <2>1. CASE stage[d] \notin InsideStages
    BY <1>2, <2>1 DEF SeekOf, InsideStages
  <2>2. CASE stage[d] \in InsideStages
    <3>1. log' = log
      BY <1>2, <2>2
    <3>2. Asked(d)' <=> Asked(d)
      BY <1>2 DEF Asked
    <3>3. Target(d)' = Target(d)
      BY <1>2, <3>1 DEF Target, PrefixLen
    <3>4. LoopCounts(d)' <=> LoopCounts(d)
      BY <1>2, <3>1 DEF LoopCounts, PrefixLen
    <3> QED
      BY <1>2, <1>s, <3>2, <3>3, <3>4 DEF SeekOf
  <2> QED
    BY <2>1, <2>2
<1>3. CASE Load
  <2>1. /\ UNCHANGED <<stage, packet, f_pos, pc, frame, seen, log>>
    BY <1>3 DEF Load, aesd_init_module, session, history, files
  <2> QED
    BY <1>2, <2>1
<1>4. ASSUME NEW c \in Clients, NEW p \in Packets, Receive(c, p)
      PROVE  SeekOf(d)'
  <2>1. /\ UNCHANGED <<log, seen, f_pos, pc, frame>>
        /\ stage' = [stage EXCEPT ![c] = "lock"]
        /\ packet' = [packet EXCEPT ![c] = p]
    BY <1>4 DEF Receive, Stage, history, vars, files
  <2>2. CASE d = c
    <3>1. stage'[d] = "lock"
      BY <1>t, <2>1, <2>2
    <3> QED
      BY <3>1 DEF SeekOf
  <2>3. CASE d # c
    <3>1. stage'[d] = stage[d] /\ packet'[d] = packet[d]
      BY <1>t, <2>1, <2>3
    <3> QED
      BY <1>2, <2>1, <3>1
  <2> QED
    BY <2>2, <2>3
<1>5. ASSUME NEW c \in Clients, Handler(c)
      PROVE  SeekOf(d)'
  <2>1. CASE d = c
    BY <1>5, <2>1, OwnSeek
  <2>2. CASE d # c
    <3>1. /\ pc'[d] = pc[d] /\ frame'[d] = frame[d] /\ f_pos'[d] = f_pos[d]
          /\ stage'[d] = stage[d] /\ packet' = packet
      BY <1>5, <1>t, <2>2, OtherThread
    <3>2. (stage[d] \in InsideStages => log' = log) /\ seen'[d] = seen[d]
      BY <1>5, <2>2, InsideAlone
    <3> QED
      BY <1>2, <3>1, <3>2
  <2> QED
    BY <2>1, <2>2
<1>6. CASE UNCHANGED allVars
  <2>1. UNCHANGED <<stage, packet, f_pos, pc, frame, seen, log>>
    BY <1>6 DEF allVars, session, history, vars, files
  <2> QED
    BY <1>2, <2>1
<1> QED
  BY <1>3, <1>4, <1>5, <1>6 DEF SystemNext

-----------------------------------------------------------------------------
(* The replies, step by step.                                              *)

\* A step of another thread keeps the reply of d.
LEMMA OtherReply ==
  ASSUME IInv, IInv', StageTypes, SessionInv, HistoryTypes, BytesInv, ReplyInv,
         NEW c \in Clients, Handler(c), NEW d \in Clients, d # c
  PROVE  ReplyOf(d)'
<1>1. /\ f_pos'[d] = f_pos[d] /\ stage'[d] = stage[d] /\ packet' = packet
  BY OtherThread DEF IInv, TypeInv
<1>2. reply'[d] = reply[d]
  <2>1. CASE CopyAndSend(c)
    BY <2>1 DEF CopyAndSend, ReplyInv
  <2> QED
    BY <2>1, HandlerLeaves
<1>3. seen'[d] = seen[d]
  BY InsideAlone
<1>4. log' = log \/ \E x \in Seq(Nat) : log' = Append(log, x)
  BY LogGrows
<1>5. ReplyOf(d)
  BY DEF ReplyInv
<1>6. stage[d] \in InsideStages => log' = log
  BY InsideAlone
<1>7. stage[d] \in InsideStages => Whole' = Whole
  BY <1>6 DEF Whole, Stored
<1>8. stage'[d] \in {"lock", "open", "write", "rewind", "seek", "sought"} => reply'[d] = << >>
  BY <1>1, <1>2, <1>5 DEF ReplyOf
<1>9. stage'[d] \in InsideStages => seen'[d] = Len(log')
  BY <1>1, <1>3, <1>5, <1>6 DEF ReplyOf
<1>10. ASSUME stage'[d] = "read"
       PROVE  \E k \in Nat : SentFrom(d, k)' /\ Right(d, k)'
  <2>1. PICK k \in Nat : SentFrom(d, k) /\ Right(d, k)
    BY <1>1, <1>5, <1>10 DEF ReplyOf
  <2>2. stage[d] \in InsideStages
    BY <1>1, <1>10 DEF InsideStages
  <2>3. SentFrom(d, k)'
    BY <1>1, <1>2, <1>7, <2>1, <2>2 DEF SentFrom
  <2>4. Right(d, k)'
    BY <1>1, <1>3, <1>6, <2>1, <2>2, RightSame
  <2> QED
    BY <2>3, <2>4
<1>11. ASSUME stage'[d] \in {"close", "unlock", "done"}
       PROVE  seen'[d] <= Len(log') /\ Replied(d)'
  <2>1. seen[d] <= Len(log) /\ Replied(d)
    BY <1>1, <1>5, <1>11 DEF ReplyOf
  <2> QED
    BY <1>1, <1>2, <1>3, <1>4, <2>1, RepliedStays
<1> QED
  BY <1>8, <1>9, <1>10, <1>11 DEF ReplyOf

\* A step of thread c keeps its own reply.
LEMMA OwnReply ==
  ASSUME IInv, IInv', StageTypes, SessionInv, Alone, AloneInv, HistoryTypes, BytesInv, ReplyInv,
         SeeksInv, NEW c \in Clients, Handler(c)
  PROVE  ReplyOf(c)' /\ reply' \in [Clients -> Seq(Nat)]
<1>t. /\ TypeOK /\ f_pos \in [Clients -> Nat] /\ stage \in [Clients -> Stages]
      /\ seen \in [Clients -> Nat] /\ reply \in [Clients -> Seq(Nat)]
      /\ log \in Seq(Seq(Nat)) /\ Len(log) \in Nat
  BY DEF IInv, TypeInv, TypeOK, FileTypes, StageTypes, HistoryTypes, ReplyInv
<1>r. ReplyOf(c) /\ SessionOf(c)
  BY DEF ReplyInv, SessionInv
<1>l. \A l : Stage(c, l) => stage'[c] = l
  BY <1>t DEF Stage
<1>1. CASE Lock(c)
  <2>1. stage'[c] = "open" /\ reply' = reply /\ log' = log /\ seen'[c] = Len(log) /\ stage[c] = "lock"
    BY <1>1, <1>l, <1>t DEF Lock
  <2> QED
    BY <1>r, <1>t, <2>1 DEF ReplyOf
<1>2. CASE Open(c) \/ Write(c) \/ Seek(c)
  <2>1. /\ stage[c] \in {"open", "write", "seek"} /\ stage'[c] \in {"seek", "write", "rewind", "sought"}
        /\ reply' = reply /\ log' = log /\ seen' = seen
    BY <1>2, <1>l DEF Open, Write, Seek, history
  <2> QED
    BY <1>r, <1>t, <2>1 DEF ReplyOf, InsideStages
<1>3. CASE Rewind(c)
  <2>1. /\ stage[c] = "rewind" /\ stage'[c] = "read" /\ f_pos'[c] = 0
        /\ reply' = reply /\ log' = log /\ seen' = seen
    BY <1>3, <1>l DEF Rewind, history
  <2>2. reply'[c] = << >>
    BY <1>r, <2>1 DEF ReplyOf
  <2>3. SentFrom(c, 0)'
    <3>1. Len(<< >>) = 0 /\ << >> \in Seq(Nat) /\ 0 + 0 = 0
      OBVIOUS
    <3> QED
      BY <2>1, <2>2, <3>1 DEF SentFrom
  <2>4. Right(c, 0)'
    BY <1>3, <1>r, <2>1 DEF Rewind, SessionOf, Right, Asked
  <2> QED
    BY <1>r, <1>t, <2>1, <2>3, <2>4 DEF ReplyOf, InsideStages
<1>4. CASE Sought(c)
  <2>1. /\ stage[c] = "sought" /\ stage'[c] = "read" /\ f_pos' = f_pos /\ packet' = packet
        /\ reply' = reply /\ log' = log /\ seen' = seen
    BY <1>4, <1>l DEF Sought, history, vars, files
  <2>2. reply'[c] = << >> /\ packet[c].seek
    BY <1>r, <2>1 DEF ReplyOf, SessionOf
  <2>3. PICK k \in Nat : k = f_pos[c]
    BY <1>t
  <2>4. SentFrom(c, k)'
    <3>1. Len(<< >>) = 0 /\ << >> \in Seq(Nat) /\ k + 0 = k
      OBVIOUS
    <3> QED
      BY <2>1, <2>2, <2>3, <3>1 DEF SentFrom
  <2>5. Right(c, k)'
    <3>1. Asked(c) => k = Target(c)
      BY <1>4, <2>1, <2>3 DEF Sought, SeeksInv, SeekOf
    <3>2. Right(c, k)
      BY <2>2, <3>1 DEF Right
    <3> QED
      BY <2>1, <3>2, RightSame
  <2> QED
    BY <1>r, <1>t, <2>1, <2>4, <2>5 DEF ReplyOf, InsideStages
<1>5. CASE \/ Read(c)
           \/ ReadLength(c) /\ DriverStep(c)
           \/ FindOrEnd(c) /\ pc'[c] # "idle"
  <2>1. /\ stage[c] = "read" /\ stage'[c] = "read" /\ f_pos' = f_pos /\ packet' = packet
        /\ reply' = reply /\ log' = log /\ seen' = seen
    <3>1. CASE Read(c)
      BY <3>1 DEF Read, aesd_read, session, history
    <3>2. CASE ReadLength(c) /\ DriverStep(c)
      BY <1>r, <3>2, LabelKinds DEF ReadLength, DriverStep, session, history, SessionOf
    <3>3. CASE FindOrEnd(c) /\ pc'[c] # "idle"
      <4>1. stage'[c] = "read"
        BY <1>l, <3>3 DEF FindOrEnd
      <4>2. stage[c] = "read"
        BY <1>r, <3>3, LabelKinds DEF FindOrEnd, ReadFind, SessionOf
      <4> QED
        BY <3>3, <4>1, <4>2 DEF FindOrEnd, ReadFind, history
    <3> QED
      BY <1>5, <3>1, <3>2, <3>3
  <2>2. PICK k \in Nat : SentFrom(c, k) /\ Right(c, k)
    BY <1>r, <2>1 DEF ReplyOf
  <2>3. SentFrom(c, k)'
    BY <2>1, <2>2 DEF SentFrom, Whole, Stored
  <2>4. Right(c, k)'
    BY <2>1, <2>2, RightSame
  <2> QED
    BY <1>r, <1>t, <2>1, <2>3, <2>4 DEF ReplyOf, InsideStages
<1>6. CASE FindOrEnd(c) /\ pc'[c] = "idle"
  <2>1. /\ stage'[c] = "close" /\ packet' = packet
        /\ reply' = reply /\ log' = log /\ seen' = seen
    BY <1>6, <1>l DEF FindOrEnd, history
  <2>2. stage[c] = "read"
    BY <1>r, <1>6, LabelKinds DEF FindOrEnd, ReadFind, SessionOf
  <2>3. PICK k \in Nat : SentFrom(c, k) /\ Right(c, k)
    BY <1>r, <2>2 DEF ReplyOf
  <2>4. seen[c] = Len(log)
    BY <1>r, <2>2 DEF ReplyOf, InsideStages
  <2>5. Replied(c)'
    BY <1>6, <2>3, <2>4, EndStep
  <2>6. seen'[c] <= Len(log')
    BY <1>t, <2>1, <2>4
  <2> QED
    BY <1>t, <2>1, <2>4, <2>5, <2>6 DEF ReplyOf
<1>7. CASE CopyAndSend(c)
  <2>1. /\ stage' = stage /\ packet' = packet /\ log' = log /\ seen' = seen
    BY <1>7 DEF CopyAndSend, history
  <2>2. stage[c] = "read"
    BY <1>r, <1>7, LabelKinds DEF CopyAndSend, ReadCopy, SessionOf
  <2>3. PICK k \in Nat : SentFrom(c, k) /\ Right(c, k)
    BY <1>r, <2>2 DEF ReplyOf
  <2>4. SentFrom(c, k)'
    BY <1>7, <2>3, SendStep
  <2>5. reply' \in [Clients -> Seq(Nat)]
    <3>1. reply'[c] \in Seq(Nat)
      BY <2>4 DEF SentFrom
    <3>2. PICK s : reply' = [reply EXCEPT ![c] = s]
      BY <1>7 DEF CopyAndSend
    <3> QED
      BY <1>t, <3>1, <3>2
  <2>6. Right(c, k)'
    BY <2>1, <2>3, RightSame
  <2> QED
    BY <1>r, <2>1, <2>2, <2>4, <2>5, <2>6 DEF ReplyOf, InsideStages
<1>8. CASE Close(c) \/ Unlock(c)
  <2>1. /\ stage[c] \in {"close", "unlock"} /\ stage'[c] \in {"unlock", "done"} /\ packet' = packet
        /\ reply' = reply /\ log' = log /\ seen' = seen
    BY <1>8, <1>l DEF Close, Unlock, history
  <2>2. Replied(c)' /\ seen'[c] <= Len(log') /\ seen'[c] = Len(log')
    <3>1. Replied(c) /\ seen[c] <= Len(log) /\ seen[c] = Len(log)
      BY <1>r, <2>1 DEF ReplyOf, InsideStages
    <3>2. \A k : Right(c, k)' <=> Right(c, k)
      BY <2>1, RightSame
    <3> QED
      BY <2>1, <3>1, <3>2 DEF Replied
  <2> QED
    BY <1>t, <2>1, <2>2 DEF ReplyOf
<1>9. CASE CopyPacket(c)
  <2>1. /\ stage' = stage /\ reply' = reply /\ seen'[c] = Len(log')
    BY <1>9, <1>t DEF CopyPacket, session
  <2>2. stage[c] = "rewind"
    BY <1>r, <1>9, LabelKinds DEF CopyPacket, WriteCopy, SessionOf
  <2> QED
    BY <1>r, <1>t, <2>1, <2>2 DEF ReplyOf
<1>10. CASE DriverStep(c) /\ ~ReadLength(c)
  <2>1. /\ stage' = stage /\ reply' = reply /\ seen' = seen /\ log' = log
    BY <1>10 DEF DriverStep, session, history
  <2>2. pc[c] \in WritePC \cup IoctlPC
    BY <1>10 DEF DriverStep, EvictFree, EvictClear, AddOut, AddStore, AddIn, WriteUnlock,
       SizeLoad, SizeStore, IoctlLock, IoctlLoop, IoctlEntry, WritePC, IoctlPC, AddPC, EvictPC
  <2>3. stage[c] \in {"rewind", "sought"}
    BY <1>r, <2>2 DEF SessionOf
  <2> QED
    BY <1>r, <1>t, <2>1, <2>3 DEF ReplyOf, InsideStages
<1>11. CASE DriverStep(c)
  BY <1>5, <1>10, <1>11
<1>12. CASE FindOrEnd(c)
  BY <1>5, <1>6, <1>12
<1> QED
  BY <1>1, <1>2, <1>3, <1>4, <1>5, <1>7, <1>8, <1>9, <1>11, <1>12 DEF Handler

\* Every step keeps the replies.
LEMMA ReplyStep ==
  ASSUME IInv, IInv', StageTypes, SessionInv, Alone, AloneInv, HistoryTypes, BytesInv, ReplyInv,
         SeeksInv, [SystemNext]_allVars
  PROVE  ReplyInv'
<1>1. ASSUME UNCHANGED <<stage, packet, reply, log, seen, f_pos>>
      PROVE  ReplyInv'
  <2>1. ASSUME NEW d \in Clients
        PROVE  ReplyOf(d)'
    <3>1. ReplyOf(d)
      BY DEF ReplyInv
    <3>2. \A k : Right(d, k)' <=> Right(d, k)
      BY <1>1, RightSame
    <3> QED
      BY <1>1, <3>1, <3>2 DEF ReplyOf, SentFrom, Whole, Stored, Replied
  <2> QED
    BY <1>1, <2>1 DEF ReplyInv
<1>2. CASE Load
  <2>1. UNCHANGED <<stage, packet, reply, log, seen, f_pos>>
    BY <1>2 DEF Load, aesd_init_module, session, history, files
  <2> QED
    BY <1>1, <2>1
<1>3. ASSUME NEW c \in Clients, NEW p \in Packets, Receive(c, p)
      PROVE  ReplyInv'
  <2>1. /\ UNCHANGED <<log, seen, f_pos>>
        /\ stage' = [stage EXCEPT ![c] = "lock"]
        /\ packet' = [packet EXCEPT ![c] = p]
        /\ reply' = [reply EXCEPT ![c] = << >>]
    BY <1>3 DEF Receive, Stage, history, vars, files
  <2>t. /\ reply \in [Clients -> Seq(Nat)] /\ stage \in [Clients -> Stages]
        /\ packet \in [Clients -> Packets \cup {NoPacket}]
    BY DEF ReplyInv, StageTypes
  <2>2. reply' \in [Clients -> Seq(Nat)]
    BY <2>1, <2>t
  <2>3. ReplyOf(c)'
    BY <2>1, <2>t DEF ReplyOf, InsideStages
  <2>4. ASSUME NEW d \in Clients, d # c
        PROVE  ReplyOf(d)'
    <3>1. stage'[d] = stage[d] /\ packet'[d] = packet[d] /\ reply'[d] = reply[d]
      BY <2>1, <2>t, <2>4
    <3>2. log' = log /\ seen' = seen /\ f_pos' = f_pos
      BY <2>1
    <3>r. \A k : Right(d, k)' <=> Right(d, k)
      BY <3>1, <3>2, RightSame
    <3>3. Replied(d)' <=> Replied(d)
      BY <3>1, <3>2, <3>r DEF Replied
    <3>4. \A k \in Nat : SentFrom(d, k)' <=> SentFrom(d, k)
      BY <3>1, <3>2 DEF SentFrom, Whole, Stored
    <3>5. ReplyOf(d)
      BY DEF ReplyInv
    <3> QED
      BY <3>1, <3>2, <3>3, <3>4, <3>5, <3>r DEF ReplyOf
  <2> QED
    BY <2>2, <2>3, <2>4 DEF ReplyInv
<1>4. ASSUME NEW c \in Clients, Handler(c)
      PROVE  ReplyInv'
  <2>1. ReplyOf(c)' /\ reply' \in [Clients -> Seq(Nat)]
    BY <1>4, OwnReply
  <2>2. ASSUME NEW d \in Clients, d # c
        PROVE  ReplyOf(d)'
    BY <1>4, <2>2, OtherReply
  <2> QED
    BY <2>1, <2>2 DEF ReplyInv
<1>5. CASE UNCHANGED allVars
  <2>1. UNCHANGED <<stage, packet, reply, log, seen, f_pos>>
    BY <1>5 DEF allVars, session, history, vars, files
  <2> QED
    BY <1>1, <2>1
<1> QED
  BY <1>2, <1>3, <1>4, <1>5 DEF SystemNext

LEMMA HistoryInit ==
  ASSUME SystemInit
  PROVE  HistoryTypes /\ BytesInv /\ ReplyInv /\ SeeksInv /\ AloneInv
<1>1. HistoryTypes
  BY DEF SystemInit, HistoryTypes
<1>2. BytesInv
  BY DEF SystemInit, Init, BytesInv
<1>3. ReplyInv
  BY DEF SystemInit, ReplyInv, ReplyOf, InsideStages
<1>4. AloneInv
  BY DEF SystemInit, Init, AloneInv, ReadPC
<1>5. SeeksInv
  BY DEF SystemInit, Init, SeeksInv, SeekOf, FirstAtZero
<1> QED
  BY <1>1, <1>2, <1>3, <1>4, <1>5

LEMMA RepliesInductive ==
  SystemSpec => [](IInv /\ StageTypes /\ SessionInv /\ HistoryTypes /\ BytesInv /\ ReplyInv)
<1>1. SystemInit => HistoryTypes /\ BytesInv /\ ReplyInv /\ SeeksInv /\ AloneInv
  BY HistoryInit
<1>2. /\ IInv /\ StageTypes /\ SessionInv /\ Alone /\ AloneInv
      /\ HistoryTypes /\ BytesInv /\ ReplyInv /\ SeeksInv
      /\ IInv' /\ [SystemNext]_allVars
      => AloneInv' /\ HistoryTypes' /\ BytesInv' /\ ReplyInv' /\ SeeksInv'
  BY SystemIsDriver, AloneStep, BytesStep, ReplyStep, SeeksStep
<1> QED
  BY <1>1, <1>2, SystemInductive, ServerAlone, PTL DEF SystemSpec

\* The concatenation of what was kept at some time is a sequence of bytes.
LEMMA KeptBytes ==
  ASSUME HistoryTypes, NEW k \in 0..Len(log)
  PROVE  FlattenSeq(LastOf(log, k)) \in Seq(Nat)
<1> DEFINE S == LastOf(log, k)
           z == [i \in 0..Len(S) |-> IF i = Len(S) THEN 0 ELSE Len(S[i + 1])]
<1>1. S \in Seq(Seq(Nat))
  BY LastOfIs DEF HistoryTypes
<1> HIDE DEF S
<1>2. Len(S) \in Nat /\ \A i \in 1..Len(S) : S[i] \in Seq(Nat) /\ Len(S[i]) \in Nat
  BY <1>1
<1>3. \A i \in 0..(Len(S) - 1) : z[i] \in Nat /\ z[i] = Len(S[i + 1])
  BY <1>2
<1> HIDE DEF z
<1>4. PICK at \in [0..Len(S) -> Nat] :
        at = [i \in 0..Len(S) |-> IF i = 0 THEN 0 ELSE at[i - 1] + z[i - 1]]
  BY <1>2, <1>3, SumsExist
<1>5. at[0] = 0
  BY <1>2, <1>4
<1>6. ASSUME NEW i \in 1..Len(S)
      PROVE  at[i] = at[i - 1] + Len(S[i])
  <2>1. i \in 0..Len(S) /\ i # 0 /\ i - 1 \in 0..(Len(S) - 1) /\ (i - 1) + 1 = i
    BY <1>2
  <2>2. at[i] = at[i - 1] + z[i - 1]
    BY <1>4, <2>1
  <2> QED
    BY <1>3, <2>1, <2>2
<1>7. FlattenSeq(S) \in Seq(Nat)
  BY <1>1, <1>5, <1>6, FlattenIs
<1> QED
  BY <1>7 DEF S

(***************************************************************************)
(* The reply to every packet that was written is, byte by byte, the        *)
(* commands that the device kept right after it, for any number of         *)
(* threads, any N, any sizes of the server's reads and any packets: the    *)
(* search, the eviction and the position of the driver, the memory they    *)
(* work on, and mutexLock together give what AesdSocket assumes.           *)
(***************************************************************************)
THEOREM ServerReplies == SystemSpec => []ReplyIsWholeLog
<1>1. HistoryTypes /\ ReplyInv => ReplyIsWholeLog
  <2> SUFFICES ASSUME HistoryTypes, ReplyInv, NEW c \in Clients, stage[c] = "done", ~packet[c].seek
               PROVE  reply[c] = FlattenSeq(Kept(seen[c]))
    BY DEF ReplyIsWholeLog
  <2> DEFINE all == FlattenSeq(LastOf(log, seen[c]))
  <2>1. seen[c] <= Len(log) /\ Replied(c)
    BY DEF ReplyInv, ReplyOf
  <2>2. seen[c] \in 0..Len(log)
    BY <2>1 DEF HistoryTypes
  <2>3. all \in Seq(Nat)
    BY <2>2, KeptBytes
  <2>4. reply[c] = From(all, 0)
    BY <2>1 DEF Replied, Right
  <2>5. From(all, 0) = SubSeq(all, 1, Len(all))
    BY DEF From
  <2>6. SubSeq(all, 1, Len(all)) = all
    <3> HIDE DEF all
    <3> QED BY <2>3
  <2> QED
    BY <2>4, <2>5, <2>6, KeptIs
<1> QED
  BY <1>1, RepliesInductive, PTL

\* The reply to a packet is always the rest, from some byte on, of what the
\* device kept right after it: this is what SeekReply says of every seek,
\* whatever text was behind ioctl_string and however the buffer has wrapped.
ReplyIsRest ==
  \A c \in Clients :
    stage[c] = "done" =>
      \E k \in 0..Len(FlattenSeq(Kept(seen[c]))) : reply[c] = From(FlattenSeq(Kept(seen[c])), k)

\* No seek makes the server send a byte that is not in the log, or skip one.
THEOREM ServerRepliesRest == SystemSpec => []ReplyIsRest
<1>1. ReplyInv => ReplyIsRest
  BY KeptIs DEF ReplyInv, ReplyOf, Replied, ReplyIsRest
<1> QED
  BY <1>1, RepliesInductive, PTL

-----------------------------------------------------------------------------
(* Where a seek starts the reply.                                          *)

\* The field of struct aesd_seekto that a scanned int becomes: itself, or a
\* number in the upper half of uint32_t when it is negative.
LEMMA Uint32Is ==
  ASSUME NEW i \in Int32
  PROVE  /\ i \in Int
         /\ i >= 0 => Uint32(i) = i
         /\ i < 0 => Uint32(i) \in Nat /\ 2 * Uint32(i) >= UINT_MOD
<1>1. UINT_MOD \in Nat /\ UINT_MOD > 0
  BY PacketAssumption
<1> DEFINE M == UINT_MOD
           h == UINT_MOD \div 2
<1>2. h \in Nat /\ 2 * h <= M /\ h < M
  BY <1>1
<1>3. i \in -h..(h - 1)
  BY DEF Int32
<1> HIDE DEF M, h
<1>4. i \in Int /\ -h <= i /\ i < h /\ M \in Nat /\ M > 0
  BY <1>1, <1>2, <1>3 DEF M
<1>5. i >= 0 => i % M = i
  <2>1. i >= 0 => i \in 0..(M - 1)
    BY <1>2, <1>4
  <2>2. \A x \in 0..(M - 1) : x % M = x
    BY <1>4
  <2> QED
    BY <2>1, <2>2
<1>6. i < 0 => i % M = i + M
  <2>1. i < 0 => i \in (-M)..(-1)
    BY <1>2, <1>4
  <2>2. \A x \in (-M)..(-1) : x % M = x + M
    BY <1>4
  <2> QED
    BY <2>1, <2>2
<1>7. i < 0 => i + M \in Nat /\ 2 * (i + M) >= M
  BY <1>2, <1>4
<1> QED
  BY <1>4, <1>5, <1>6, <1>7 DEF Uint32, M

\* Every command is shorter than half of what a uint32_t can count, which is
\* what an int can hold.  kmalloc never returns a block of that size, so
\* aesd_write gives up with -ENOMEM long before a command grows to it.
CommandsFit == \A i \in 1..Len(log) : 2 * Len(log[i]) < UINT_MOD

\* While commands fit, the numbers that the driver gets name a byte of the log
\* exactly when the numbers in the text do.
LEMMA TargetIsStart ==
  ASSUME StageTypes, HistoryTypes, CommandsFit, NEW c \in Clients, Asked(c), seen[c] <= Len(log)
  PROVE  LET args == packet[c].args
         IN  Target(c) = IF args[1] \in 0..(seen[c] - 1) /\ args[2] \in 0..Len(log[args[1] + 1])
                         THEN PrefixLen(args[1]) + args[2] ELSE 0
<1> DEFINE x == packet[c].args[1]
           y == packet[c].args[2]
           n == seen[c]
<1>1. x \in Int32 /\ y \in Int32
  BY AskedArgs DEF Asked
<1>2. Target(c) = IF Uint32(x) < n /\ Uint32(y) <= Len(log[Uint32(x) + 1])
                  THEN PrefixLen(Uint32(x)) + Uint32(y) ELSE 0
  BY DEF Target
<1>3. log \in Seq(Seq(Nat)) /\ n \in Nat /\ Len(log) \in Nat /\ n <= Len(log) /\ n <= N
  BY DEF HistoryTypes, Asked
<1>n. N \in Nat /\ UINT_MOD \in Nat /\ 2 * N <= UINT_MOD
  BY NAssumption, PacketAssumption
<1> HIDE DEF x, y, n
<1>4. CASE x < 0
  <2>1. x \in Int /\ Uint32(x) \in Nat /\ 2 * Uint32(x) >= UINT_MOD
    BY <1>1, <1>4, Uint32Is
  <2>2. ~(Uint32(x) < n)
    BY <1>3, <1>n, <2>1
  <2>3. x \notin 0..(n - 1)
    BY <1>3, <1>4, <2>1
  <2> QED
    BY <1>2, <2>2, <2>3 DEF x, y, n
<1>5. CASE x >= 0
  <2>1. x \in Int /\ Uint32(x) = x
    BY <1>1, <1>5, Uint32Is
  <2>2. x < n <=> x \in 0..(n - 1)
    BY <1>3, <1>5, <2>1
  <2>3. Target(c) = IF x \in 0..(n - 1) /\ Uint32(y) <= Len(log[x + 1])
                    THEN PrefixLen(x) + Uint32(y) ELSE 0
    BY <1>2, <2>1, <2>2
  <2>4. CASE x \in 0..(n - 1)
    <3> DEFINE l == Len(log[x + 1])
    <3>1. x + 1 \in 1..Len(log)
      BY <1>3, <2>4
    <3>2. l \in Nat /\ 2 * l < UINT_MOD
      <4>1. log[x + 1] \in Seq(Nat)
        BY <1>3, <3>1, ElementOfSeq
      <4>2. 2 * l < UINT_MOD
        BY <3>1, Zenon DEF CommandsFit
      <4> QED
        BY <4>1, <4>2
    <3> HIDE DEF l
    <3>3. CASE y < 0
      <4>1. y \in Int /\ Uint32(y) \in Nat /\ 2 * Uint32(y) >= UINT_MOD
        BY <1>1, <3>3, Uint32Is
      <4>2. ~(Uint32(y) <= l) /\ y \notin 0..l
        BY <1>n, <3>2, <3>3, <4>1
      <4> QED
        BY <2>3, <4>2 DEF x, y, n, l
    <3>4. CASE y >= 0
      <4>1. y \in Int /\ Uint32(y) = y
        BY <1>1, <3>4, Uint32Is
      <4>2. y <= l <=> y \in 0..l
        BY <3>2, <3>4, <4>1
      <4>3. Target(c) = IF y \in 0..l THEN PrefixLen(x) + y ELSE 0
        BY <2>3, <2>4, <4>1, <4>2 DEF l
      <4> QED
        BY <2>4, <4>3 DEF x, y, n, l
    <3>5. y \in Int
      BY <1>1, Uint32Is
    <3> QED
      BY <3>3, <3>4, <3>5
  <2>5. CASE x \notin 0..(n - 1)
    BY <2>3, <2>5 DEF x, y, n
  <2> QED
    BY <2>4, <2>5
<1>6. x \in Int
  BY <1>1, Uint32Is
<1> QED
  BY <1>4, <1>5, <1>6

(***************************************************************************)
(* The reply to a seek is the rest of the commands from some byte on; if   *)
(* both numbers are there and no command has been dropped yet, that byte   *)
(* is the one that the text asks for, and everything if the device refuses *)
(* the seek.  aesd_ioctl counts lengths from the oldest command while      *)
(* aesd_read takes no lock: this holds for any number of threads because   *)
(* the whole session is under mutexLock, from the ioctl to the last read.  *)
(***************************************************************************)
THEOREM ServerSeekReply == SystemSpec => [](CommandsFit => SeekReply)
<1>1. StageTypes /\ HistoryTypes /\ ReplyInv /\ CommandsFit => SeekReply
  <2> SUFFICES ASSUME StageTypes, HistoryTypes, ReplyInv, CommandsFit,
                      NEW c \in Clients, stage[c] = "done", packet[c].seek
               PROVE  LET all == FlattenSeq(Kept(seen[c]))
                          args == packet[c].args
                          accepted == /\ args[1] \in 0..(seen[c] - 1)
                                      /\ args[2] \in 0..Len(log[args[1] + 1])
                          start == Len(FlattenSeq(SubSeq(log, 1, args[1]))) + args[2]
                      IN  /\ \E k \in 0..Len(all) : reply[c] = From(all, k)
                          /\ Len(args) = 2 /\ seen[c] <= N =>
                               reply[c] = IF accepted THEN From(all, start) ELSE all
    BY DEF SeekReply
  <2> DEFINE all == FlattenSeq(LastOf(log, seen[c]))
             args == packet[c].args
             accepted == /\ args[1] \in 0..(seen[c] - 1)
                         /\ args[2] \in 0..Len(log[args[1] + 1])
             start == PrefixLen(args[1]) + args[2]
  <2>1. seen[c] <= Len(log) /\ Replied(c)
    BY DEF ReplyInv, ReplyOf
  <2>2. PICK k \in 0..Len(all) : reply[c] = From(all, k) /\ Right(c, k)
    BY <2>1 DEF Replied
  <2>3. all \in Seq(Nat)
    <3>1. seen[c] \in 0..Len(log)
      BY <2>1 DEF HistoryTypes
    <3> QED
      BY <3>1, KeptBytes
  <2>4. From(all, 0) = all
    <3>1. From(all, 0) = SubSeq(all, 1, Len(all))
      BY DEF From
    <3>2. SubSeq(all, 1, Len(all)) = all
      <4> HIDE DEF all
      <4> QED BY <2>3
    <3> QED
      BY <3>1, <3>2
  <2>5. ASSUME Len(args) = 2, seen[c] <= N
        PROVE  reply[c] = IF accepted THEN From(all, start) ELSE all
    <3>1. Asked(c)
      BY <2>5 DEF Asked
    <3>2. k = Target(c)
      BY <2>2, <3>1 DEF Right
    <3>3. Target(c) = IF accepted THEN start ELSE 0
      BY <2>1, <3>1, TargetIsStart
    <3> HIDE DEF all, accepted, start
    <3> QED
      BY <2>2, <2>4, <3>2, <3>3
  <2>6. Kept(seen[c]) = LastOf(log, seen[c])
    BY KeptIs
  <2> QED
    BY <2>2, <2>5, <2>6 DEF PrefixLen
<1> QED
  BY <1>1, RepliesInductive, PTL

-----------------------------------------------------------------------------
(* The driver's memory under the server.                                   *)

\* Every allocated block is the one at tmp_buf or belongs to a kept command.
NothingLost == Orphans = {}

\* With NothingLost inductive: tmp_buf has no block when no bytes wait, since
\* the server's packets are copied whole, and none is allocated before the load.
MemoryInv ==
  /\ NothingLost
  /\ tmp_size = 0 => tmp_buf \notin Ptr
  /\ ~loaded => \A p \in Ptr : heap[p] = 0

\* A step under the server keeps the device loaded, and either it keeps tmp_buf
\* and tmp_size, or it is the copy of a packet, or the end of add_entry.
LEMMA HandlerMemory ==
  ASSUME NEW c \in Clients, Handler(c)
  PROVE  /\ loaded' = loaded
         /\ \/ CopyPacket(c)
            \/ AddIn(c)
            \/ tmp_buf' = tmp_buf /\ tmp_size' = tmp_size
<1>1. CASE Lock(c) \/ Sought(c) \/ Unlock(c)
  BY <1>1 DEF Lock, Sought, Unlock, vars, device
<1>2. CASE Open(c) \/ Write(c) \/ Rewind(c) \/ Close(c)
  BY <1>2 DEF Open, Write, Rewind, Close, aesd_open, aesd_write, aesd_llseek, aesd_release,
     vars, device
<1>3. CASE Seek(c)
  BY <1>3 DEF Seek, aesd_ioctl, vars, device
<1>4. CASE Read(c) \/ FindOrEnd(c) \/ CopyAndSend(c)
  BY <1>4 DEF Read, FindOrEnd, CopyAndSend, aesd_read, ReadFind, ReadCopy, vars, device
<1>5. CASE CopyPacket(c)
  BY <1>5 DEF CopyPacket, WriteCopy
<1>6. CASE DriverStep(c)
  BY <1>6 DEF DriverStep, ReadLength, EvictFree, EvictClear, AddOut, AddStore, AddIn, WriteUnlock,
     SizeLoad, SizeStore, IoctlLock, IoctlLoop, IoctlEntry, device
<1> QED
  BY <1>1, <1>2, <1>3, <1>4, <1>5, <1>6 DEF Handler

LEMMA MemoryStep ==
  ASSUME IInv, IInv', FaultInv, StageTypes, SessionInv, HistoryTypes, BytesInv, BytesInv',
         MemoryInv, [SystemNext]_allVars
  PROVE  MemoryInv'
<1>1. LeakStep
  BY SystemIsDriver, LeakEveryStep
<1>2. nomem' = nomem
  <2>1. nomem \in BOOLEAN /\ nomem' \in BOOLEAN
    BY DEF IInv, TypeInv, TypeOK, DeviceTypes
  <2> QED
    BY <2>1 DEF BytesInv
<1>t. /\ heap \in [Ptr -> Nat] /\ tmp_size \in Nat /\ loaded \in BOOLEAN
      /\ NULL \notin Ptr /\ ZERO_SIZE_PTR \notin Ptr
  BY ClientAssumption DEF IInv, TypeInv, TypeOK, DeviceTypes
<1>3. ASSUME ~loaded
      PROVE  heap' = heap
  <2>1. CASE aesd_init_module \/ aesd_cleanup_module \/ Quiet
    BY <1>3, <2>1 DEF aesd_init_module, aesd_cleanup_module, Quiet, device
  <2>2. ASSUME NEW c \in Clients, LockedStep(c)
        PROVE  FALSE
    BY <1>3, <2>2, LockedAlone
  <2> QED
    BY <2>1, <2>2, SystemIsDriver, StepKinds DEF IInv, TypeInv
<1>4. NothingLost'
  <2>1. CASE ~loaded
    BY <1>3, <2>1 DEF MemoryInv, NothingLost, Orphans
  <2>2. CASE loaded
    <3>1. CASE Orphans' \subseteq Orphans
      BY <3>1 DEF MemoryInv, NothingLost
    <3>2. CASE tmp_size = 0
      <4>1. Orphans' \subseteq Ptr
        BY DEF Orphans
      <4> QED
        BY <1>1, <3>2, <4>1 DEF LeakStep, MemoryInv, NothingLost
    <3> QED
      BY <1>1, <1>2, <2>2, <3>1, <3>2 DEF LeakStep
  <2> QED
    BY <2>1, <2>2
<1>5. /\ tmp_size' = 0 => tmp_buf' \notin Ptr
      /\ loaded => loaded'
  <2>1. CASE Load
    BY <1>t, <2>1 DEF Load, aesd_init_module
  <2>2. ASSUME NEW c \in Clients, Handler(c)
        PROVE  (tmp_size' = 0 => tmp_buf' \notin Ptr) /\ loaded' = loaded
    <3>1. CASE CopyPacket(c)
      <4>1. /\ loaded' = loaded /\ tmp_size' = tmp_size + packet[c].len /\ packet[c].len \in Nat
        BY <2>2, <3>1, CopyBytes, HandlerMemory
      <4>2. frame[c].count = packet[c].len
        BY <3>1, LabelKinds DEF CopyPacket, WriteCopy, SessionInv, SessionOf
      <4>3. tmp_size' = 0 => tmp_size = 0 /\ frame[c].count = 0
        BY <1>t, <4>1, <4>2
      <4>4. tmp_size = 0 /\ frame[c].count = 0 => tmp_buf' = ZERO_SIZE_PTR
        BY <3>1 DEF CopyPacket, WriteCopy
      <4> QED
        BY <1>t, <4>1, <4>3, <4>4
    <3>2. CASE AddIn(c)
      BY <1>t, <2>2, <3>2, HandlerMemory DEF AddIn
    <3>3. CASE tmp_buf' = tmp_buf /\ tmp_size' = tmp_size
      BY <2>2, <3>3, HandlerMemory DEF MemoryInv
    <3> QED
      BY <2>2, <3>1, <3>2, <3>3, HandlerMemory
  <2>3. CASE UNCHANGED vars
    BY <2>3 DEF vars, device, MemoryInv
  <2>4. ASSUME NEW c \in Clients, \E p \in Packets : Receive(c, p)
        PROVE  UNCHANGED vars
    BY <2>4 DEF Receive
  <2>5. UNCHANGED allVars => UNCHANGED vars
    BY DEF allVars
  <2> QED
    BY <2>1, <2>2, <2>3, <2>4, <2>5 DEF SystemNext
<1>6. ~loaded' => \A p \in Ptr : heap'[p] = 0
  BY <1>3, <1>5 DEF MemoryInv
<1> QED
  BY <1>4, <1>5, <1>6 DEF MemoryInv

(***************************************************************************)
(* Under the server the driver loses no memory while kmalloc succeeds: at  *)
(* every step of every thread each block is the one at tmp_buf or that of  *)
(* a kept command.  Two of the three ways of LeaksOnlyOnFaults are closed  *)
(* by the server (it copies whole packets and never reloads the module).   *)
(***************************************************************************)
THEOREM ServerLosesNothing == SystemSpec => []NothingLost
<1>1. SystemInit => MemoryInv
  BY ClientAssumption DEF SystemInit, Init, MemoryInv, NothingLost, Orphans
<1>2. /\ IInv /\ FaultInv /\ StageTypes /\ SessionInv /\ HistoryTypes /\ BytesInv /\ MemoryInv
      /\ IInv' /\ BytesInv' /\ [SystemNext]_allVars
      => MemoryInv'
  BY MemoryStep
<1>3. MemoryInv => NothingLost
  BY DEF MemoryInv
<1> QED
  BY <1>1, <1>2, <1>3, RepliesInductive, ServerUsesDriver, FaultInductive, PTL DEF SystemSpec

\* Under the server too the driver is a device that gathers bytes up to a
\* newline and keeps the last N commands, each write at one instant.
THEOREM ServerOnDevice == SystemSpec => CommandSpec
BY ServerUsesDriver, DriverImplementsDevice, PTL
=============================================================================
