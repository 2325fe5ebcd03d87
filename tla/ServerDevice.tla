---------------------------- MODULE ServerDevice ----------------------------
(***************************************************************************)
(* The server on top of the driver: what threadHandler of                  *)
(* server/aesdsocket.c does between pthread_mutex_lock and                 *)
(* pthread_mutex_unlock, with every file operation run step by step in     *)
(* AesdChar.  A client of the driver is a thread of the server.  stdio     *)
(* turns the calls on fileFD into system calls: fopen opens the device,    *)
(* rewind writes what fwrite gathered and moves to 0, fread reads as much  *)
(* as its buffer holds, fclose closes.                                     *)
(*                                                                         *)
(* Unlike AesdChar this module knows the bytes: a byte is the number of    *)
(* the packet that brought it.  The buffers that the server passes are     *)
(* valid and no process but the server uses the device, so the calls here  *)
(* are those of AesdChar without a failing copy; allocations succeed.      *)
(***************************************************************************)
EXTENDS AesdChar, SequencesExt

CONSTANTS
  Packets,      \* what a thread may have received, of the two forms below
  UINT_MOD,     \* 2^32 for uint32_t
  Garbage,      \* values that an uninitialised uint32_t may have
  MaxPackets    \* bound: how many packets the server handles

\* Bytes that are written: how many, and whether a newline is the last.
LinePackets == [seek : {FALSE}, len : Nat, newline : BOOLEAN]

\* The values of type int, which has the width of uint32_t.
Int32 == -(UINT_MOD \div 2)..(UINT_MOD \div 2 - 1)

\* Text behind ioctl_string: the integers, two at most, that sscanf finds in it.
SeekPackets == [seek : {TRUE}, args : Seq(Int32)]

ASSUME PacketAssumption ==
  /\ \A p \in Packets : p \in LinePackets \/ (p \in SeekPackets /\ Len(p.args) <= 2)
  /\ UINT_MOD \in Nat \ {0} /\ 2 * N <= UINT_MOD
  /\ Garbage \subseteq 0..(UINT_MOD - 1)
  /\ MaxPackets \in Nat

\* The calls that the server makes are calls that a client of AesdChar can make.
ASSUME CallAssumption ==
  /\ \A p \in Packets : ~p.seek => p.len \in WriteCounts
  /\ 0 \in SeekOffsets
  /\ (0..(UINT_MOD - 1)) \X (0..(UINT_MOD - 1)) \subseteq SeekCmds

VARIABLES
  mutexLock,  \* the thread that holds it, or NULL
  stage,      \* where each thread is in threadHandler
  packet,     \* the packet it handles
  number,     \* the number of that packet
  reply,      \* the bytes it has sent
  packets,    \* history: how many packets there were
  bytes,      \* the bytes in each block of the driver's heap
  log,        \* history: all commands since the load, as sequences of bytes
  pending,    \* history: bytes written behind the last command
  seen        \* history: how long log was right after the thread's packet

session == <<mutexLock, stage, packet, number, reply, packets>>
history == <<bytes, log, pending, seen>>
allVars == <<vars, session, history>>

NoPacket == [seek |-> FALSE, len |-> 0, newline |-> FALSE]

SystemInit ==
  /\ Init
  /\ mutexLock = NULL
  /\ stage = [c \in Clients |-> "none"]
  /\ packet = [c \in Clients |-> NoPacket]
  /\ number = [c \in Clients |-> 0]
  /\ reply = [c \in Clients |-> << >>]
  /\ packets = 0
  /\ bytes = [p \in Ptr |-> << >>]
  /\ log = << >> /\ pending = << >>
  /\ seen = [c \in Clients |-> 0]

Stage(c, label) == stage' = [stage EXCEPT ![c] = label]

\* The module is loaded before the server runs.
Load == aesd_init_module /\ UNCHANGED <<session, history>>

\* The receive loop has ended: c is a thread with a packet of its own.
Receive(c, p) ==
  /\ stage[c] \in {"none", "done"}
  /\ loaded
  /\ packets < MaxPackets
  /\ packets' = packets + 1
  /\ packet' = [packet EXCEPT ![c] = p]
  /\ number' = [number EXCEPT ![c] = packets + 1]
  /\ reply' = [reply EXCEPT ![c] = << >>]
  /\ Stage(c, "lock")
  /\ UNCHANGED <<vars, mutexLock, history>>

\* Fault: the lock is tried but not taken.
LockNotTaken(c) ==
  /\ stage[c] = "lock"
  /\ mutexLock = NULL
  /\ Stage(c, "open")
  /\ seen' = [seen EXCEPT ![c] = Len(log)]
  /\ UNCHANGED <<vars, mutexLock, packet, number, reply, packets, bytes, log, pending>>

Lock(c) ==
  /\ stage[c] = "lock"
  /\ mutexLock = NULL
  /\ mutexLock' = c
  /\ Stage(c, "open")
  /\ seen' = [seen EXCEPT ![c] = Len(log)]
  /\ UNCHANGED <<vars, packet, number, reply, packets, bytes, log, pending>>

\* fopen, and the choice that strncmp makes.
Open(c) ==
  /\ stage[c] = "open"
  /\ aesd_open(c)
  /\ Stage(c, IF packet[c].seek THEN "seek" ELSE "write")
  /\ UNCHANGED <<mutexLock, packet, number, reply, packets, history>>

\* fwrite gathers the packet and rewind writes it, unless it is empty.
Write(c) ==
  /\ stage[c] = "write"
  /\ IF packet[c].len = 0
     THEN UNCHANGED vars
     ELSE aesd_write(c, packet[c].len) /\ pc'[c] = "write_lock"
  /\ Stage(c, "rewind")
  /\ UNCHANGED <<mutexLock, packet, number, reply, packets, history>>

\* The seek to 0 in rewind.
Rewind(c) ==
  /\ stage[c] = "rewind"
  /\ pc[c] = "idle"
  /\ aesd_llseek(c, 0)
  /\ ret'[c] = "ok" /\ f_pos'[c] = 0
  /\ Stage(c, "read")
  /\ UNCHANGED <<mutexLock, packet, number, reply, packets, history>>

\* A value of type int in a field of type uint32_t.
Uint32(i) == i % UINT_MOD

(***************************************************************************)
(* The fields of seek_params after sscanf: what it does not find keeps the *)
(* value that was on the stack.                                            *)
(***************************************************************************)
SeekParams(args) ==
  LET values == Garbage \cup {Uint32(args[i]) : i \in DOMAIN args}
  IN  {params \in values \X values :
         /\ Len(args) >= 1 => params[1] = Uint32(args[1])
         /\ Len(args) >= 2 => params[2] = Uint32(args[2])}

Seek(c) ==
  /\ stage[c] = "seek"
  /\ \E seek_params \in SeekParams(packet[c].args) :
       /\ aesd_ioctl(c, seek_params)
       /\ seek_params[1] <= N => pc'[c] = "ioctl_lock"
  /\ Stage(c, "sought")
  /\ UNCHANGED <<mutexLock, packet, number, reply, packets, history>>

\* The ioctl has returned, and its result is ignored.
Sought(c) ==
  /\ stage[c] = "sought"
  /\ pc[c] = "idle"
  /\ Stage(c, "read")
  /\ UNCHANGED <<vars, mutexLock, packet, number, reply, packets, history>>

\* fread, when its buffer is empty.
Read(c) ==
  /\ stage[c] = "read"
  /\ \E count \in ReadCounts : aesd_read(c, count) /\ pc'[c] = "read_find"
  /\ UNCHANGED <<session, history>>

\* The driver's read ends with 0 bytes, and so does the loop around fread.
FindOrEnd(c) ==
  /\ ReadFind(c)
  /\ Stage(c, IF pc'[c] = "idle" THEN "close" ELSE "read")
  /\ UNCHANGED <<mutexLock, packet, number, reply, packets, history>>

\* The driver's read copies bytes, and each of them is sent.
CopyAndSend(c) ==
  LET f == frame[c]
      block == bytes[cb.entry[f.current_offset].buffptr]
  IN
  /\ ReadCopy(c)
  /\ ret'[c] = "ok"
  /\ reply' = [reply EXCEPT
                ![c] = @ \o SubSeq(block, f.entry_off + 1, f.entry_off + f.read_length)]
  /\ UNCHANGED <<mutexLock, stage, packet, number, packets, history>>

\* fclose.
Close(c) ==
  /\ stage[c] = "close"
  /\ aesd_release(c)
  /\ Stage(c, "unlock")
  /\ UNCHANGED <<mutexLock, packet, number, reply, packets, history>>

\* isDone, and the unlock.
Unlock(c) ==
  /\ stage[c] = "unlock"
  /\ mutexLock' = NULL
  /\ Stage(c, "done")
  /\ UNCHANGED <<vars, packet, number, reply, packets, history>>

(***************************************************************************)
(* The driver copies the whole packet behind the bytes that wait; with a   *)
(* newline they are the next command.                                      *)
(***************************************************************************)
CopyPacket(c) ==
  LET new == [i \in 1..packet[c].len |-> number[c]]
      before == IF tmp_size > 0 THEN bytes[tmp_buf] ELSE << >>
  IN
  /\ WriteCopy(c)
  /\ frame'[c].retval = packet[c].len
  /\ tmp_nl' = packet[c].newline
  /\ bytes' = [bytes EXCEPT ![tmp_buf'] = before \o new]
  /\ IF packet[c].newline
     THEN /\ log' = Append(log, pending \o new)
          /\ pending' = << >>
     ELSE /\ pending' = pending \o new
          /\ UNCHANGED log
  /\ seen' = [seen EXCEPT ![c] = Len(log')]
  /\ UNCHANGED session

\* The other steps of the driver's calls.
DriverStep(c) ==
  /\ \/ ReadLength(c)
     \/ EvictFree(c) \/ EvictClear(c)
     \/ AddOut(c) \/ AddStore(c) \/ AddIn(c)
     \/ WriteUnlock(c) \/ SizeLoad(c) \/ SizeStore(c)
     \/ IoctlLock(c) \/ IoctlLoop(c) \/ IoctlEntry(c)
  /\ UNCHANGED <<session, history>>

Handler(c) ==
  \/ Lock(c) \/ Open(c) \/ Write(c) \/ Rewind(c) \/ Seek(c) \/ Sought(c)
  \/ Read(c) \/ FindOrEnd(c) \/ CopyAndSend(c) \/ Close(c) \/ Unlock(c)
  \/ CopyPacket(c) \/ DriverStep(c)

SystemNext ==
  \/ Load
  \/ \E c \in Clients :
       \/ \E p \in Packets : Receive(c, p)
       \/ Handler(c)

SystemSpec == SystemInit /\ [][SystemNext]_allVars

-----------------------------------------------------------------------------
(* Properties.                                                             *)

\* The last N of the first k commands.
Kept(k) == IF k > N THEN SubSeq(log, k - N + 1, k) ELSE SubSeq(log, 1, k)

(***************************************************************************)
(* The reply to a packet is, byte by byte, the commands that the device    *)
(* kept right after that packet was written.  This is what AesdSocket      *)
(* assumes of the device, here with the driver's own search, eviction and  *)
(* position: aesd_read takes no lock, and mutexLock stands in for it.      *)
(***************************************************************************)
ReplyIsWholeLog ==
  \A c \in Clients :
    stage[c] = "done" /\ ~packet[c].seek => reply[c] = FlattenSeq(Kept(seen[c]))

\* All but the first k elements of s.
From(s, k) == SubSeq(s, k + 1, Len(s))

(***************************************************************************)
(* A seek changes nothing, and its reply is the rest of the commands from  *)
(* some byte on, whatever the text behind ioctl_string.  If both numbers   *)
(* are there and no command has been dropped yet, that byte is the one     *)
(* asked for, the first of the next command when the offset is the length  *)
(* of the command; a seek that the device refuses returns everything.      *)
(***************************************************************************)
SeekReply ==
  \A c \in Clients :
    stage[c] = "done" /\ packet[c].seek =>
      LET all == FlattenSeq(Kept(seen[c]))
          args == packet[c].args
          accepted == /\ args[1] \in 0..(seen[c] - 1)
                      /\ args[2] \in 0..Len(log[args[1] + 1])
          start == Len(FlattenSeq(SubSeq(log, 1, args[1]))) + args[2]
      IN  /\ \E k \in 0..Len(all) : reply[c] = From(all, k)
          /\ Len(args) = 2 /\ seen[c] <= N =>
               reply[c] = IF accepted THEN From(all, start) ELSE all
=============================================================================
