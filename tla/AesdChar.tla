------------------------------ MODULE AesdChar ------------------------------
(***************************************************************************)
(* The character driver, aesd-char-driver/main.c.  Every client has one    *)
(* open file and calls one file operation at a time; clients run           *)
(* concurrently.  A call is split into steps at the places where another   *)
(* client can observe it: aesd_write and aesd_ioctl take mx_lock, while    *)
(* aesd_read, aesd_llseek and the last line of aesd_write do not.  Under   *)
(* the lock, what no unlocked code reads is one step.  A store to an       *)
(* offset includes its wrap-around and a store of an entry both of its     *)
(* words: an unlocked reader sees the old value or the new one, and sees   *)
(* stores in the order of the program, as on x86.                          *)
(*                                                                         *)
(* Bytes are abstracted to their number and to whether a newline is among  *)
(* them.  Memory is abstracted to allocations and their sizes.             *)
(***************************************************************************)
EXTENDS CircularBuffer, Integers

CONSTANTS
  Clients,        \* the processes that open the device
  Ptr,            \* addresses that kmalloc can return
  ZERO_SIZE_PTR,  \* what kmalloc(0) returns: neither NULL nor an allocation
  ReadCounts,     \* byte counts that a client passes to read
  WriteCounts,    \* byte counts that a client passes to write
  SeekOffsets,    \* offsets that a client passes to llseek
  SeekCmds,       \* pairs <<write_cmd, write_cmd_offset>> passed to ioctl
  SIZE_MOD,       \* 2^w for size_t
  MaxWrites,      \* bound: how many calls of write a run makes
  MaxPos          \* bound: the largest position llseek moves to

ASSUME ClientAssumption ==
  /\ NULL \notin Clients \cup Ptr
  /\ ZERO_SIZE_PTR \notin Ptr \cup {NULL}

ASSUME InputAssumption ==
  /\ ReadCounts \subseteq Nat
  /\ WriteCounts \subseteq Nat
  /\ SeekOffsets \subseteq Int
  /\ SeekCmds \subseteq Nat \X Nat
  /\ SIZE_MOD \in Nat \ {0}
  /\ MaxWrites \in Nat
  /\ MaxPos \in Nat

VARIABLES
  loaded,       \* the module is registered
  cb,           \* dev->aesd_cb
  mx_lock,      \* dev->mx_lock: the client that holds it, or NULL
  tmp_buf,      \* dev->tmp_buf
  tmp_size,     \* dev->tmp_size
  tmp_nl,       \* memchr(dev->tmp_buf, '\n', dev->tmp_size)
  buffer_size,  \* dev->buffer_size
  heap,         \* bytes allocated at each address, 0 where none are
  pc,           \* where each client is
  f_pos,        \* filp->f_pos of each client's file
  frame,        \* local variables of the call each client is in
  ret,          \* how each client's last call returned, NULL inside a call
  writes,       \* history: number of calls of write
  nomem         \* history: an allocation has failed since the load

device == <<cb, tmp_buf, tmp_size, tmp_nl, heap>>
files  == <<pc, f_pos, frame, ret>>
vars   == <<loaded, device, mx_lock, buffer_size, files, writes, nomem>>

Pointers == Ptr \cup {NULL, ZERO_SIZE_PTR}

ReadFrame ==
  [count : Nat, current_offset : Slots, total_chars : Nat, in_offs : Slots,
   load : {"once", "each"}, entry_off : Nat, read_length : Nat]
WriteFrame == [count : Nat, retval : Nat, loaded_size : Nat]
IoctlFrame ==
  [write_cmd : Nat, write_cmd_offset : Nat, index : Nat, loc_off : Nat,
   retval : {"ok", "EINVAL"}]

ReadPC   == {"read_find", "read_length", "read_copy"}
AddPC    == {"add_out", "add_store", "add_in"}
EvictPC  == {"evict_free", "evict_clear"}
WritePC  == {"write_lock", "write_unlock", "size_load", "size_store"}
            \cup AddPC \cup EvictPC
IoctlPC  == {"ioctl_lock", "ioctl_loop", "ioctl_entry"}

Labels == {"closed", "idle"} \cup ReadPC \cup WritePC \cup IoctlPC

AnyFrame == ReadFrame \cup WriteFrame \cup IoctlFrame \cup {NULL}

\* The local variables of a call, by where it is.
Frames(label) == IF label \in ReadPC THEN ReadFrame
                 ELSE IF label \in WritePC THEN WriteFrame
                 ELSE IF label \in IoctlPC THEN IoctlFrame
                 ELSE {NULL}

\* The steps that run with mx_lock held.
LockedPC == AddPC \cup EvictPC \cup {"write_unlock", "ioctl_loop", "ioctl_entry"}

Results == {"ok", "EFAULT", "EINVAL", "ENOMEM", "ERESTARTSYS"}

Init ==
  /\ loaded = FALSE
  /\ cb = EmptyBuffer
  /\ mx_lock = NULL
  /\ tmp_buf = NULL /\ tmp_size = 0 /\ tmp_nl = FALSE
  /\ buffer_size = 0
  /\ heap = [p \in Ptr |-> 0]
  /\ pc = [c \in Clients |-> "closed"]
  /\ f_pos = [c \in Clients |-> 0]
  /\ frame = [c \in Clients |-> NULL]
  /\ ret = [c \in Clients |-> NULL]
  /\ writes = 0 /\ nomem = FALSE

Goto(c, label) == pc' = [pc EXCEPT ![c] = label]

\* Client c begins a call, or closes its file, with the local variables f.
Enter(c, label, f) ==
  /\ Goto(c, label)
  /\ frame' = [frame EXCEPT ![c] = f]
  /\ ret' = [ret EXCEPT ![c] = NULL]

\* The call of client c returns.
Return(c, result) ==
  /\ Goto(c, "idle")
  /\ frame' = [frame EXCEPT ![c] = NULL]
  /\ ret' = [ret EXCEPT ![c] = result]

-----------------------------------------------------------------------------
(* Loading and unloading the module, opening and closing the device.       *)

(***************************************************************************)
(* aesd_init_module zeroes the device, so what an earlier life of the      *)
(* module left in the heap is out of reach.  cdev_add may fail, and then   *)
(* the module is not loaded.  (A failure of alloc_chrdev_region returns    *)
(* before anything is changed.)                                            *)
(***************************************************************************)
aesd_init_module ==
  /\ ~loaded
  /\ loaded' \in BOOLEAN
  /\ cb' = EmptyBuffer
  /\ tmp_buf' = NULL /\ tmp_size' = 0 /\ tmp_nl' = FALSE
  /\ buffer_size' = 0
  /\ mx_lock' = NULL
  /\ nomem' = FALSE
  /\ UNCHANGED <<heap, files, writes>>

\* Fault: the loop that frees the entries stops one short.
cleanup_but_last ==
  /\ loaded
  /\ \A c \in Clients : pc[c] = "closed"
  /\ loaded' = FALSE
  /\ LET used == {i \in Slots : cb.entry[i].size > 0 /\ i # N - 1}
     IN  /\ heap' = [p \in Ptr |->
                       IF \E i \in used : cb.entry[i].buffptr = p
                       THEN 0 ELSE heap[p]]
         /\ cb' = [cb EXCEPT !.entry = [i \in Slots |->
                     IF i \in used THEN [cb.entry[i] EXCEPT !.size = 0]
                                   ELSE cb.entry[i]]]
  /\ UNCHANGED <<tmp_buf, tmp_size, tmp_nl, mx_lock, buffer_size, files,
                 writes, nomem>>

(***************************************************************************)
(* aesd_cleanup_module runs when no file is open (the kernel counts users  *)
(* through .owner).  It frees the entries and leaves tmp_buf alone.        *)
(***************************************************************************)
aesd_cleanup_module ==
  /\ loaded
  /\ \A c \in Clients : pc[c] = "closed"
  /\ loaded' = FALSE
  /\ LET used == {i \in Slots : cb.entry[i].size > 0 /\ cb.entry[i].buffptr # NULL}
     IN  /\ heap' = [p \in Ptr |->
                       IF \E i \in used : cb.entry[i].buffptr = p
                       THEN 0 ELSE heap[p]]
         /\ cb' = [cb EXCEPT !.entry = [i \in Slots |->
                     IF i \in used THEN [cb.entry[i] EXCEPT !.size = 0]
                                   ELSE cb.entry[i]]]
  /\ UNCHANGED <<tmp_buf, tmp_size, tmp_nl, mx_lock, buffer_size, files,
                 writes, nomem>>

aesd_open(c) ==
  /\ loaded
  /\ pc[c] = "closed"
  /\ Return(c, "ok")
  /\ f_pos' = [f_pos EXCEPT ![c] = 0]
  /\ UNCHANGED <<loaded, device, mx_lock, buffer_size, writes, nomem>>

aesd_release(c) ==
  /\ pc[c] = "idle"
  /\ Enter(c, "closed", NULL)
  /\ f_pos' = [f_pos EXCEPT ![c] = 0]
  /\ UNCHANGED <<loaded, device, mx_lock, buffer_size, writes, nomem>>

-----------------------------------------------------------------------------
(* aesd_read.  It takes no lock, so every load of shared state is a step.  *)

\* Fault: the search begins at in_offs.
FreshReadFramesFromIn(count) ==
  {[count |-> count, current_offset |-> cb.in_offs, total_chars |-> 0,
    in_offs |-> cb.in_offs, load |-> load, entry_off |-> 0,
    read_length |-> 0] : load \in {"once", "each"}}

(***************************************************************************)
(* The test that ends the search loads in_offs, and the compiler may load  *)
(* it once before the loop or in each iteration.                           *)
(***************************************************************************)
FreshReadFrames(count) ==
  {[count |-> count, current_offset |-> cb.out_offs, total_chars |-> 0,
    in_offs |-> cb.in_offs, load |-> load, entry_off |-> 0,
    read_length |-> 0] : load \in {"once", "each"}}

aesd_read(c, count) ==
  /\ pc[c] = "idle"
  /\ \/ Return(c, "EFAULT")                     \* buf is NULL
     \/ \E f \in FreshReadFrames(count) : Enter(c, "read_find", f)
  /\ UNCHANGED <<loaded, device, mx_lock, buffer_size, f_pos, writes, nomem>>

\* Fault: the search forgets the entries that it has passed.
ReadFindNoTotal(c) ==
  LET f == frame[c] IN
  /\ pc[c] = "read_find"
  /\ IF Hit(cb, f.current_offset, f.total_chars, f_pos[c])
     THEN /\ frame' = [frame EXCEPT ![c].entry_off = f_pos[c] - f.total_chars]
          /\ Goto(c, "read_length")
          /\ UNCHANGED ret
     ELSE IF NextSlot(f.current_offset) = IF f.load = "once" THEN f.in_offs ELSE cb.in_offs
     THEN Return(c, "ok")
     ELSE /\ frame' = [frame EXCEPT ![c].current_offset = NextSlot(f.current_offset)]
          /\ UNCHANGED <<pc, ret>>
  /\ UNCHANGED <<loaded, device, mx_lock, buffer_size, f_pos, writes, nomem>>

\* Fault: the next slot is that behind out_offs, not behind current_offset.
ReadFindStuck(c) ==
  LET f == frame[c]
      next == NextSlot(cb.out_offs)
  IN
  /\ pc[c] = "read_find"
  /\ IF Hit(cb, f.current_offset, f.total_chars, f_pos[c])
     THEN /\ frame' = [frame EXCEPT ![c].entry_off = f_pos[c] - f.total_chars]
          /\ Goto(c, "read_length")
          /\ UNCHANGED ret
     ELSE IF next = IF f.load = "once" THEN f.in_offs ELSE cb.in_offs
     THEN Return(c, "ok")
     ELSE /\ frame' = [frame EXCEPT ![c].current_offset = next]
          /\ UNCHANGED <<pc, ret>>
  /\ UNCHANGED <<loaded, device, mx_lock, buffer_size, f_pos, writes, nomem>>

\* One iteration of the search, or the return of 0 at its end.
ReadFind(c) ==
  LET f == frame[c] IN
  /\ pc[c] = "read_find"
  /\ IF Hit(cb, f.current_offset, f.total_chars, f_pos[c])
     THEN /\ frame' = [frame EXCEPT ![c].entry_off = f_pos[c] - f.total_chars]
          /\ Goto(c, "read_length")
          /\ UNCHANGED ret
     ELSE IF NextSlot(f.current_offset) = IF f.load = "once" THEN f.in_offs ELSE cb.in_offs
     THEN Return(c, "ok")
     ELSE /\ frame' = [frame EXCEPT
                ![c].current_offset = NextSlot(f.current_offset),
                ![c].total_chars = @ + cb.entry[f.current_offset].size]
          /\ UNCHANGED <<pc, ret>>
  /\ UNCHANGED <<loaded, device, mx_lock, buffer_size, f_pos, writes, nomem>>

\* Subtraction of two values of type size_t.
SizeSub(a, b) == (a - b) % SIZE_MOD

\* Fault: what is left of the entry does not limit the read.
ReadLengthCount(c) ==
  /\ pc[c] = "read_length"
  /\ frame' = [frame EXCEPT ![c].read_length = @ + frame[c].count]
  /\ Goto(c, "read_copy")
  /\ UNCHANGED <<loaded, device, mx_lock, buffer_size, f_pos, ret, writes, nomem>>

\* The size of the entry is loaded again.
ReadLength(c) ==
  LET f == frame[c]
      rest == SizeSub(cb.entry[f.current_offset].size, f.entry_off)
  IN
  /\ pc[c] = "read_length"
  /\ frame' = [frame EXCEPT ![c].read_length = IF rest > f.count THEN f.count ELSE rest]
  /\ Goto(c, "read_copy")
  /\ UNCHANGED <<loaded, device, mx_lock, buffer_size, f_pos, ret, writes, nomem>>

\* copy_to_user, which fails when the user's buffer is not writable.
ReadCopy(c) ==
  /\ pc[c] = "read_copy"
  /\ \/ Return(c, "EFAULT") /\ UNCHANGED f_pos
     \/ /\ f_pos' = [f_pos EXCEPT ![c] = @ + frame[c].read_length]
        /\ Return(c, "ok")
  /\ UNCHANGED <<loaded, device, mx_lock, buffer_size, writes, nomem>>

-----------------------------------------------------------------------------
(* aesd_write.                                                             *)

aesd_write(c, count) ==
  /\ pc[c] = "idle"
  /\ writes < MaxWrites
  /\ \/ Return(c, "EFAULT")                     \* buf is NULL
     \/ Enter(c, "write_lock", [count |-> count, retval |-> 0, loaded_size |-> 0])
  /\ writes' = writes + 1
  /\ UNCHANGED <<loaded, device, mx_lock, buffer_size, f_pos, nomem>>

\* mutex_lock_interruptible gives up when a signal arrives while it waits.
Interrupted(c) ==
  /\ pc[c] \in {"write_lock", "ioctl_lock"}
  /\ mx_lock # NULL
  /\ Return(c, "ERESTARTSYS")
  /\ UNCHANGED <<loaded, device, mx_lock, buffer_size, f_pos, writes, nomem>>

\* Where a write that has copied a newline goes.
AfterCopy == IF cb.full THEN "evict_free" ELSE "add_out"

(***************************************************************************)
(* Under the lock: krealloc of the bytes that wait for their newline, or a *)
(* first kmalloc; then copy_from_user, which may copy n bytes only; then   *)
(* memchr over all bytes gathered.  nl says that a newline is among the n. *)
(* krealloc may move the block.  A block that kmalloc gave to a write that *)
(* copied nothing is forgotten by the next kmalloc.                        *)
(***************************************************************************)
WriteCopy(c) ==
  LET count == frame[c].count
      free == {p \in Ptr : heap[p] = 0}
  IN
  /\ pc[c] = "write_lock"
  /\ mx_lock = NULL
  /\ mx_lock' = c
  /\ \/ /\ tmp_size > 0
        /\ tmp_buf' \in {tmp_buf} \cup free
        /\ heap' = [heap EXCEPT ![tmp_buf] = 0, ![tmp_buf'] = tmp_size + count]
     \/ /\ tmp_size = 0 /\ count > 0
        /\ tmp_buf' \in free
        /\ heap' = [heap EXCEPT ![tmp_buf'] = count]
     \/ /\ tmp_size = 0 /\ count = 0
        /\ tmp_buf' = ZERO_SIZE_PTR
        /\ UNCHANGED heap
  /\ \E n \in 0..count, nl \in BOOLEAN :
       /\ nl => n > 0
       /\ tmp_size' = tmp_size + n
       /\ tmp_nl' = (tmp_nl \/ nl)
       /\ frame' = [frame EXCEPT ![c].retval = n]
       /\ Goto(c, IF tmp_nl' THEN AfterCopy ELSE "write_unlock")
  /\ UNCHANGED <<loaded, cb, buffer_size, f_pos, ret, writes, nomem>>

(***************************************************************************)
(* The allocation fails (kmalloc(0) cannot): the call returns at once and  *)
(* leaves mx_lock held.  krealloc does not free the old block, but tmp_buf *)
(* was the last pointer to it.                                             *)
(***************************************************************************)
WriteAllocFails(c) ==
  /\ pc[c] = "write_lock"
  /\ mx_lock = NULL
  /\ tmp_size + frame[c].count > 0
  /\ mx_lock' = c
  /\ tmp_buf' = NULL
  /\ nomem' = TRUE
  /\ Return(c, "ENOMEM")
  /\ UNCHANGED <<loaded, cb, tmp_size, tmp_nl, heap, buffer_size, f_pos, writes>>

\* Fault: the entry after the oldest is freed.
EvictFreeNext(c) ==
  LET p == cb.entry[Advance(cb.in_offs)].buffptr IN
  /\ pc[c] = "evict_free"
  /\ heap' = IF p \in Ptr THEN [heap EXCEPT ![p] = 0] ELSE heap
  /\ Goto(c, "evict_clear")
  /\ UNCHANGED <<loaded, cb, tmp_buf, tmp_size, tmp_nl, mx_lock, buffer_size,
                 f_pos, frame, ret, writes, nomem>>

\* kfree of the oldest entry; a reader can still find it.
EvictFree(c) ==
  LET p == cb.entry[cb.in_offs].buffptr IN
  /\ pc[c] = "evict_free"
  /\ heap' = IF p \in Ptr THEN [heap EXCEPT ![p] = 0] ELSE heap
  /\ Goto(c, "evict_clear")
  /\ UNCHANGED <<loaded, cb, tmp_buf, tmp_size, tmp_nl, mx_lock, buffer_size,
                 f_pos, frame, ret, writes, nomem>>

EvictClear(c) ==
  /\ pc[c] = "evict_clear"
  /\ cb' = [cb EXCEPT !.entry[cb.in_offs].size = 0]
  /\ Goto(c, "add_out")
  /\ UNCHANGED <<loaded, tmp_buf, tmp_size, tmp_nl, heap, mx_lock, buffer_size,
                 f_pos, frame, ret, writes, nomem>>

new_entry == [buffptr |-> tmp_buf, size |-> tmp_size]

\* aesd_circular_buffer_add_entry, store by store.
AddOut(c) ==
  /\ pc[c] = "add_out"
  /\ cb' = AdvanceOut(cb)
  /\ Goto(c, "add_store")
  /\ UNCHANGED <<loaded, tmp_buf, tmp_size, tmp_nl, heap, mx_lock, buffer_size,
                 f_pos, frame, ret, writes, nomem>>

AddStore(c) ==
  /\ pc[c] = "add_store"
  /\ cb' = StoreEntry(cb, new_entry)
  /\ Goto(c, "add_in")
  /\ UNCHANGED <<loaded, tmp_buf, tmp_size, tmp_nl, heap, mx_lock, buffer_size,
                 f_pos, frame, ret, writes, nomem>>

\* Fault: tmp_size keeps its value.
AddInKeepSize(c) ==
  /\ pc[c] = "add_in"
  /\ cb' = AdvanceIn(cb)
  /\ tmp_buf' = NULL /\ tmp_nl' = FALSE
  /\ Goto(c, "write_unlock")
  /\ UNCHANGED <<loaded, tmp_size, heap, mx_lock, buffer_size, f_pos, frame, ret,
                 writes, nomem>>

\* The last stores of add_entry, and the reset of tmp_buf that follows it.
AddIn(c) ==
  /\ pc[c] = "add_in"
  /\ cb' = AdvanceIn(cb)
  /\ tmp_buf' = NULL /\ tmp_size' = 0 /\ tmp_nl' = FALSE
  /\ Goto(c, "write_unlock")
  /\ UNCHANGED <<loaded, heap, mx_lock, buffer_size, f_pos, frame, ret, writes, nomem>>

WriteUnlock(c) ==
  /\ pc[c] = "write_unlock"
  /\ mx_lock' = NULL
  /\ Goto(c, "size_load")
  /\ UNCHANGED <<loaded, device, buffer_size, f_pos, frame, ret, writes, nomem>>

\* dev->buffer_size += retval, after the unlock: a load and a store.
SizeLoad(c) ==
  /\ pc[c] = "size_load"
  /\ frame' = [frame EXCEPT ![c].loaded_size = buffer_size]
  /\ Goto(c, "size_store")
  /\ UNCHANGED <<loaded, device, mx_lock, buffer_size, f_pos, ret, writes, nomem>>

\* Fault: the bytes asked for are added, not the bytes copied.
SizeStoreCount(c) ==
  /\ pc[c] = "size_store"
  /\ buffer_size' = frame[c].loaded_size + frame[c].count
  /\ Return(c, "ok")
  /\ UNCHANGED <<loaded, device, mx_lock, f_pos, writes, nomem>>

SizeStore(c) ==
  /\ pc[c] = "size_store"
  /\ buffer_size' = frame[c].loaded_size + frame[c].retval
  /\ Return(c, "ok")
  /\ UNCHANGED <<loaded, device, mx_lock, f_pos, writes, nomem>>

-----------------------------------------------------------------------------
(* aesd_llseek and aesd_ioctl.                                             *)

\* SEEK_SET, SEEK_CUR, SEEK_END, and any other whence.
aesd_llseek(c, off) ==
  /\ pc[c] = "idle"
  /\ \/ \E newpos \in {off, f_pos[c] + off, buffer_size + off} :
          /\ newpos <= MaxPos
          /\ IF newpos < 0
             THEN Return(c, "EINVAL") /\ UNCHANGED f_pos
             ELSE Return(c, "ok") /\ f_pos' = [f_pos EXCEPT ![c] = newpos]
     \/ Return(c, "EINVAL") /\ UNCHANGED f_pos
  /\ UNCHANGED <<loaded, device, mx_lock, buffer_size, writes, nomem>>

\* The checks before the lock: the command, the copy of the argument, its range.
aesd_ioctl(c, seek_cmd) ==
  /\ pc[c] = "idle"
  /\ \/ Return(c, "EINVAL")
     \/ /\ seek_cmd[1] <= N
        /\ Enter(c, "ioctl_lock",
                 [write_cmd |-> seek_cmd[1], write_cmd_offset |-> seek_cmd[2],
                  index |-> 0, loc_off |-> 0, retval |-> "ok"])
  /\ UNCHANGED <<loaded, device, mx_lock, buffer_size, f_pos, writes, nomem>>

IoctlLock(c) ==
  /\ pc[c] = "ioctl_lock"
  /\ mx_lock = NULL
  /\ mx_lock' = c
  /\ Goto(c, "ioctl_loop")
  /\ UNCHANGED <<loaded, device, buffer_size, f_pos, frame, ret, writes, nomem>>

(***************************************************************************)
(* The test both parts of aesd_ioctl make.  write_cmd may be N, for which  *)
(* entry[N] overlays the fields behind the array: its size is cb.size,     *)
(* which is always 0.                                                      *)
(***************************************************************************)
Occupied(i) == i \in Slots /\ cb.entry[i].buffptr # NULL /\ cb.entry[i].size > 0

\* Fault: the loop includes the command asked for.
IoctlLoopInclusive(c) ==
  LET f == frame[c] IN
  /\ pc[c] = "ioctl_loop"
  /\ IF f.index <= f.write_cmd /\ Occupied(f.index)
     THEN /\ frame' = [frame EXCEPT ![c].index = @ + 1,
                                    ![c].loc_off = @ + cb.entry[f.index].size]
          /\ UNCHANGED pc
     ELSE /\ frame' = [frame EXCEPT ![c].retval = IF f.index < f.write_cmd THEN "EINVAL" ELSE "ok"]
          /\ Goto(c, "ioctl_entry")
  /\ UNCHANGED <<loaded, device, mx_lock, buffer_size, f_pos, ret, writes, nomem>>

\* The loop.  `break` leaves the for loop only, with retval set.
IoctlLoop(c) ==
  LET f == frame[c] IN
  /\ pc[c] = "ioctl_loop"
  /\ IF f.index < f.write_cmd /\ Occupied(f.index)
     THEN /\ frame' = [frame EXCEPT ![c].index = @ + 1,
                                    ![c].loc_off = @ + cb.entry[f.index].size]
          /\ UNCHANGED pc
     ELSE /\ frame' = [frame EXCEPT ![c].retval = IF f.index < f.write_cmd THEN "EINVAL" ELSE "ok"]
          /\ Goto(c, "ioctl_entry")
  /\ UNCHANGED <<loaded, device, mx_lock, buffer_size, f_pos, ret, writes, nomem>>

\* Fault: an offset past the command is refused after the position has moved.
IoctlEntryAssignFirst(c) ==
  LET f == frame[c] IN
  /\ pc[c] = "ioctl_entry"
  /\ IF Occupied(f.write_cmd)
     THEN f_pos' = [f_pos EXCEPT ![c] = f.loc_off + f.write_cmd_offset]
     ELSE UNCHANGED f_pos
  /\ Return(c, IF Occupied(f.write_cmd) /\ f.write_cmd_offset <= cb.entry[f.write_cmd].size
               THEN f.retval ELSE "EINVAL")
  /\ mx_lock' = NULL
  /\ UNCHANGED <<loaded, device, buffer_size, writes, nomem>>

\* Fault: a refused seek returns without the unlock.
IoctlEntryKeepsLock(c) ==
  LET f == frame[c] IN
  /\ pc[c] = "ioctl_entry"
  /\ IF Occupied(f.write_cmd) /\ f.write_cmd_offset <= cb.entry[f.write_cmd].size
     THEN /\ f_pos' = [f_pos EXCEPT ![c] = f.loc_off + f.write_cmd_offset]
          /\ Return(c, f.retval)
          /\ mx_lock' = NULL
     ELSE /\ Return(c, "EINVAL")
          /\ UNCHANGED <<f_pos, mx_lock>>
  /\ UNCHANGED <<loaded, device, buffer_size, writes, nomem>>

\* The entry asked for, the position, and the unlock.
IoctlEntry(c) ==
  LET f == frame[c] IN
  /\ pc[c] = "ioctl_entry"
  /\ IF Occupied(f.write_cmd) /\ f.write_cmd_offset <= cb.entry[f.write_cmd].size
     THEN /\ f_pos' = [f_pos EXCEPT ![c] = f.loc_off + f.write_cmd_offset]
          /\ Return(c, f.retval)
     ELSE /\ UNCHANGED f_pos
          /\ Return(c, "EINVAL")
  /\ mx_lock' = NULL
  /\ UNCHANGED <<loaded, device, buffer_size, writes, nomem>>

-----------------------------------------------------------------------------
Call(c) ==
  \/ aesd_open(c)
  \/ aesd_release(c)
  \/ \E count \in ReadCounts : aesd_read(c, count)
  \/ \E count \in WriteCounts : aesd_write(c, count)
  \/ \E off \in SeekOffsets : aesd_llseek(c, off)
  \/ \E seek_cmd \in SeekCmds : aesd_ioctl(c, seek_cmd)

\* The steps of a call other than the wait for mx_lock.
Step(c) ==
  \/ ReadFind(c) \/ ReadLength(c) \/ ReadCopy(c)
  \/ EvictFree(c) \/ EvictClear(c)
  \/ AddOut(c) \/ AddStore(c) \/ AddIn(c)
  \/ WriteUnlock(c) \/ SizeLoad(c) \/ SizeStore(c)
  \/ IoctlLoop(c) \/ IoctlEntry(c)

Acquire(c) == WriteCopy(c) \/ WriteAllocFails(c) \/ IoctlLock(c)

Next ==
  \/ aesd_init_module
  \/ aesd_cleanup_module
  \/ \E c \in Clients : Call(c) \/ Step(c) \/ Acquire(c) \/ Interrupted(c)

Spec == Init /\ [][Next]_vars

(***************************************************************************)
(* A call that can proceed does.  mutex_lock wakes its waiters in turn     *)
(* (the kernel's mutex hands the lock over to a waiter that keeps losing), *)
(* so whoever waits gets a lock that is released again and again.  Nobody  *)
(* has to make a call, to send a signal or to unload the module.           *)
(***************************************************************************)
Fairness == \A c \in Clients : WF_vars(Step(c)) /\ SF_vars(Acquire(c))

FairSpec == Spec /\ Fairness

-----------------------------------------------------------------------------
(* Properties.                                                             *)

DeviceTypes ==
  /\ loaded \in BOOLEAN
  /\ cb \in Buffers([buffptr : Pointers, size : Nat])
  /\ mx_lock \in Clients \cup {NULL}
  /\ tmp_buf \in Pointers
  /\ tmp_size \in Nat
  /\ tmp_nl \in BOOLEAN
  /\ buffer_size \in Nat
  /\ heap \in [Ptr -> Nat]
  /\ writes \in Nat
  /\ nomem \in BOOLEAN

FileTypes ==
  /\ pc \in [Clients -> Labels]
  /\ f_pos \in [Clients -> Nat]
  /\ frame \in [Clients -> AnyFrame]
  /\ \A c \in Clients : frame[c] \in Frames(pc[c])
  /\ ret \in [Clients -> Results \cup {NULL}]

\* Every variable has its type: the offsets stay in the array, the position
\* of a file is never negative, a call has the local variables of its function.
TypeOK == DeviceTypes /\ FileTypes

\* The client that is replacing or adding an entry, if there is one.
Adding == \E c \in Clients : pc[c] \in EvictPC \cup AddPC

At(labels) == \E c \in Clients : pc[c] \in labels

\* The buffer as it will be when the call that is changing it is done.
Settled ==
  IF At(EvictPC \cup {"add_out"}) THEN add_entry(cb, new_entry)
  ELSE IF At({"add_store"}) THEN AdvanceIn(StoreEntry(cb, new_entry))
  ELSE IF At({"add_in"}) THEN AdvanceIn(cb)
  ELSE cb

\* The blocks that a kept command owns.
Owned == {Settled.entry[i].buffptr : i \in {j \in Slots : Settled.entry[j].size > 0}}

(***************************************************************************)
(* Ownership of memory: every command that the buffer keeps has a block of *)
(* its own that is allocated and long enough, and so have the bytes that   *)
(* wait for their newline.  A block freed twice, freed too early, shared   *)
(* by two commands, or lost in krealloc breaks this some writes later.     *)
(***************************************************************************)
Ownership ==
  loaded =>
    /\ \A i \in Slots :
         LET e == Settled.entry[i]
         IN  e.size > 0 => e.buffptr \in Ptr /\ heap[e.buffptr] >= e.size
    /\ \A i, j \in Slots :
         /\ Settled.entry[i].size > 0
         /\ Settled.entry[j].size > 0
         /\ Settled.entry[i].buffptr = Settled.entry[j].buffptr
         => i = j
    /\ ~Adding /\ tmp_size > 0 /\ tmp_buf # NULL =>
         /\ tmp_buf \in Ptr \ Owned
         /\ heap[tmp_buf] >= tmp_size

\* Allocated blocks that nothing refers to any more.
Orphans ==
  {p \in Ptr : heap[p] > 0 /\ p # tmp_buf
               /\ \A i \in Slots : cb.entry[i].buffptr = p => cb.entry[i].size = 0}

(***************************************************************************)
(* Memory is lost in three ways only, and then it is the block at tmp_buf: *)
(* an allocation fails, the module is loaded again after an unload with    *)
(* bytes waiting, or a first write copied nothing and another follows.     *)
(* Evicting a command and unloading the module free every other block.     *)
(***************************************************************************)
LeaksOnlyOnFaults ==
  [][/\ Orphans' \subseteq Orphans \cup {tmp_buf}
     /\ \/ Orphans' \subseteq Orphans
        \/ nomem' # nomem
        \/ ~loaded
        \/ tmp_size = 0]_vars

(***************************************************************************)
(* mx_lock is held exactly by the client that is inside it; the one        *)
(* exception is the return of -ENOMEM, which keeps it.                     *)
(***************************************************************************)
LockHeldInside ==
  /\ \A c \in Clients : pc[c] \in LockedPC => mx_lock = c
  /\ mx_lock # NULL /\ ~nomem => pc[mx_lock] \in LockedPC

(***************************************************************************)
(* Outside a write the slots in use are those below in_offs until the      *)
(* buffer has been full, and all of them afterwards; the bytes that wait   *)
(* hold no newline.  aesd_ioctl relies on it: it takes an empty entry for  *)
(* the end of the data.                                                    *)
(***************************************************************************)
Occupancy ==
  loaded /\ ~Adding =>
    /\ \A i \in Slots : Occupied(i) <=> (cb.full \/ i < cb.in_offs)
    /\ cb.full => cb.in_offs = cb.out_offs
    /\ ~cb.full => cb.out_offs = 0
    /\ ~tmp_nl

\* Client c is about to copy from an entry.
ReadTarget(c) == [slot |-> frame[c].current_offset, byte |-> frame[c].entry_off]

\* The bytes that client c is about to copy are in an allocated block.
InBlock(c) ==
  LET e == cb.entry[frame[c].current_offset]
  IN  frame[c].read_length > 0 =>
        e.buffptr \in Ptr /\ heap[e.buffptr] >= frame[c].entry_off + frame[c].read_length

(***************************************************************************)
(* Until the buffer is full, aesd_read does well without the lock: what it *)
(* is about to copy is in allocated memory whatever writes run meanwhile,  *)
(* and it is the byte at the file's position, provided that the device     *)
(* held a command when the search began.  (A search that begins on an      *)
(* empty device visits slots while they are filled: it can take a later    *)
(* command for the first, or go around and count one twice.)               *)
(***************************************************************************)
ReadSafeUntilFull ==
  ~cb.full =>
    \A c \in Clients :
      /\ pc[c] \in {"read_length", "read_copy"} /\ frame[c].in_offs # 0 =>
           find_entry(cb, f_pos[c]) = ReadTarget(c)
      /\ pc[c] = "read_copy" => InBlock(c)

(***************************************************************************)
(* aesd_read never copies from memory that has been freed, nor past the    *)
(* end of a block.  One client alone keeps this; with a second client that *)
(* evicts a command it fails, since aesd_read does not do the locking that *)
(* the comment on the search asks of its caller.                           *)
(***************************************************************************)
ReadsLiveMemory == \A c \in Clients : pc[c] = "read_copy" => InBlock(c)

(***************************************************************************)
(* With one client a read copies the byte at its position, in the wrapped  *)
(* buffer too, and returns 0 bytes only when there is none.                *)
(***************************************************************************)
ReadsRightByte ==
  [][\A c \in Clients :
       /\ pc[c] \in {"read_length", "read_copy"} =>
            find_entry(cb, f_pos[c]) = ReadTarget(c)
       /\ pc[c] = "read_find" /\ pc'[c] = "idle" => find_entry(cb, f_pos[c]) = NULL]_vars

(***************************************************************************)
(* A seek that is refused leaves the position alone.  aesd_ioctl could     *)
(* assign f_pos after its loop has failed; that it never does rests on the *)
(* slots in use being a prefix.                                            *)
(***************************************************************************)
FailedSeekKeepsPosition ==
  [][\A c \in Clients :
       pc[c] \in IoctlPC /\ pc'[c] = "idle" /\ ret'[c] # "ok" => f_pos'[c] = f_pos[c]]_vars

\* Client c ends a successful AESDCHAR_IOCSEEKTO in this step.
SeekSucceeds(c) == pc[c] = "ioctl_entry" /\ pc'[c] = "idle" /\ ret'[c] = "ok"

(***************************************************************************)
(* Until the buffer is full, a successful AESDCHAR_IOCSEEKTO moves to the  *)
(* byte asked for: a read from there finds the command write_cmd, at       *)
(* write_cmd_offset.                                                       *)
(***************************************************************************)
SeekExactUntilFull ==
  [][\A c \in Clients :
       LET f == frame[c] IN
       /\ SeekSucceeds(c)
       /\ ~cb.full
       /\ f.write_cmd_offset < cb.entry[f.write_cmd].size
       => find_entry(cb, f_pos'[c]) =
            [slot |-> f.write_cmd, byte |-> f.write_cmd_offset]]_vars

(***************************************************************************)
(* "The zero referenced write command to seek into" (aesd_ioctl.h): the    *)
(* position reached lies in the command that is number write_cmd in the    *)
(* order of the log.  After the buffer has wrapped aesd_ioctl still counts *)
(* slots of the array.                                                     *)
(***************************************************************************)
SeekFindsCommand ==
  [][\A c \in Clients :
       LET f == frame[c] IN
       /\ SeekSucceeds(c)
       /\ f.write_cmd_offset < cb.entry[SlotOf(cb, f.write_cmd)].size
       => find_entry(cb, f_pos'[c]) =
            [slot |-> SlotOf(cb, f.write_cmd), byte |-> f.write_cmd_offset]]_vars

Sizes == [k \in 1..Count(Settled) |-> LogOf(Settled)[k].size]

\* How many bytes a sequence of commands holds.
TotalSize(sizes) ==
  LET upto[k \in 0..N] ==
        IF k = 0 THEN 0
        ELSE upto[k - 1] + IF k \in DOMAIN sizes THEN sizes[k] ELSE 0
  IN  upto[N]

\* The bytes that the device holds, those without their newline included.
Held == TotalSize(Sizes) + IF Adding THEN 0 ELSE tmp_size

(***************************************************************************)
(* Until the buffer is full, SEEK_END never lies past the bytes written:   *)
(* the update of buffer_size outside the lock may lose a write, but never  *)
(* counts one twice.                                                       *)
(***************************************************************************)
SeekEndWithinData == loaded /\ ~cb.full => buffer_size <= Held

(***************************************************************************)
(* With one client SEEK_END is exactly the end of the bytes written, until *)
(* the buffer is full.                                                     *)
(***************************************************************************)
SeekEndExact ==
  loaded /\ ~cb.full /\ ~At(WritePC) => buffer_size = Held

(***************************************************************************)
(* Refinement: seen from its writers the driver is a device that keeps the *)
(* last N commands, each write taking effect at once, whatever reads,      *)
(* seeks, failed copies and other writes run meanwhile.                    *)
(***************************************************************************)
Device == INSTANCE CommandDevice
            WITH commands <- IF loaded THEN Sizes ELSE << >>,
                 pending  <- IF loaded /\ ~Adding THEN tmp_size ELSE 0

CommandSpec == Device!Spec

(***************************************************************************)
(* Every call ends.  Only a read whose search loads in_offs in each        *)
(* iteration may be led round the buffer for ever, by writers that clear   *)
(* the slots before it and keep moving in_offs: it too ends once in_offs   *)
(* stays where it is.  A write or a seek gets mx_lock, unless a failed     *)
(* allocation has left it locked.                                          *)
(***************************************************************************)
CallsEnd ==
  \A c \in Clients :
    /\ \A i \in Slots :
         pc[c] \in ReadPC /\ cb.in_offs = i
           ~> \/ pc[c] = "idle"
              \/ pc[c] \in ReadPC /\ frame[c].load = "each" /\ cb.in_offs # i
    /\ pc[c] \in WritePC \cup IoctlPC ~> pc[c] = "idle" \/ nomem
=============================================================================
