--------------------------- MODULE AesdCharProofs ---------------------------
(***************************************************************************)
(* Proofs about AesdChar, for every number of slots, clients, addresses    *)
(* and sizes.                                                              *)
(***************************************************************************)
EXTENDS AesdChar, CircularBufferLemmas

\* Where the client inside mx_lock is in replacing an entry.
Phase ==
  IF mx_lock \in Clients /\ pc[mx_lock] \in EvictPC \cup AddPC
  THEN pc[mx_lock] ELSE "none"

\* Files are open only while the module is loaded.
UnloadedClosed == ~loaded => \A c \in Clients : pc[c] = "closed"

\* A search has not passed the position it looks for.
SearchBehind ==
  \A c \in Clients : pc[c] = "read_find" => frame[c].total_chars <= f_pos[c]

TypeInv == TypeOK /\ SearchBehind

LockInv == LockHeldInside /\ UnloadedClosed

\* The offsets, at each step of replacing an entry.
OffsetsInv ==
  /\ ~cb.full => cb.out_offs = 0
  /\ cb.full => cb.out_offs = IF Phase \in {"add_store", "add_in"}
                              THEN Advance(cb.in_offs) ELSE cb.in_offs

\* The slots in use, at each step of replacing an entry.
InUse(i) ==
  \/ Phase \in {"none", "evict_free", "evict_clear"} /\ (cb.full \/ i < cb.in_offs)
  \/ Phase \in {"add_out", "add_store"} /\ i # cb.in_offs /\ (cb.full \/ i < cb.in_offs)
  \/ Phase = "add_in" /\ (cb.full \/ i <= cb.in_offs)

\* The slots whose block is allocated: all in use but the one being evicted.
Live(i) == cb.entry[i].size > 0 /\ ~(Phase = "evict_clear" /\ i = cb.in_offs)

EntriesInv ==
  /\ \A i \in Slots : cb.entry[i].size > 0 <=> InUse(i)
  /\ \A i \in Slots :
       Live(i) => cb.entry[i].buffptr \in Ptr /\ heap[cb.entry[i].buffptr] >= cb.entry[i].size
  /\ \A i, j \in Slots :
       Live(i) /\ Live(j) /\ cb.entry[i].buffptr = cb.entry[j].buffptr => i = j

\* The bytes gathered: their block is theirs alone until add_entry has stored it.
PendingInv ==
  /\ tmp_nl <=> Phase # "none"
  /\ Phase # "none" => tmp_size > 0 /\ tmp_buf # NULL
  /\ Phase \in EvictPC => cb.full
  /\ tmp_size > 0 /\ tmp_buf # NULL =>
       /\ tmp_buf \in Ptr
       /\ heap[tmp_buf] >= tmp_size
       /\ \A i \in Slots :
            Live(i) /\ cb.entry[i].buffptr = tmp_buf => Phase = "add_in" /\ i = cb.in_offs
  /\ Phase = "add_in" => cb.entry[cb.in_offs] = new_entry

DataInv == loaded => OffsetsInv /\ EntriesInv /\ PendingInv

\* A failed krealloc leaves tmp_size without a tmp_buf, and the device locked.
LostInv ==
  loaded /\ tmp_size > 0 /\ tmp_buf = NULL =>
    mx_lock # NULL /\ \A c \in Clients : pc[c] \notin LockedPC

IInv == TypeInv /\ LockInv /\ DataInv /\ LostInv

-----------------------------------------------------------------------------
(* Types.                                                                  *)

\* Entries of the buffer, and the buffer itself, under each store.
LEMMA BufferTypes ==
  ASSUME TypeOK
  PROVE  /\ new_entry \in [buffptr : Pointers, size : Nat]
         /\ AdvanceOut(cb) \in Buffers([buffptr : Pointers, size : Nat])
         /\ StoreEntry(cb, new_entry) \in Buffers([buffptr : Pointers, size : Nat])
         /\ AdvanceIn(cb) \in Buffers([buffptr : Pointers, size : Nat])
         /\ [cb EXCEPT !.entry[cb.in_offs].size = 0]
              \in Buffers([buffptr : Pointers, size : Nat])
<1> DEFINE E == [buffptr : Pointers, size : Nat]
<1>1. new_entry \in E
  BY DEF TypeOK, DeviceTypes, new_entry
<1>2. cb \in Buffers(E)
  BY DEF TypeOK, DeviceTypes
<1>3. [cb EXCEPT !.entry[cb.in_offs].size = 0] \in Buffers(E)
  BY <1>2 DEF Buffers
<1> QED
  BY <1>1, <1>2, <1>3, AdvanceOutFields, StoreEntryFields, AdvanceInFields


\* The local variables of any function are among all of them.
LEMMA FramesInAny ==
  /\ \A label \in Labels : Frames(label) \subseteq AnyFrame
  /\ NULL \in AnyFrame
BY DEF Frames, AnyFrame

\* A step of one client that gives it a label and a frame that fit keeps the
\* types of all labels and frames.
LEMMA FrameStep ==
  ASSUME FileTypes, NEW c \in Clients, NEW label \in Labels, NEW f \in Frames(label),
         NEW pos \in Nat, NEW r \in Results \cup {NULL},
         Goto(c, label),
         frame' = [frame EXCEPT ![c] = f],
         f_pos' = [f_pos EXCEPT ![c] = pos],
         ret' = [ret EXCEPT ![c] = r]
  PROVE  FileTypes'
BY FramesInAny DEF FileTypes, Goto

\* The same for a step that changes the label only, within one function.
LEMMA LabelStep ==
  ASSUME FileTypes, NEW c \in Clients, NEW label \in Labels,
         Frames(label) = Frames(pc[c]),
         Goto(c, label),
         UNCHANGED <<frame, f_pos, ret>>
  PROVE  FileTypes'
BY FramesInAny DEF FileTypes, Goto

\* The same for a step that changes the label and the frame.
LEMMA LocalStep ==
  ASSUME FileTypes, NEW c \in Clients, NEW label \in Labels, NEW f \in Frames(label),
         Goto(c, label),
         frame' = [frame EXCEPT ![c] = f],
         UNCHANGED <<f_pos, ret>>
  PROVE  FileTypes'
BY FramesInAny DEF FileTypes, Goto

\* The same for a call that returns.
LEMMA ReturnStep ==
  ASSUME FileTypes, NEW c \in Clients, NEW r \in Results, NEW pos \in Nat,
         Return(c, r),
         f_pos' = [f_pos EXCEPT ![c] = pos]
  PROVE  FileTypes'
BY FramesInAny DEF FileTypes, Return, Goto, Frames, Labels, ReadPC, WritePC, IoctlPC, AddPC, EvictPC

LEMMA ReturnStay ==
  ASSUME FileTypes, NEW c \in Clients, NEW r \in Results,
         Return(c, r),
         UNCHANGED f_pos
  PROVE  FileTypes'
BY FramesInAny DEF FileTypes, Return, Goto, Frames, Labels, ReadPC, WritePC, IoctlPC, AddPC, EvictPC

\* A step after which client c is not searching keeps the other searches.
LEMMA SearchStep ==
  ASSUME FileTypes, SearchBehind, NEW c \in Clients, NEW label,
         label # "read_find",
         Goto(c, label),
         \A d \in Clients \ {c} : frame'[d] = frame[d] /\ f_pos'[d] = f_pos[d]
  PROVE  SearchBehind'
BY DEF SearchBehind, FileTypes, Goto

(* Every step keeps the types.                                             *)

\* Frames(label), for each function.
LEMMA FrameKinds ==
  /\ \A l \in ReadPC : Frames(l) = ReadFrame /\ l \in Labels
  /\ \A l \in WritePC : Frames(l) = WriteFrame /\ l \in Labels
  /\ \A l \in IoctlPC : Frames(l) = IoctlFrame /\ l \in Labels
  /\ \A l \in {"closed", "idle"} : Frames(l) = {NULL} /\ l \in Labels
BY DEF Frames, Labels, ReadPC, WritePC, IoctlPC, AddPC, EvictPC

\* The frame of a search that moves to another slot.
Moved(f, slot, total) == [f EXCEPT !.current_offset = slot, !.total_chars = total]

\* Such a frame is a frame of a search, with the total given.
LEMMA MovedFrame ==
  ASSUME NEW f \in ReadFrame, NEW slot \in Slots, NEW total \in Nat
  PROVE  /\ Moved(f, slot, total) \in ReadFrame
         /\ Moved(f, slot, total).total_chars = total
<1>1. [f EXCEPT !.current_offset = slot] \in ReadFrame
  BY DEF ReadFrame
<1>2. \A h \in ReadFrame : /\ [h EXCEPT !.total_chars = total] \in ReadFrame
                           /\ [h EXCEPT !.total_chars = total].total_chars = total
  BY DEF ReadFrame
<1>3. Moved(f, slot, total) = [[f EXCEPT !.current_offset = slot] EXCEPT !.total_chars = total]
  BY DEF ReadFrame, Moved
<1> QED
  BY <1>1, <1>2, <1>3

\* The frame of aesd_ioctl after one more index.
LEMMA NextIndexFrame ==
  ASSUME NEW f \in IoctlFrame, NEW index \in Nat, NEW loc_off \in Nat
  PROVE  [f EXCEPT !.index = index, !.loc_off = loc_off] \in IoctlFrame
<1>1. [f EXCEPT !.index = index] \in IoctlFrame
  BY DEF IoctlFrame
<1>2. \A h \in IoctlFrame : [h EXCEPT !.loc_off = loc_off] \in IoctlFrame
  BY DEF IoctlFrame
<1>3. [f EXCEPT !.index = index, !.loc_off = loc_off] =
        [[f EXCEPT !.index = index] EXCEPT !.loc_off = loc_off]
  BY DEF IoctlFrame
<1> QED
  BY <1>1, <1>2, <1>3

\* Every step keeps the types.  The position of the search in aesd_read is
\* what keeps the difference char_offset - total_chars from wrapping.
LEMMA TypeStep == TypeInv /\ [Next]_vars => TypeInv'
<1> SUFFICES ASSUME TypeInv, [Next]_vars
             PROVE  TypeInv'
  OBVIOUS
<1>t. TypeOK /\ DeviceTypes /\ FileTypes /\ SearchBehind
  BY DEF TypeInv, TypeOK
<1>1. ASSUME aesd_init_module
      PROVE  TypeInv'
  <2>1. cb' \in Buffers([buffptr : Pointers, size : Nat])
    BY <1>1, NAssumption
    DEF aesd_init_module, EmptyBuffer, EmptyEntry, Buffers, Slots, Pointers
  <2>2. UNCHANGED <<pc, f_pos, frame, ret>>
    BY <1>1 DEF aesd_init_module, files
  <2>3. DeviceTypes'
    BY <1>1, <1>t, <2>1 DEF aesd_init_module, DeviceTypes, Pointers
  <2> QED
    BY <1>t, <2>2, <2>3 DEF TypeInv, TypeOK, FileTypes, SearchBehind
<1>2. ASSUME aesd_cleanup_module
      PROVE  TypeInv'
  <2>1. cb' \in Buffers([buffptr : Pointers, size : Nat]) /\ heap' \in [Ptr -> Nat]
    BY <1>2, <1>t DEF aesd_cleanup_module, DeviceTypes, Buffers
  <2>2. UNCHANGED <<pc, f_pos, frame, ret>>
    BY <1>2 DEF aesd_cleanup_module, files
  <2>3. DeviceTypes'
    BY <1>2, <1>t, <2>1 DEF aesd_cleanup_module, DeviceTypes
  <2> QED
    BY <1>t, <2>2, <2>3 DEF TypeInv, TypeOK, FileTypes, SearchBehind
<1>3. ASSUME NEW c \in Clients, aesd_open(c)
      PROVE  TypeInv'
  <2>d. DeviceTypes'
    BY <1>3, <1>t DEF aesd_open, DeviceTypes, device
  <2>f. FileTypes'
    BY <1>3, <1>t, ReturnStep DEF aesd_open, Results
  <2>s. SearchBehind'
    BY <1>3, <1>t, SearchStep DEF aesd_open, FileTypes, Return, Goto
  <2> QED
    BY <2>d, <2>f, <2>s DEF TypeInv, TypeOK
<1>4. ASSUME NEW c \in Clients, aesd_release(c)
      PROVE  TypeInv'
  <2>d. DeviceTypes'
    BY <1>4, <1>t DEF aesd_release, DeviceTypes, device
  <2>f. FileTypes'
    BY <1>4, <1>t, FrameStep, FrameKinds DEF aesd_release, Enter
  <2>s. SearchBehind'
    BY <1>4, <1>t, SearchStep DEF aesd_release, FileTypes, Enter, Goto
  <2> QED
    BY <2>d, <2>f, <2>s DEF TypeInv, TypeOK
<1>5. ASSUME NEW c \in Clients, NEW count \in ReadCounts, aesd_read(c, count)
      PROVE  TypeInv'
  <2>d. DeviceTypes'
    BY <1>5, <1>t DEF aesd_read, DeviceTypes, device
  <2>1. f_pos' = f_pos /\ f_pos = [f_pos EXCEPT ![c] = f_pos[c]] /\ f_pos[c] \in Nat
    BY <1>5, <1>t DEF aesd_read, FileTypes
  <2>2. ASSUME Return(c, "EFAULT")
        PROVE  FileTypes' /\ SearchBehind'
    BY <1>t, <2>1, <2>2, ReturnStay, SearchStep DEF Results, Return, Goto, FileTypes
  <2>3. ASSUME NEW f \in FreshReadFrames(count), Enter(c, "read_find", f)
        PROVE  FileTypes' /\ SearchBehind'
    <3>1. f \in ReadFrame /\ f.total_chars = 0
      BY <1>5, <1>t, InputAssumption
      DEF FreshReadFrames, ReadFrame, DeviceTypes, Buffers
    <3>2. FileTypes'
      BY <1>t, <2>1, <2>3, <3>1, FrameStep, FrameKinds DEF Enter, ReadPC
    <3>3. SearchBehind'
      BY <1>t, <2>1, <2>3, <3>1 DEF SearchBehind, FileTypes, Enter, Goto
    <3> QED
      BY <3>2, <3>3
  <2>4. FileTypes' /\ SearchBehind'
    BY <1>5, <2>2, <2>3 DEF aesd_read
  <2>f. FileTypes'
    BY <2>4
  <2>s. SearchBehind'
    BY <2>4
  <2> QED
    BY <2>d, <2>f, <2>s DEF TypeInv, TypeOK
<1>6. ASSUME NEW c \in Clients, ReadFind(c)
      PROVE  TypeInv'
  <2>d. DeviceTypes'
    BY <1>6, <1>t DEF ReadFind, DeviceTypes, device
  <2> DEFINE f == frame[c]
             next == NextSlot(f.current_offset)
             stop == IF f.load = "once" THEN f.in_offs ELSE cb.in_offs
             found == [f EXCEPT !.entry_off = f_pos[c] - f.total_chars]
             moved == [f EXCEPT !.current_offset = next,
                                !.total_chars = f.total_chars + cb.entry[f.current_offset].size]
  <2>1. pc[c] = "read_find" /\ f \in ReadFrame
    BY <1>6, <1>t, FrameKinds DEF ReadFind, FileTypes, ReadPC
  <2>2. f_pos[c] \in Nat /\ f.total_chars <= f_pos[c]
    BY <1>t, <2>1 DEF FileTypes, SearchBehind
  <2>3. cb.entry[f.current_offset].size \in Nat
    BY <1>t, <2>1 DEF DeviceTypes, Buffers, ReadFrame
  <2>4. /\ f_pos' = f_pos /\ f_pos = [f_pos EXCEPT ![c] = f_pos[c]]
        /\ ret = [ret EXCEPT ![c] = ret[c]] /\ ret[c] \in Results \cup {NULL}
        /\ pc = [pc EXCEPT ![c] = "read_find"]
    BY <1>6, <1>t, <2>1 DEF ReadFind, FileTypes
  <2>5. \/ /\ Hit(cb, f.current_offset, f.total_chars, f_pos[c])
           /\ frame' = [frame EXCEPT ![c] = found] /\ Goto(c, "read_length") /\ ret' = ret
        \/ Return(c, "ok")
        \/ /\ ~Hit(cb, f.current_offset, f.total_chars, f_pos[c])
           /\ frame' = [frame EXCEPT ![c] = moved] /\ pc' = pc /\ ret' = ret
    BY <1>6 DEF ReadFind
  <2>6. found \in ReadFrame
    BY <2>1, <2>2 DEF ReadFrame
  <2>7. ASSUME ~Hit(cb, f.current_offset, f.total_chars, f_pos[c])
        PROVE  moved \in ReadFrame /\ moved.total_chars <= f_pos[c]
    <3>1. next \in Slots
      BY <2>1, NAssumption DEF NextSlot, Slots, ReadFrame
    <3>a. f.total_chars + cb.entry[f.current_offset].size \in Nat
      BY <2>1, <2>3 DEF ReadFrame
    <3>2. moved \in ReadFrame
          /\ moved.total_chars = f.total_chars + cb.entry[f.current_offset].size
      <4> DEFINE total == f.total_chars + cb.entry[f.current_offset].size
      <4>1. total \in Nat
        BY <3>a
      <4>2. moved = Moved(f, next, total)
        BY DEF Moved
      <4> HIDE DEF f, next, total, moved
      <4>3. Moved(f, next, total) \in ReadFrame /\ Moved(f, next, total).total_chars = total
        BY <2>1, <3>1, <4>1, MovedFrame
      <4> QED
        BY <4>2, <4>3 DEF total
    <3>3. f.total_chars + cb.entry[f.current_offset].size <= f_pos[c]
      BY <2>1, <2>2, <2>3, <2>7 DEF ReadFrame, Hit
    <3> QED
      BY <3>2, <3>3
  <2> HIDE DEF found, moved
  <2>8. ASSUME frame' = [frame EXCEPT ![c] = found], Goto(c, "read_length"), ret' = ret
        PROVE  FileTypes'
    BY <1>t, <2>4, <2>6, <2>8, LocalStep, FrameKinds DEF ReadPC
  <2>9. ASSUME Return(c, "ok")
        PROVE  FileTypes'
    BY <1>t, <2>4, <2>9, ReturnStay DEF Results
  <2>10. ASSUME ~Hit(cb, f.current_offset, f.total_chars, f_pos[c]),
                frame' = [frame EXCEPT ![c] = moved], pc' = pc, ret' = ret
         PROVE  FileTypes'
    <3>1. Goto(c, "read_find")
      BY <2>4, <2>10 DEF Goto
    <3> QED
      BY <1>t, <2>4, <2>7, <2>10, <3>1, LocalStep, FrameKinds DEF ReadPC
  <2>f. FileTypes'
    BY <2>5, <2>8, <2>9, <2>10
  <2>s. SearchBehind'
    BY <1>t, <2>2, <2>4, <2>5, <2>7 DEF SearchBehind, FileTypes, Goto, Return
  <2> QED
    BY <2>d, <2>f, <2>s DEF TypeInv, TypeOK
<1>7. ASSUME NEW c \in Clients, ReadLength(c)
      PROVE  TypeInv'
  <2>d. DeviceTypes'
    BY <1>7, <1>t DEF ReadLength, DeviceTypes, device
  <2>f. FileTypes'
    <3> DEFINE rest == SizeSub(cb.entry[frame[c].current_offset].size, frame[c].entry_off)
               n == IF rest > frame[c].count THEN frame[c].count ELSE rest
               g == [frame[c] EXCEPT !.read_length = n]
    <3>1. frame[c] \in ReadFrame
      BY <1>7, <1>t, FrameKinds DEF ReadLength, FileTypes, ReadPC
    <3>2. cb.entry[frame[c].current_offset].size \in Nat /\ frame[c].entry_off \in Nat
          /\ frame[c].count \in Nat
      BY <1>t, <3>1 DEF DeviceTypes, Buffers, ReadFrame
    <3>3. rest \in Nat
      BY <3>2, InputAssumption DEF SizeSub
    <3> HIDE DEF rest
    <3>4. n \in Nat
      BY <3>2, <3>3
    <3>5. Goto(c, "read_copy") /\ frame' = [frame EXCEPT ![c] = g] /\ UNCHANGED <<f_pos, ret>>
      BY <1>7 DEF ReadLength, rest
    <3> HIDE DEF n
    <3>6. g \in ReadFrame
      BY <3>1, <3>4 DEF ReadFrame
    <3> HIDE DEF g
    <3> QED
      BY <1>t, <3>5, <3>6, LocalStep, FrameKinds DEF ReadPC
  <2>s. SearchBehind'
    BY <1>7, <1>t, SearchStep DEF ReadLength, FileTypes, Goto
  <2> QED
    BY <2>d, <2>f, <2>s DEF TypeInv, TypeOK
<1>8. ASSUME NEW c \in Clients, ReadCopy(c)
      PROVE  TypeInv'
  <2>d. DeviceTypes'
    BY <1>8, <1>t DEF ReadCopy, DeviceTypes, device
  <2>f. FileTypes'
    <3>1. frame[c] \in ReadFrame /\ f_pos[c] \in Nat
      BY <1>8, <1>t, FrameKinds DEF ReadCopy, FileTypes, ReadPC
    <3>2. f_pos[c] + frame[c].read_length \in Nat
      BY <3>1 DEF ReadFrame
    <3> QED
      BY <1>8, <1>t, <3>2, ReturnStep, ReturnStay DEF ReadCopy, Results
  <2>s. SearchBehind'
    BY <1>8, <1>t, SearchStep DEF ReadCopy, FileTypes, Return, Goto
  <2> QED
    BY <2>d, <2>f, <2>s DEF TypeInv, TypeOK
<1>9. ASSUME NEW c \in Clients, NEW count \in WriteCounts, aesd_write(c, count)
      PROVE  TypeInv'
  <2>d. DeviceTypes'
    BY <1>9, <1>t DEF aesd_write, DeviceTypes, device
  <2>f. FileTypes'
    <3> DEFINE g == [count |-> count, retval |-> 0, loaded_size |-> 0]
    <3>1. g \in WriteFrame
      BY InputAssumption DEF WriteFrame
    <3>2. f_pos' = f_pos /\ f_pos = [f_pos EXCEPT ![c] = f_pos[c]] /\ f_pos[c] \in Nat
      BY <1>9, <1>t DEF aesd_write, FileTypes
    <3>3. Return(c, "EFAULT") \/ Enter(c, "write_lock", g)
      BY <1>9 DEF aesd_write
    <3> HIDE DEF g
    <3>4. ASSUME Enter(c, "write_lock", g)
          PROVE  FileTypes'
      BY <1>t, <3>1, <3>2, <3>4, FrameStep, FrameKinds DEF Enter, WritePC
    <3> QED
      BY <1>t, <3>2, <3>3, <3>4, ReturnStay DEF Results
  <2>s. SearchBehind'
    BY <1>9, <1>t, SearchStep DEF aesd_write, FileTypes, Enter, Return, Goto
  <2> QED
    BY <2>d, <2>f, <2>s DEF TypeInv, TypeOK
<1>10. ASSUME NEW c \in Clients, Interrupted(c)
      PROVE  TypeInv'
  <2>d. DeviceTypes'
    BY <1>10, <1>t DEF Interrupted, DeviceTypes, device
  <2>f. FileTypes'
    BY <1>10, <1>t, ReturnStay DEF Interrupted, Results
  <2>s. SearchBehind'
    BY <1>10, <1>t, SearchStep DEF Interrupted, FileTypes, Return, Goto
  <2> QED
    BY <2>d, <2>f, <2>s DEF TypeInv, TypeOK
<1>11. ASSUME NEW c \in Clients, WriteAllocFails(c)
      PROVE  TypeInv'
  <2>d. DeviceTypes'
    BY <1>11, <1>t DEF WriteAllocFails, DeviceTypes, Pointers
  <2>f. FileTypes'
    BY <1>11, <1>t, ReturnStay DEF WriteAllocFails, Results
  <2>s. SearchBehind'
    BY <1>11, <1>t, SearchStep DEF WriteAllocFails, FileTypes, Return, Goto
  <2> QED
    BY <2>d, <2>f, <2>s DEF TypeInv, TypeOK
<1>12. ASSUME NEW c \in Clients, EvictFree(c)
      PROVE  TypeInv'
  <2>d. DeviceTypes'
    BY <1>12, <1>t DEF EvictFree, DeviceTypes, Pointers, device
  <2>f. FileTypes'
    <3>1. Frames("evict_clear") = Frames(pc[c]) /\ "evict_clear" \in Labels
      BY <1>12, <1>t, FrameKinds DEF EvictFree, FileTypes, WritePC, AddPC, EvictPC
    <3> QED
      BY <1>12, <1>t, <3>1, LabelStep DEF EvictFree
  <2>s. SearchBehind'
    BY <1>12, <1>t, SearchStep DEF EvictFree, FileTypes, Goto
  <2> QED
    BY <2>d, <2>f, <2>s DEF TypeInv, TypeOK
<1>13. ASSUME NEW c \in Clients, EvictClear(c)
      PROVE  TypeInv'
  <2>d. DeviceTypes'
    BY <1>13, <1>t, BufferTypes DEF EvictClear, DeviceTypes, Pointers, device
  <2>f. FileTypes'
    <3>1. Frames("add_out") = Frames(pc[c]) /\ "add_out" \in Labels
      BY <1>13, <1>t, FrameKinds DEF EvictClear, FileTypes, WritePC, AddPC, EvictPC
    <3> QED
      BY <1>13, <1>t, <3>1, LabelStep DEF EvictClear
  <2>s. SearchBehind'
    BY <1>13, <1>t, SearchStep DEF EvictClear, FileTypes, Goto
  <2> QED
    BY <2>d, <2>f, <2>s DEF TypeInv, TypeOK
<1>14. ASSUME NEW c \in Clients, AddOut(c)
      PROVE  TypeInv'
  <2>d. DeviceTypes'
    BY <1>14, <1>t, BufferTypes DEF AddOut, DeviceTypes, Pointers, device
  <2>f. FileTypes'
    <3>1. Frames("add_store") = Frames(pc[c]) /\ "add_store" \in Labels
      BY <1>14, <1>t, FrameKinds DEF AddOut, FileTypes, WritePC, AddPC, EvictPC
    <3> QED
      BY <1>14, <1>t, <3>1, LabelStep DEF AddOut
  <2>s. SearchBehind'
    BY <1>14, <1>t, SearchStep DEF AddOut, FileTypes, Goto
  <2> QED
    BY <2>d, <2>f, <2>s DEF TypeInv, TypeOK
<1>15. ASSUME NEW c \in Clients, AddStore(c)
      PROVE  TypeInv'
  <2>d. DeviceTypes'
    BY <1>15, <1>t, BufferTypes DEF AddStore, DeviceTypes, Pointers, device
  <2>f. FileTypes'
    <3>1. Frames("add_in") = Frames(pc[c]) /\ "add_in" \in Labels
      BY <1>15, <1>t, FrameKinds DEF AddStore, FileTypes, WritePC, AddPC, EvictPC
    <3> QED
      BY <1>15, <1>t, <3>1, LabelStep DEF AddStore
  <2>s. SearchBehind'
    BY <1>15, <1>t, SearchStep DEF AddStore, FileTypes, Goto
  <2> QED
    BY <2>d, <2>f, <2>s DEF TypeInv, TypeOK
<1>16. ASSUME NEW c \in Clients, AddIn(c)
      PROVE  TypeInv'
  <2>d. DeviceTypes'
    BY <1>16, <1>t, BufferTypes DEF AddIn, DeviceTypes, Pointers, device
  <2>f. FileTypes'
    <3>1. Frames("write_unlock") = Frames(pc[c]) /\ "write_unlock" \in Labels
      BY <1>16, <1>t, FrameKinds DEF AddIn, FileTypes, WritePC, AddPC, EvictPC
    <3> QED
      BY <1>16, <1>t, <3>1, LabelStep DEF AddIn
  <2>s. SearchBehind'
    BY <1>16, <1>t, SearchStep DEF AddIn, FileTypes, Goto
  <2> QED
    BY <2>d, <2>f, <2>s DEF TypeInv, TypeOK
<1>17. ASSUME NEW c \in Clients, WriteUnlock(c)
      PROVE  TypeInv'
  <2>d. DeviceTypes'
    BY <1>17, <1>t DEF WriteUnlock, DeviceTypes, Pointers, device
  <2>f. FileTypes'
    <3>1. Frames("size_load") = Frames(pc[c]) /\ "size_load" \in Labels
      BY <1>17, <1>t, FrameKinds DEF WriteUnlock, FileTypes, WritePC, AddPC, EvictPC
    <3> QED
      BY <1>17, <1>t, <3>1, LabelStep DEF WriteUnlock
  <2>s. SearchBehind'
    BY <1>17, <1>t, SearchStep DEF WriteUnlock, FileTypes, Goto
  <2> QED
    BY <2>d, <2>f, <2>s DEF TypeInv, TypeOK
<1>18. ASSUME NEW c \in Clients, SizeLoad(c)
      PROVE  TypeInv'
  <2>d. DeviceTypes'
    BY <1>18, <1>t DEF SizeLoad, DeviceTypes, device
  <2>f. FileTypes'
    <3> DEFINE g == [frame[c] EXCEPT !.loaded_size = buffer_size]
    <3>a. frame[c] \in WriteFrame /\ buffer_size \in Nat
      BY <1>18, <1>t, FrameKinds DEF SizeLoad, FileTypes, DeviceTypes, WritePC
    <3>1. g \in WriteFrame
      BY <3>a DEF WriteFrame
    <3>2. Goto(c, "size_store") /\ frame' = [frame EXCEPT ![c] = g] /\ UNCHANGED <<f_pos, ret>>
      BY <1>18 DEF SizeLoad
    <3> HIDE DEF g
    <3> QED
      BY <1>t, <3>1, <3>2, LocalStep, FrameKinds DEF WritePC
  <2>s. SearchBehind'
    BY <1>18, <1>t, SearchStep DEF SizeLoad, FileTypes, Goto
  <2> QED
    BY <2>d, <2>f, <2>s DEF TypeInv, TypeOK
<1>19. ASSUME NEW c \in Clients, SizeStore(c)
      PROVE  TypeInv'
  <2>1. frame[c] \in WriteFrame
    BY <1>19, <1>t, FrameKinds DEF SizeStore, FileTypes, WritePC
  <2>2. buffer_size' \in Nat
    BY <1>19, <2>1 DEF SizeStore, WriteFrame
  <2>d. DeviceTypes'
    BY <1>19, <1>t, <2>2 DEF SizeStore, DeviceTypes, device
  <2>f. FileTypes'
    BY <1>19, <1>t, ReturnStay DEF SizeStore, Results
  <2>s. SearchBehind'
    BY <1>19, <1>t, SearchStep DEF SizeStore, FileTypes, Return, Goto
  <2> QED
    BY <2>d, <2>f, <2>s DEF TypeInv, TypeOK
<1>20. ASSUME NEW c \in Clients, NEW off \in SeekOffsets, aesd_llseek(c, off)
      PROVE  TypeInv'
  <2>d. DeviceTypes'
    BY <1>20, <1>t DEF aesd_llseek, DeviceTypes, device
  <2>f. FileTypes'
    <3>1. /\ f_pos[c] \in Nat /\ buffer_size \in Nat /\ off \in Int
      BY <1>t, InputAssumption DEF FileTypes, DeviceTypes
    <3>2. ASSUME NEW newpos \in {off, f_pos[c] + off, buffer_size + off}, ~(newpos < 0)
          PROVE  newpos \in Nat
      BY <3>1, <3>2
    <3> QED
      BY <1>20, <1>t, <3>2, ReturnStep, ReturnStay DEF aesd_llseek, Results
  <2>s. SearchBehind'
    BY <1>20, <1>t, SearchStep DEF aesd_llseek, FileTypes, Return, Goto
  <2> QED
    BY <2>d, <2>f, <2>s DEF TypeInv, TypeOK
<1>21. ASSUME NEW c \in Clients, NEW seek_cmd \in SeekCmds, aesd_ioctl(c, seek_cmd)
      PROVE  TypeInv'
  <2>d. DeviceTypes'
    BY <1>21, <1>t DEF aesd_ioctl, DeviceTypes, device
  <2>f. FileTypes'
    <3> DEFINE g == [write_cmd |-> seek_cmd[1], write_cmd_offset |-> seek_cmd[2],
                     index |-> 0, loc_off |-> 0, retval |-> "ok"]
    <3>1. g \in IoctlFrame
      BY InputAssumption DEF IoctlFrame
    <3>2. f_pos' = f_pos /\ f_pos = [f_pos EXCEPT ![c] = f_pos[c]] /\ f_pos[c] \in Nat
      BY <1>21, <1>t DEF aesd_ioctl, FileTypes
    <3>3. Return(c, "EINVAL") \/ Enter(c, "ioctl_lock", g)
      BY <1>21 DEF aesd_ioctl
    <3> HIDE DEF g
    <3>4. ASSUME Enter(c, "ioctl_lock", g)
          PROVE  FileTypes'
      BY <1>t, <3>1, <3>2, <3>4, FrameStep, FrameKinds DEF Enter, IoctlPC
    <3> QED
      BY <1>t, <3>2, <3>3, <3>4, ReturnStay DEF Results
  <2>s. SearchBehind'
    BY <1>21, <1>t, SearchStep DEF aesd_ioctl, FileTypes, Enter, Return, Goto
  <2> QED
    BY <2>d, <2>f, <2>s DEF TypeInv, TypeOK
<1>22. ASSUME NEW c \in Clients, IoctlLock(c)
      PROVE  TypeInv'
  <2>d. DeviceTypes'
    BY <1>22, <1>t DEF IoctlLock, DeviceTypes, device
  <2>f. FileTypes'
    <3>1. Frames("ioctl_loop") = Frames(pc[c]) /\ "ioctl_loop" \in Labels
      BY <1>22, <1>t, FrameKinds DEF IoctlLock, FileTypes, IoctlPC
    <3> QED
      BY <1>22, <1>t, <3>1, LabelStep DEF IoctlLock
  <2>s. SearchBehind'
    BY <1>22, <1>t, SearchStep DEF IoctlLock, FileTypes, Goto
  <2> QED
    BY <2>d, <2>f, <2>s DEF TypeInv, TypeOK
<1>23. ASSUME NEW c \in Clients, IoctlLoop(c)
      PROVE  TypeInv'
  <2>d. DeviceTypes'
    BY <1>23, <1>t DEF IoctlLoop, DeviceTypes, device
  <2> DEFINE f == frame[c]
             next == [f EXCEPT !.index = f.index + 1,
                               !.loc_off = f.loc_off + cb.entry[f.index].size]
             last == [f EXCEPT !.retval = IF f.index < f.write_cmd THEN "EINVAL" ELSE "ok"]
  <2>1. pc[c] = "ioctl_loop" /\ f \in IoctlFrame
    BY <1>23, <1>t, FrameKinds DEF IoctlLoop, FileTypes, IoctlPC
  <2>2. last \in IoctlFrame
    <3>1. \A r \in {"ok", "EINVAL"} : [f EXCEPT !.retval = r] \in IoctlFrame
      BY <2>1 DEF IoctlFrame
    <3> QED
      BY <3>1
  <2>3. Occupied(f.index) => next \in IoctlFrame
    <3>1. Occupied(f.index) => f.index \in Slots /\ cb.entry[f.index].size \in Nat
      BY <1>t DEF Occupied, DeviceTypes, Buffers
    <3>2. f.index + 1 \in Nat /\ (Occupied(f.index) => f.loc_off + cb.entry[f.index].size \in Nat)
      BY <2>1, <3>1 DEF IoctlFrame
    <3> QED
      BY <2>1, <3>2, NextIndexFrame
  <2>4. \/ /\ Occupied(f.index)
           /\ frame' = [frame EXCEPT ![c] = next] /\ pc' = pc
        \/ frame' = [frame EXCEPT ![c] = last] /\ Goto(c, "ioctl_entry")
    BY <1>23 DEF IoctlLoop
  <2> HIDE DEF next, last
  <2>5. /\ UNCHANGED <<f_pos, ret>>
        /\ pc = [pc EXCEPT ![c] = "ioctl_loop"]
    BY <1>23, <1>t, <2>1 DEF IoctlLoop, FileTypes
  <2>6. ASSUME frame' = [frame EXCEPT ![c] = last], Goto(c, "ioctl_entry")
        PROVE  FileTypes' /\ SearchBehind'
    <3>1. FileTypes'
      BY <1>t, <2>2, <2>5, <2>6, LocalStep, FrameKinds DEF IoctlPC
    <3>2. SearchBehind'
      BY <1>t, <2>5, <2>6, SearchStep DEF FileTypes
    <3> QED
      BY <3>1, <3>2
  <2>7. ASSUME Occupied(f.index), frame' = [frame EXCEPT ![c] = next], pc' = pc
        PROVE  FileTypes' /\ SearchBehind'
    <3>1. Goto(c, "ioctl_loop")
      BY <2>5, <2>7 DEF Goto
    <3>2. FileTypes'
      BY <1>t, <2>3, <2>5, <2>7, <3>1, LocalStep, FrameKinds DEF IoctlPC
    <3>3. SearchBehind'
      BY <1>t, <2>5, <2>7, <3>1, SearchStep DEF FileTypes
    <3> QED
      BY <3>2, <3>3
  <2>8. FileTypes' /\ SearchBehind'
    BY <2>4, <2>6, <2>7
  <2>f. FileTypes'
    BY <2>8
  <2>s. SearchBehind'
    BY <2>8
  <2> QED
    BY <2>d, <2>f, <2>s DEF TypeInv, TypeOK
<1>24. ASSUME NEW c \in Clients, IoctlEntry(c)
      PROVE  TypeInv'
  <2>d. DeviceTypes'
    BY <1>24, <1>t DEF IoctlEntry, DeviceTypes, device
  <2>f. FileTypes'
    <3>1. frame[c] \in IoctlFrame
      BY <1>24, <1>t, FrameKinds DEF IoctlEntry, FileTypes, IoctlPC
    <3>2. frame[c].loc_off + frame[c].write_cmd_offset \in Nat
          /\ frame[c].retval \in Results
      BY <3>1 DEF IoctlFrame, Results
    <3> QED
      BY <1>24, <1>t, <3>2, ReturnStep, ReturnStay DEF IoctlEntry, Results
  <2>s. SearchBehind'
    BY <1>24, <1>t, SearchStep DEF IoctlEntry, FileTypes, Return, Goto
  <2> QED
    BY <2>d, <2>f, <2>s DEF TypeInv, TypeOK
<1>25. ASSUME NEW c \in Clients, WriteCopy(c)
      PROVE  TypeInv'
  <2>1. pc[c] = "write_lock" /\ frame[c] \in WriteFrame
    BY <1>25, <1>t, FrameKinds DEF WriteCopy, FileTypes, WritePC
  <2>2. PICK n \in 0..frame[c].count, nl \in BOOLEAN :
          /\ tmp_size' = tmp_size + n
          /\ tmp_nl' = (tmp_nl \/ nl)
          /\ frame' = [frame EXCEPT ![c].retval = n]
          /\ Goto(c, IF tmp_nl' THEN AfterCopy ELSE "write_unlock")
    BY <1>25 DEF WriteCopy
  <2>3. n \in Nat /\ frame[c].count \in Nat
    BY <2>1 DEF WriteFrame
  <2>4. tmp_buf' \in Pointers /\ heap' \in [Ptr -> Nat]
    BY <1>25, <1>t, <2>3 DEF WriteCopy, DeviceTypes, Pointers
  <2>d. DeviceTypes'
    BY <1>25, <1>t, <2>2, <2>3, <2>4 DEF WriteCopy, DeviceTypes
  <2>5. UNCHANGED <<f_pos, ret>>
    BY <1>25 DEF WriteCopy
  <2> DEFINE g == [frame[c] EXCEPT !.retval = n]
             label == IF tmp_nl' THEN AfterCopy ELSE "write_unlock"
  <2>6. g \in WriteFrame
    BY <2>1, <2>3 DEF WriteFrame
  <2>7. Frames(label) = WriteFrame /\ label \in Labels /\ label # "read_find"
    BY FrameKinds DEF AfterCopy, WritePC, AddPC, EvictPC
  <2>8. Goto(c, label) /\ frame' = [frame EXCEPT ![c] = g]
    BY <2>2
  <2> HIDE DEF g, label
  <2>f. FileTypes'
    BY <1>t, <2>5, <2>6, <2>7, <2>8, LocalStep
  <2>s. SearchBehind'
    BY <1>t, <2>5, <2>7, <2>8, SearchStep DEF FileTypes
  <2> QED
    BY <2>d, <2>f, <2>s DEF TypeInv, TypeOK
<1>26. CASE UNCHANGED vars
  BY <1>t, <1>26
  DEF vars, device, files, TypeInv, TypeOK, DeviceTypes, FileTypes, SearchBehind
<1> QED
  BY <1>1, <1>2, <1>3, <1>4, <1>5, <1>6, <1>7, <1>8, <1>9, <1>10, <1>11, <1>12, <1>13, <1>14, <1>15, <1>16, <1>17, <1>18, <1>19, <1>20, <1>21, <1>22, <1>23, <1>24, <1>25, <1>26
  DEF Next, Call, Step, Acquire

-----------------------------------------------------------------------------
(* The lock.                                                               *)

LEMMA TypeInit == Init => TypeInv
<1> SUFFICES ASSUME Init
             PROVE  TypeInv
  OBVIOUS
<1>1. cb \in Buffers([buffptr : Pointers, size : Nat])
  BY NAssumption DEF Init, EmptyBuffer, EmptyEntry, Buffers, Slots, Pointers
<1>2. DeviceTypes
  BY <1>1 DEF Init, DeviceTypes, Pointers
<1>3. FileTypes
  BY FrameKinds, FramesInAny DEF Init, FileTypes
<1>4. SearchBehind
  BY DEF Init, SearchBehind
<1> QED
  BY <1>2, <1>3, <1>4 DEF TypeInv, TypeOK

\* A step that neither enters nor leaves the part under the lock.
LEMMA LockKept ==
  ASSUME TypeOK, LockHeldInside, NEW c \in Clients, NEW label,
         Goto(c, label), label \in LockedPC <=> pc[c] \in LockedPC,
         mx_lock' = mx_lock, nomem' = nomem
  PROVE  LockHeldInside'
BY ClientAssumption DEF LockHeldInside, TypeOK, DeviceTypes, FileTypes, Goto

\* A step that takes the lock.
LEMMA LockTaken ==
  ASSUME TypeOK, LockHeldInside, NEW c \in Clients, NEW label,
         Goto(c, label), label \in LockedPC \/ nomem',
         mx_lock = NULL, mx_lock' = c
  PROVE  LockHeldInside'
<1>1. \A d \in Clients : pc[d] \notin LockedPC
  BY ClientAssumption DEF LockHeldInside
<1>2. \A d \in Clients : pc'[d] \in LockedPC => d = c
  BY <1>1 DEF Goto, TypeOK, FileTypes
<1>3. pc'[c] = label
  BY DEF Goto, TypeOK, FileTypes
<1> QED
  BY <1>2, <1>3 DEF LockHeldInside

\* A step that releases the lock.
LEMMA LockReleased ==
  ASSUME TypeOK, LockHeldInside, NEW c \in Clients, NEW label,
         Goto(c, label), label \notin LockedPC, pc[c] \in LockedPC,
         mx_lock' = NULL
  PROVE  LockHeldInside'
<1>1. \A d \in Clients : pc[d] \in LockedPC => d = c
  BY ClientAssumption DEF LockHeldInside
<1>2. \A d \in Clients : pc'[d] \notin LockedPC
  BY <1>1 DEF Goto, TypeOK, FileTypes
<1> QED
  BY <1>2 DEF LockHeldInside

\* Every step keeps the lock: it is held exactly from a successful
\* mutex_lock_interruptible to the mutex_unlock of the same call, except
\* after -ENOMEM.
LEMMA LockStep == TypeInv /\ LockInv /\ [Next]_vars => LockInv'
<1> SUFFICES ASSUME TypeInv, LockInv, [Next]_vars
             PROVE  LockInv'
  OBVIOUS
<1>t. TypeOK /\ LockHeldInside /\ UnloadedClosed
  BY DEF TypeInv, LockInv
<1>1. ASSUME aesd_init_module
      PROVE  LockInv'
  <2>1. \A c \in Clients : pc'[c] = "closed"
    BY <1>1, <1>t DEF aesd_init_module, UnloadedClosed, files
  <2>2. mx_lock' = NULL
    BY <1>1 DEF aesd_init_module
  <2> QED
    BY <2>1, <2>2 DEF LockInv, LockHeldInside, UnloadedClosed, LockedPC, AddPC, EvictPC
<1>2. ASSUME aesd_cleanup_module
      PROVE  LockInv'
  <2>1. UNCHANGED <<pc, mx_lock, nomem>> /\ \A c \in Clients : pc[c] = "closed"
    BY <1>2 DEF aesd_cleanup_module, files
  <2> QED
    BY <1>t, <2>1 DEF LockInv, LockHeldInside, UnloadedClosed
<1>3. ASSUME NEW c \in Clients, aesd_open(c)
      PROVE  LockInv'
  <2>1. LockHeldInside'
    BY <1>3, <1>t, LockKept DEF aesd_open, Return, LockedPC, AddPC, EvictPC
  <2>2. UnloadedClosed'
    BY <1>3, <1>t DEF aesd_open, UnloadedClosed
  <2> QED
    BY <2>1, <2>2 DEF LockInv
<1>4. ASSUME NEW c \in Clients, aesd_release(c)
      PROVE  LockInv'
  <2>1. LockHeldInside'
    BY <1>4, <1>t, LockKept DEF aesd_release, Enter, LockedPC, AddPC, EvictPC
  <2>2. UnloadedClosed'
    BY <1>4, <1>t DEF aesd_release, UnloadedClosed
  <2> QED
    BY <2>1, <2>2 DEF LockInv
<1>5. ASSUME NEW c \in Clients, NEW count \in ReadCounts, aesd_read(c, count)
      PROVE  LockInv'
  <2>1. LockHeldInside'
    BY <1>5, <1>t, LockKept DEF aesd_read, Enter, Return, LockedPC, AddPC, EvictPC
  <2>2. UnloadedClosed'
    BY <1>5, <1>t DEF aesd_read, UnloadedClosed
  <2> QED
    BY <2>1, <2>2 DEF LockInv
<1>6. ASSUME NEW c \in Clients, ReadFind(c)
      PROVE  LockInv'
  <2>1. Goto(c, "read_find") \/ Goto(c, "read_length") \/ Goto(c, "idle")
    BY <1>6, <1>t DEF ReadFind, Return, Goto, TypeOK, FileTypes
  <2>2. LockHeldInside'
    BY <1>6, <1>t, <2>1, LockKept DEF ReadFind, LockedPC, AddPC, EvictPC
  <2>3. UnloadedClosed'
    BY <1>6, <1>t DEF ReadFind, UnloadedClosed
  <2> QED
    BY <2>2, <2>3 DEF LockInv
<1>7. ASSUME NEW c \in Clients, ReadLength(c)
      PROVE  LockInv'
  <2>1. LockHeldInside'
    BY <1>7, <1>t, LockKept DEF ReadLength, LockedPC, AddPC, EvictPC
  <2>2. UnloadedClosed'
    BY <1>7, <1>t DEF ReadLength, UnloadedClosed
  <2> QED
    BY <2>1, <2>2 DEF LockInv
<1>8. ASSUME NEW c \in Clients, ReadCopy(c)
      PROVE  LockInv'
  <2>1. LockHeldInside'
    BY <1>8, <1>t, LockKept DEF ReadCopy, Return, LockedPC, AddPC, EvictPC
  <2>2. UnloadedClosed'
    BY <1>8, <1>t DEF ReadCopy, UnloadedClosed
  <2> QED
    BY <2>1, <2>2 DEF LockInv
<1>9. ASSUME NEW c \in Clients, NEW count \in WriteCounts, aesd_write(c, count)
      PROVE  LockInv'
  <2>1. LockHeldInside'
    BY <1>9, <1>t, LockKept DEF aesd_write, Enter, Return, LockedPC, AddPC, EvictPC
  <2>2. UnloadedClosed'
    BY <1>9, <1>t DEF aesd_write, UnloadedClosed
  <2> QED
    BY <2>1, <2>2 DEF LockInv
<1>10. ASSUME NEW c \in Clients, Interrupted(c)
      PROVE  LockInv'
  <2>1. LockHeldInside'
    BY <1>10, <1>t, LockKept DEF Interrupted, Return, LockedPC, AddPC, EvictPC
  <2>2. UnloadedClosed'
    BY <1>10, <1>t DEF Interrupted, UnloadedClosed
  <2> QED
    BY <2>1, <2>2 DEF LockInv
<1>11. ASSUME NEW c \in Clients, WriteAllocFails(c)
      PROVE  LockInv'
  <2>1. LockHeldInside'
    BY <1>11, <1>t, LockTaken DEF WriteAllocFails, Return, LockedPC, AddPC, EvictPC
  <2>2. UnloadedClosed'
    BY <1>11, <1>t DEF WriteAllocFails, UnloadedClosed
  <2> QED
    BY <2>1, <2>2 DEF LockInv
<1>12. ASSUME NEW c \in Clients, EvictFree(c)
      PROVE  LockInv'
  <2>1. LockHeldInside'
    BY <1>12, <1>t, LockKept DEF EvictFree, LockedPC, AddPC, EvictPC
  <2>2. UnloadedClosed'
    BY <1>12, <1>t DEF EvictFree, UnloadedClosed
  <2> QED
    BY <2>1, <2>2 DEF LockInv
<1>13. ASSUME NEW c \in Clients, EvictClear(c)
      PROVE  LockInv'
  <2>1. LockHeldInside'
    BY <1>13, <1>t, LockKept DEF EvictClear, LockedPC, AddPC, EvictPC
  <2>2. UnloadedClosed'
    BY <1>13, <1>t DEF EvictClear, UnloadedClosed
  <2> QED
    BY <2>1, <2>2 DEF LockInv
<1>14. ASSUME NEW c \in Clients, AddOut(c)
      PROVE  LockInv'
  <2>1. LockHeldInside'
    BY <1>14, <1>t, LockKept DEF AddOut, LockedPC, AddPC, EvictPC
  <2>2. UnloadedClosed'
    BY <1>14, <1>t DEF AddOut, UnloadedClosed
  <2> QED
    BY <2>1, <2>2 DEF LockInv
<1>15. ASSUME NEW c \in Clients, AddStore(c)
      PROVE  LockInv'
  <2>1. LockHeldInside'
    BY <1>15, <1>t, LockKept DEF AddStore, LockedPC, AddPC, EvictPC
  <2>2. UnloadedClosed'
    BY <1>15, <1>t DEF AddStore, UnloadedClosed
  <2> QED
    BY <2>1, <2>2 DEF LockInv
<1>16. ASSUME NEW c \in Clients, AddIn(c)
      PROVE  LockInv'
  <2>1. LockHeldInside'
    BY <1>16, <1>t, LockKept DEF AddIn, LockedPC, AddPC, EvictPC
  <2>2. UnloadedClosed'
    BY <1>16, <1>t DEF AddIn, UnloadedClosed
  <2> QED
    BY <2>1, <2>2 DEF LockInv
<1>17. ASSUME NEW c \in Clients, WriteUnlock(c)
      PROVE  LockInv'
  <2>1. LockHeldInside'
    BY <1>17, <1>t, LockReleased DEF WriteUnlock, LockedPC, AddPC, EvictPC
  <2>2. UnloadedClosed'
    BY <1>17, <1>t DEF WriteUnlock, UnloadedClosed
  <2> QED
    BY <2>1, <2>2 DEF LockInv
<1>18. ASSUME NEW c \in Clients, SizeLoad(c)
      PROVE  LockInv'
  <2>1. LockHeldInside'
    BY <1>18, <1>t, LockKept DEF SizeLoad, LockedPC, AddPC, EvictPC
  <2>2. UnloadedClosed'
    BY <1>18, <1>t DEF SizeLoad, UnloadedClosed
  <2> QED
    BY <2>1, <2>2 DEF LockInv
<1>19. ASSUME NEW c \in Clients, SizeStore(c)
      PROVE  LockInv'
  <2>1. LockHeldInside'
    BY <1>19, <1>t, LockKept DEF SizeStore, Return, LockedPC, AddPC, EvictPC
  <2>2. UnloadedClosed'
    BY <1>19, <1>t DEF SizeStore, UnloadedClosed
  <2> QED
    BY <2>1, <2>2 DEF LockInv
<1>20. ASSUME NEW c \in Clients, NEW off \in SeekOffsets, aesd_llseek(c, off)
      PROVE  LockInv'
  <2>1. LockHeldInside'
    BY <1>20, <1>t, LockKept DEF aesd_llseek, Return, LockedPC, AddPC, EvictPC
  <2>2. UnloadedClosed'
    BY <1>20, <1>t DEF aesd_llseek, UnloadedClosed
  <2> QED
    BY <2>1, <2>2 DEF LockInv
<1>21. ASSUME NEW c \in Clients, NEW seek_cmd \in SeekCmds, aesd_ioctl(c, seek_cmd)
      PROVE  LockInv'
  <2>1. LockHeldInside'
    BY <1>21, <1>t, LockKept DEF aesd_ioctl, Enter, Return, LockedPC, AddPC, EvictPC
  <2>2. UnloadedClosed'
    BY <1>21, <1>t DEF aesd_ioctl, UnloadedClosed
  <2> QED
    BY <2>1, <2>2 DEF LockInv
<1>22. ASSUME NEW c \in Clients, IoctlLock(c)
      PROVE  LockInv'
  <2>1. LockHeldInside'
    BY <1>22, <1>t, LockTaken DEF IoctlLock, LockedPC, AddPC, EvictPC
  <2>2. UnloadedClosed'
    BY <1>22, <1>t DEF IoctlLock, UnloadedClosed
  <2> QED
    BY <2>1, <2>2 DEF LockInv
<1>23. ASSUME NEW c \in Clients, IoctlLoop(c)
      PROVE  LockInv'
  <2>1. Goto(c, "ioctl_loop") \/ Goto(c, "ioctl_entry")
    BY <1>23, <1>t DEF IoctlLoop, Goto, TypeOK, FileTypes
  <2>2. LockHeldInside'
    BY <1>23, <1>t, <2>1, LockKept DEF IoctlLoop, LockedPC, AddPC, EvictPC
  <2>3. UnloadedClosed'
    BY <1>23, <1>t DEF IoctlLoop, UnloadedClosed
  <2> QED
    BY <2>2, <2>3 DEF LockInv
<1>24. ASSUME NEW c \in Clients, IoctlEntry(c)
      PROVE  LockInv'
  <2>1. LockHeldInside'
    BY <1>24, <1>t, LockReleased DEF IoctlEntry, Return, LockedPC, AddPC, EvictPC
  <2>2. UnloadedClosed'
    BY <1>24, <1>t DEF IoctlEntry, UnloadedClosed
  <2> QED
    BY <2>1, <2>2 DEF LockInv
<1>25. ASSUME NEW c \in Clients, WriteCopy(c)
      PROVE  LockInv'
  <2>1. \E label \in LockedPC : Goto(c, label)
    BY <1>25 DEF WriteCopy, AfterCopy, LockedPC, AddPC, EvictPC
  <2>2. LockHeldInside'
    BY <1>25, <1>t, <2>1, LockTaken DEF WriteCopy
  <2>3. UnloadedClosed'
    BY <1>25, <1>t DEF WriteCopy, UnloadedClosed
  <2> QED
    BY <2>2, <2>3 DEF LockInv
<1>26. CASE UNCHANGED vars
  BY <1>t, <1>26 DEF vars, files, LockInv, LockHeldInside, UnloadedClosed
<1> QED
  BY <1>1, <1>2, <1>3, <1>4, <1>5, <1>6, <1>7, <1>8, <1>9, <1>10, <1>11, <1>12, <1>13, <1>14, <1>15, <1>16, <1>17, <1>18, <1>19, <1>20, <1>21, <1>22, <1>23, <1>24, <1>25, <1>26
  DEF Next, Call, Step, Acquire

LEMMA LockInit == Init => LockInv
BY DEF Init, LockInv, LockHeldInside, UnloadedClosed, LockedPC, AddPC, EvictPC

\* Type correctness of the driver: no interleaving of its calls takes an
\* offset out of the array or a position below zero.
THEOREM DriverTypes == Spec => []TypeOK
<1>1. TypeInv => TypeOK
  BY DEF TypeInv
<1> QED
  BY <1>1, TypeInit, TypeStep, PTL DEF Spec

\* Mutual exclusion: at most one call is in the part of aesd_write or
\* aesd_ioctl under mx_lock, it is the one that holds it, and a lock that
\* nobody is inside of has been left behind by -ENOMEM.
THEOREM DriverLock == Spec => []LockHeldInside
<1>1. LockInv => LockHeldInside
  BY DEF LockInv
<1>2. Init => TypeInv /\ LockInv
  BY TypeInit, LockInit
<1>3. (TypeInv /\ LockInv) /\ [Next]_vars => (TypeInv /\ LockInv)'
  BY TypeStep, LockStep
<1> QED
  BY <1>1, <1>2, <1>3, PTL DEF Spec

-----------------------------------------------------------------------------
(* Memory.                                                                 *)

\* A step of one client outside the replacement of an entry leaves the phase.
LEMMA PhaseKept ==
  ASSUME TypeOK, NEW c \in Clients, NEW label, Goto(c, label),
         pc[c] \notin EvictPC \cup AddPC, label \notin EvictPC \cup AddPC,
         mx_lock' = mx_lock
  PROVE  Phase' = Phase
BY DEF Phase, TypeOK, DeviceTypes, FileTypes, Goto

\* The phase is the label of the client inside the lock.
LEMMA PhaseInside ==
  ASSUME LockHeldInside, NEW c \in Clients, pc[c] \in LockedPC
  PROVE  mx_lock = c /\ Phase = IF pc[c] \in EvictPC \cup AddPC THEN pc[c] ELSE "none"
BY DEF Phase, LockHeldInside

LEMMA PhaseFree ==
  ASSUME mx_lock = NULL
  PROVE  Phase = "none"
BY ClientAssumption DEF Phase

\* The phase after a step of the client inside the lock.
LEMMA PhaseNext ==
  ASSUME TypeOK, NEW c \in Clients, NEW label, Goto(c, label), mx_lock' = c
  PROVE  Phase' = IF label \in EvictPC \cup AddPC THEN label ELSE "none"
BY DEF Phase, TypeOK, FileTypes, Goto

\* A step that leaves the device and the phase alone.
LEMMA DataKept ==
  ASSUME DataInv, UNCHANGED <<loaded, device>>, Phase' = Phase
  PROVE  DataInv'
<1>1. UNCHANGED <<loaded, cb, tmp_buf, tmp_size, tmp_nl, heap>>
  BY DEF device
<1>2. \A i \in Slots : (InUse(i)' <=> InUse(i)) /\ (Live(i)' <=> Live(i))
  BY <1>1 DEF InUse, Live
<1>3. OffsetsInv => OffsetsInv'
  BY <1>1 DEF OffsetsInv
<1>4. EntriesInv => EntriesInv'
  BY <1>1, <1>2 DEF EntriesInv
<1>5. PendingInv => PendingInv'
  BY <1>1, <1>2 DEF PendingInv, new_entry
<1> QED
  BY <1>1, <1>3, <1>4, <1>5 DEF DataInv

\* The facts about the slots that the steps below use.
LEMMA SlotFacts ==
  ASSUME TypeOK
  PROVE  /\ cb.in_offs \in Slots
         /\ cb.out_offs \in Slots
         /\ Advance(cb.in_offs) \in Slots
         /\ Advance(cb.in_offs) = IF cb.in_offs + 1 = N THEN 0 ELSE cb.in_offs + 1
         /\ \A i \in Slots : cb.entry[i].size \in Nat /\ cb.entry[i].buffptr \in Pointers
BY AdvanceInSlots DEF TypeOK, DeviceTypes, Buffers

\* aesd_write up to the end of the copy: the block it gathers in is neither
\* the block of an entry nor one that is in use elsewhere.
LEMMA DataWriteCopy ==
  ASSUME TypeInv, LockInv, DataInv, LostInv, NEW c \in Clients, WriteCopy(c)
  PROVE  DataInv'
<1>t. TypeOK /\ LockHeldInside /\ UnloadedClosed
  BY DEF TypeInv, LockInv
<1>1. /\ loaded /\ loaded' /\ cb' = cb /\ mx_lock = NULL /\ mx_lock' = c
      /\ OffsetsInv /\ EntriesInv /\ PendingInv
  BY <1>t DEF WriteCopy, UnloadedClosed, DataInv
<1>2. Phase = "none" /\ ~tmp_nl
  BY <1>1, PhaseFree DEF PendingInv
<1>3. tmp_size \in Nat /\ frame[c] \in WriteFrame /\ frame[c].count \in Nat
      /\ heap \in [Ptr -> Nat]
  <2>1. frame[c] \in WriteFrame
    BY <1>t, FrameKinds DEF WriteCopy, TypeOK, FileTypes, WritePC
  <2> QED
    BY <1>t, <2>1 DEF TypeOK, DeviceTypes, WriteFrame
<1>4. PICK n \in 0..frame[c].count, nl \in BOOLEAN :
        /\ nl => n > 0
        /\ tmp_size' = tmp_size + n
        /\ tmp_nl' = (tmp_nl \/ nl)
        /\ Goto(c, IF tmp_nl' THEN AfterCopy ELSE "write_unlock")
  BY DEF WriteCopy
<1>5. Phase' = IF nl THEN AfterCopy ELSE "none"
  BY <1>t, <1>1, <1>2, <1>4, PhaseNext DEF AfterCopy, AddPC, EvictPC
<1>6. /\ \A i \in Slots : cb.entry[i].size > 0 <=> cb.full \/ i < cb.in_offs
      /\ \A i \in Slots : cb.entry[i].size > 0 =>
           /\ cb.entry[i].buffptr \in Ptr
           /\ heap[cb.entry[i].buffptr] >= cb.entry[i].size
           /\ tmp_size > 0 => cb.entry[i].buffptr # tmp_buf
      /\ \A i, j \in Slots :
           cb.entry[i].size > 0 /\ cb.entry[j].size > 0
             /\ cb.entry[i].buffptr = cb.entry[j].buffptr => i = j
      /\ tmp_size > 0 => tmp_buf \in Ptr
  <2>1. tmp_size > 0 => tmp_buf # NULL
    BY <1>1 DEF LostInv
  <2> QED
    BY <1>1, <1>2, <2>1 DEF EntriesInv, PendingInv, InUse, Live
<1>7. /\ \A p \in Ptr : heap[p] > 0 /\ p # tmp_buf => heap'[p] = heap[p]
      /\ tmp_size = 0 => \A p \in Ptr : heap[p] > 0 => heap'[p] = heap[p]
      /\ tmp_size' > 0 => tmp_buf' \in Ptr /\ heap'[tmp_buf'] >= tmp_size'
      /\ tmp_size' > 0 => heap[tmp_buf'] = 0 \/ (tmp_size > 0 /\ tmp_buf' = tmp_buf)
  <2>1. CASE tmp_size > 0
    <3>1. tmp_buf' \in {tmp_buf} \cup {p \in Ptr : heap[p] = 0}
          /\ heap' = [heap EXCEPT ![tmp_buf] = 0, ![tmp_buf'] = tmp_size + frame[c].count]
      BY <1>3, <2>1 DEF WriteCopy
    <3> QED
      BY <1>3, <1>4, <1>6, <2>1, <3>1
  <2>2. CASE tmp_size = 0 /\ frame[c].count > 0
    <3>1. tmp_buf' \in {p \in Ptr : heap[p] = 0}
          /\ heap' = [heap EXCEPT ![tmp_buf'] = frame[c].count]
      BY <1>3, <2>2 DEF WriteCopy
    <3> QED
      BY <1>3, <1>4, <2>2, <3>1
  <2>3. CASE tmp_size = 0 /\ frame[c].count = 0
    <3>1. heap' = heap /\ tmp_size' = 0
      BY <1>3, <1>4, <2>3 DEF WriteCopy
    <3> QED
      BY <2>3, <3>1
  <2> QED
    BY <1>3, <2>1, <2>2, <2>3
<1>8. \A i \in Slots : cb.entry[i].size > 0 =>
        /\ heap'[cb.entry[i].buffptr] >= cb.entry[i].size
        /\ tmp_size' > 0 => cb.entry[i].buffptr # tmp_buf'
  BY <1>t, <1>3, <1>6, <1>7, SlotFacts
<1>9. Phase' \in {"none", "evict_free", "add_out"}
      /\ (Phase' = "evict_free" => cb.full) /\ (Phase' = "add_out" => ~cb.full)
  BY <1>5 DEF AfterCopy
<1>o. OffsetsInv'
  BY <1>1, <1>2, <1>9 DEF OffsetsInv
<1>e. EntriesInv'
  <2>1. \A i \in Slots : InUse(i)' <=> cb.full \/ i < cb.in_offs
    BY <1>t, <1>1, <1>9, SlotFacts DEF InUse, Slots
  <2>2. \A i \in Slots : Live(i)' <=> cb.entry[i].size > 0
    BY <1>1, <1>9 DEF Live
  <2> QED
    BY <1>1, <1>6, <1>8, <2>1, <2>2 DEF EntriesInv
<1>p. PendingInv'
  <2>1. \A i \in Slots : Live(i)' <=> cb.entry[i].size > 0
    BY <1>1, <1>9 DEF Live
  <2>2. tmp_nl' <=> Phase' # "none"
    BY <1>2, <1>4, <1>5 DEF AfterCopy
  <2>3. Phase' # "none" => tmp_size' > 0
    BY <1>3, <1>4, <1>5
  <2>4. tmp_size' > 0 => tmp_buf' # NULL
    BY <1>7, ClientAssumption
  <2>5. Phase' \in EvictPC => cb'.full
    BY <1>1, <1>9 DEF EvictPC
  <2> QED
    BY <1>1, <1>7, <1>8, <1>9, <2>1, <2>2, <2>3, <2>4, <2>5 DEF PendingInv
<1> QED
  BY <1>o, <1>e, <1>p DEF DataInv

\* The steps that replace an entry.
\* kfree of the oldest entry takes no block from another entry or from tmp_buf.
LEMMA DataEvictFree ==
  ASSUME TypeInv, LockInv, DataInv, NEW c \in Clients, EvictFree(c)
  PROVE  DataInv'
<1>t. TypeOK /\ LockHeldInside /\ UnloadedClosed
  BY DEF TypeInv, LockInv
<1>1. mx_lock = c /\ mx_lock' = c /\ Phase = "evict_free" /\ Phase' = "evict_clear"
  BY <1>t, PhaseInside, PhaseNext DEF EvictFree, LockedPC, AddPC, EvictPC
<1>2. loaded /\ loaded' /\ OffsetsInv /\ EntriesInv /\ PendingInv
  BY <1>t DEF EvictFree, UnloadedClosed, DataInv
<1>s. /\ cb.in_offs \in Slots /\ cb.out_offs \in Slots /\ Advance(cb.in_offs) \in Slots
      /\ Advance(cb.in_offs) = IF cb.in_offs + 1 = N THEN 0 ELSE cb.in_offs + 1
      /\ \A i \in Slots : cb.entry[i].size \in Nat
      /\ tmp_size \in Nat /\ heap \in [Ptr -> Nat]
  BY <1>t, SlotFacts DEF TypeOK, DeviceTypes
<1>3. /\ UNCHANGED <<cb, tmp_buf, tmp_size, tmp_nl>>
      /\ cb.entry[cb.in_offs].buffptr \in Ptr
      /\ heap' = [heap EXCEPT ![cb.entry[cb.in_offs].buffptr] = 0]
  <2>1. cb.full /\ cb.entry[cb.in_offs].size > 0
    BY <1>1, <1>2, <1>s DEF PendingInv, EntriesInv, InUse, EvictPC
  <2>2. cb.entry[cb.in_offs].buffptr \in Ptr
    BY <1>1, <1>2, <1>s, <2>1 DEF EntriesInv, Live
  <2> QED
    BY <2>2 DEF EvictFree
<1>4. \A i \in Slots : /\ Live(i) <=> cb.entry[i].size > 0
                       /\ Live(i)' <=> cb.entry[i].size > 0 /\ i # cb.in_offs
                       /\ InUse(i)' <=> InUse(i)
  BY <1>1, <1>3 DEF Live, InUse
<1>5. Live(cb.in_offs)
  BY <1>1, <1>2, <1>s, <1>4 DEF EntriesInv, InUse, PendingInv, EvictPC
<1>6. \A i \in Slots : Live(i)' => heap'[cb.entry[i].buffptr] = heap[cb.entry[i].buffptr]
  BY <1>2, <1>3, <1>4, <1>5, <1>s DEF EntriesInv
<1>o. OffsetsInv'
  BY <1>1, <1>2, <1>3 DEF OffsetsInv
<1>e. EntriesInv'
  BY <1>2, <1>3, <1>4, <1>6 DEF EntriesInv
<1>p. PendingInv'
  <2>1. tmp_buf \in Ptr /\ tmp_buf # cb.entry[cb.in_offs].buffptr /\ tmp_size > 0
    BY <1>1, <1>2, <1>5, <1>s DEF PendingInv
  <2>2. heap'[tmp_buf] = heap[tmp_buf]
    BY <1>3, <1>s, <2>1
  <2> QED
    BY <1>1, <1>2, <1>3, <1>4, <2>1, <2>2 DEF PendingInv, EvictPC
<1> QED
  BY <1>2, <1>o, <1>e, <1>p DEF DataInv

\* The freed entry is marked empty.
LEMMA DataEvictClear ==
  ASSUME TypeInv, LockInv, DataInv, NEW c \in Clients, EvictClear(c)
  PROVE  DataInv'
<1>t. TypeOK /\ LockHeldInside /\ UnloadedClosed
  BY DEF TypeInv, LockInv
<1>1. mx_lock = c /\ mx_lock' = c /\ Phase = "evict_clear" /\ Phase' = "add_out"
  BY <1>t, PhaseInside, PhaseNext DEF EvictClear, LockedPC, AddPC, EvictPC
<1>2. loaded /\ loaded' /\ OffsetsInv /\ EntriesInv /\ PendingInv
  BY <1>t DEF EvictClear, UnloadedClosed, DataInv
<1>s. /\ cb.in_offs \in Slots /\ cb.out_offs \in Slots /\ Advance(cb.in_offs) \in Slots
      /\ Advance(cb.in_offs) = IF cb.in_offs + 1 = N THEN 0 ELSE cb.in_offs + 1
      /\ \A i \in Slots : cb.entry[i].size \in Nat
      /\ tmp_size \in Nat /\ heap \in [Ptr -> Nat]
  BY <1>t, SlotFacts DEF TypeOK, DeviceTypes
<1>3. /\ UNCHANGED <<tmp_buf, tmp_size, tmp_nl, heap>>
      /\ cb'.in_offs = cb.in_offs /\ cb'.out_offs = cb.out_offs /\ cb'.full = cb.full
      /\ cb'.entry[cb.in_offs].size = 0
      /\ \A i \in Slots : i # cb.in_offs => cb'.entry[i] = cb.entry[i]
  BY <1>t DEF EvictClear, TypeOK, DeviceTypes, Buffers
<1>4. cb.full
  BY <1>1, <1>2 DEF PendingInv, EvictPC
<1>5. \A i \in Slots : Live(i)' <=> Live(i) /\ i # cb.in_offs
  BY <1>1, <1>3 DEF Live
<1>6. \A i \in Slots : InUse(i)' <=> i # cb.in_offs
  BY <1>1, <1>3, <1>4 DEF InUse
<1>7. \A i \in Slots : cb.entry[i].size > 0
  BY <1>1, <1>2, <1>4 DEF EntriesInv, InUse
<1>o. OffsetsInv'
  BY <1>1, <1>2, <1>3 DEF OffsetsInv
<1>e. EntriesInv'
  BY <1>2, <1>3, <1>5, <1>6, <1>7 DEF EntriesInv
<1>p. PendingInv'
  BY <1>1, <1>2, <1>3, <1>5 DEF PendingInv, EvictPC
<1> QED
  BY <1>2, <1>o, <1>e, <1>p DEF DataInv

\* out_offs moves on when the buffer is full.
LEMMA DataAddOut ==
  ASSUME TypeInv, LockInv, DataInv, NEW c \in Clients, AddOut(c)
  PROVE  DataInv'
<1>t. TypeOK /\ LockHeldInside /\ UnloadedClosed
  BY DEF TypeInv, LockInv
<1>1. mx_lock = c /\ mx_lock' = c /\ Phase = "add_out" /\ Phase' = "add_store"
  BY <1>t, PhaseInside, PhaseNext DEF AddOut, LockedPC, AddPC, EvictPC
<1>2. loaded /\ loaded' /\ OffsetsInv /\ EntriesInv /\ PendingInv
  BY <1>t DEF AddOut, UnloadedClosed, DataInv
<1>s. /\ cb.in_offs \in Slots /\ cb.out_offs \in Slots /\ Advance(cb.in_offs) \in Slots
      /\ Advance(cb.in_offs) = IF cb.in_offs + 1 = N THEN 0 ELSE cb.in_offs + 1
      /\ \A i \in Slots : cb.entry[i].size \in Nat
      /\ tmp_size \in Nat /\ heap \in [Ptr -> Nat]
  BY <1>t, SlotFacts DEF TypeOK, DeviceTypes
<1>3. /\ UNCHANGED <<tmp_buf, tmp_size, tmp_nl, heap>>
      /\ cb'.entry = cb.entry /\ cb'.in_offs = cb.in_offs /\ cb'.full = cb.full
      /\ cb'.out_offs = IF cb.full THEN Advance(cb.out_offs) ELSE cb.out_offs
  BY <1>t, AdvanceOutFields DEF AddOut, TypeOK, DeviceTypes
<1>4. \A i \in Slots : (Live(i)' <=> Live(i)) /\ (InUse(i)' <=> InUse(i))
  BY <1>1, <1>3 DEF Live, InUse
<1>o. OffsetsInv'
  BY <1>1, <1>2, <1>3 DEF OffsetsInv
<1>e. EntriesInv'
  BY <1>2, <1>3, <1>4 DEF EntriesInv
<1>p. PendingInv'
  BY <1>1, <1>2, <1>3, <1>4 DEF PendingInv, EvictPC
<1> QED
  BY <1>2, <1>o, <1>e, <1>p DEF DataInv

\* The new entry takes over the block at tmp_buf.
LEMMA DataAddStore ==
  ASSUME TypeInv, LockInv, DataInv, NEW c \in Clients, AddStore(c)
  PROVE  DataInv'
<1>t. TypeOK /\ LockHeldInside /\ UnloadedClosed
  BY DEF TypeInv, LockInv
<1>1. mx_lock = c /\ mx_lock' = c /\ Phase = "add_store" /\ Phase' = "add_in"
  BY <1>t, PhaseInside, PhaseNext DEF AddStore, LockedPC, AddPC, EvictPC
<1>2. loaded /\ loaded' /\ OffsetsInv /\ EntriesInv /\ PendingInv
  BY <1>t DEF AddStore, UnloadedClosed, DataInv
<1>s. /\ cb.in_offs \in Slots /\ cb.out_offs \in Slots /\ Advance(cb.in_offs) \in Slots
      /\ Advance(cb.in_offs) = IF cb.in_offs + 1 = N THEN 0 ELSE cb.in_offs + 1
      /\ \A i \in Slots : cb.entry[i].size \in Nat
      /\ tmp_size \in Nat /\ heap \in [Ptr -> Nat]
  BY <1>t, SlotFacts DEF TypeOK, DeviceTypes
<1>3. /\ UNCHANGED <<tmp_buf, tmp_size, tmp_nl, heap>>
      /\ cb'.in_offs = cb.in_offs /\ cb'.out_offs = cb.out_offs /\ cb'.full = cb.full
      /\ cb'.entry[cb.in_offs] = new_entry
      /\ \A i \in Slots : i # cb.in_offs => cb'.entry[i] = cb.entry[i]
  <2>1. /\ UNCHANGED <<tmp_buf, tmp_size, tmp_nl, heap>>
        /\ cb'.in_offs = cb.in_offs /\ cb'.out_offs = cb.out_offs /\ cb'.full = cb.full
        /\ cb'.entry = [cb.entry EXCEPT ![cb.in_offs] = new_entry]
    <3> DEFINE E == [buffptr : Pointers, size : Nat]
    <3>1. cb \in Buffers(E) /\ new_entry \in E
      BY <1>t, BufferTypes DEF TypeOK, DeviceTypes
    <3>2. cb' = StoreEntry(cb, new_entry) /\ UNCHANGED <<tmp_buf, tmp_size, tmp_nl, heap>>
      BY DEF AddStore
    <3> QED
      <4> DEFINE b == StoreEntry(cb, new_entry)
      <4> HIDE DEF E
      <4>1. /\ b.in_offs = cb.in_offs /\ b.out_offs = cb.out_offs /\ b.full = cb.full
            /\ b.entry = [cb.entry EXCEPT ![cb.in_offs] = new_entry]
        BY <3>1, StoreEntryFields
      <4> QED
        BY <3>2, <4>1
  <2>2. cb.entry \in [Slots -> [buffptr : Pointers, size : Nat]]
    BY <1>t DEF TypeOK, DeviceTypes, Buffers
  <2> QED
    BY <1>s, <2>1, <2>2
<1>4. /\ new_entry.buffptr = tmp_buf /\ new_entry.size = tmp_size /\ new_entry' = new_entry
      /\ tmp_size > 0 /\ tmp_buf # NULL
  BY <1>1, <1>2, <1>3 DEF new_entry, PendingInv
<1>5. /\ ~Live(cb.in_offs) /\ Live(cb.in_offs)'
      /\ \A i \in Slots : i # cb.in_offs => (Live(i)' <=> Live(i))
  BY <1>1, <1>2, <1>3, <1>4, <1>s DEF Live, EntriesInv, InUse
<1>6. \A i \in Slots : InUse(i)' <=> InUse(i) \/ i = cb.in_offs
  BY <1>1, <1>3, <1>s DEF InUse, Slots
<1>7. /\ tmp_buf \in Ptr /\ heap[tmp_buf] >= tmp_size
      /\ \A i \in Slots : Live(i) => cb.entry[i].buffptr # tmp_buf
  BY <1>1, <1>2, <1>4 DEF PendingInv
<1>o. OffsetsInv'
  BY <1>1, <1>2, <1>3 DEF OffsetsInv
<1>e. EntriesInv'
  <2>1. (\A i \in Slots : cb.entry[i].size > 0 <=> InUse(i))'
    BY <1>2, <1>3, <1>4, <1>6 DEF EntriesInv
  <2>2. (\A i \in Slots :
           Live(i) => /\ cb.entry[i].buffptr \in Ptr
                      /\ heap[cb.entry[i].buffptr] >= cb.entry[i].size)'
    BY <1>2, <1>3, <1>4, <1>5, <1>7 DEF EntriesInv
  <2>3. (\A i, j \in Slots :
           Live(i) /\ Live(j) /\ cb.entry[i].buffptr = cb.entry[j].buffptr => i = j)'
    BY <1>2, <1>3, <1>4, <1>5, <1>7 DEF EntriesInv
  <2> QED
    BY <2>1, <2>2, <2>3 DEF EntriesInv
<1>p. PendingInv'
  BY <1>1, <1>2, <1>3, <1>4, <1>5, <1>7 DEF PendingInv, EvictPC
<1> QED
  BY <1>2, <1>o, <1>e, <1>p DEF DataInv

\* in_offs moves on and tmp_buf is forgotten: the entry alone has the block.
LEMMA DataAddIn ==
  ASSUME TypeInv, LockInv, DataInv, NEW c \in Clients, AddIn(c)
  PROVE  DataInv'
<1>t. TypeOK /\ LockHeldInside /\ UnloadedClosed
  BY DEF TypeInv, LockInv
<1>1. mx_lock = c /\ mx_lock' = c /\ Phase = "add_in" /\ Phase' = "none"
  BY <1>t, PhaseInside, PhaseNext DEF AddIn, LockedPC, AddPC, EvictPC
<1>2. loaded /\ loaded' /\ OffsetsInv /\ EntriesInv /\ PendingInv
  BY <1>t DEF AddIn, UnloadedClosed, DataInv
<1>s. /\ cb.in_offs \in Slots /\ cb.out_offs \in Slots /\ Advance(cb.in_offs) \in Slots
      /\ Advance(cb.in_offs) = IF cb.in_offs + 1 = N THEN 0 ELSE cb.in_offs + 1
      /\ \A i \in Slots : cb.entry[i].size \in Nat
      /\ tmp_size \in Nat /\ heap \in [Ptr -> Nat]
  BY <1>t, SlotFacts DEF TypeOK, DeviceTypes
<1>3. /\ heap' = heap /\ tmp_buf' = NULL /\ tmp_size' = 0 /\ ~tmp_nl'
      /\ cb'.entry = cb.entry /\ cb'.in_offs = Advance(cb.in_offs)
      /\ cb'.out_offs = cb.out_offs
      /\ cb'.full = (cb.full \/ Advance(cb.in_offs) = cb.out_offs)
  BY <1>t, AdvanceInFields DEF AddIn, TypeOK, DeviceTypes
<1>4. \A i \in Slots : Live(i)' <=> Live(i)
  BY <1>1, <1>3 DEF Live
<1>b. cb.full \in BOOLEAN
  BY <1>t DEF TypeOK, DeviceTypes, Buffers
<1>5. \A i \in Slots : InUse(i)' <=> InUse(i)
  <2>1. CASE cb.full
    BY <1>1, <1>3, <2>1 DEF InUse
  <2>2. CASE ~cb.full /\ cb.in_offs + 1 = N
    <3>a. Advance(cb.in_offs) = cb.out_offs
      BY <1>2, <1>s, <2>2 DEF OffsetsInv
    <3>b. cb'.full
      BY <1>3, <3>a
    <3>1. cb'.full /\ \A i \in Slots : i <= cb.in_offs
      BY <1>s, <2>2, <3>b, NAssumption DEF Slots
    <3> QED
      BY <1>1, <3>1 DEF InUse
  <2>3. CASE ~cb.full /\ cb.in_offs + 1 # N
    <3>a. cb.out_offs = 0
      BY <1>2, <2>3 DEF OffsetsInv
    <3>b. cb'.in_offs = cb.in_offs + 1
      BY <1>3, <1>s, <2>3
    <3>c. \A i \in Slots : i < cb.in_offs + 1 <=> i <= cb.in_offs
      BY <1>s DEF Slots
    <3>1. /\ cb'.in_offs = cb.in_offs + 1 /\ cb.out_offs = 0
          /\ \A i \in Slots : i < cb.in_offs + 1 <=> i <= cb.in_offs
      BY <3>a, <3>b, <3>c
    <3>d. Advance(cb.in_offs) # cb.out_offs
      BY <1>s, <2>3, <3>a DEF Slots
    <3>2. ~cb'.full
      BY <1>3, <2>3, <3>d
    <3> QED
      BY <1>1, <2>3, <3>1, <3>2 DEF InUse
  <2> QED
    BY <1>b, <2>1, <2>2, <2>3
<1>o. OffsetsInv'
  BY <1>1, <1>2, <1>3, <1>b, <1>s DEF OffsetsInv
<1>e. EntriesInv'
  BY <1>2, <1>3, <1>4, <1>5 DEF EntriesInv
<1>p. PendingInv'
  BY <1>1, <1>3 DEF PendingInv, EvictPC
<1> QED
  BY <1>2, <1>o, <1>e, <1>p DEF DataInv

\* A failed allocation leaves the buffer alone.
LEMMA DataWriteAllocFails ==
  ASSUME TypeInv, LockInv, DataInv, NEW c \in Clients, WriteAllocFails(c)
  PROVE  DataInv'
<1>t. TypeOK /\ LockHeldInside /\ UnloadedClosed
  BY DEF TypeInv, LockInv
<1>1. mx_lock = NULL /\ mx_lock' = c /\ Phase = "none" /\ Phase' = "none"
  BY <1>t, PhaseFree, PhaseNext DEF WriteAllocFails, Return, AddPC, EvictPC
<1>2. /\ UNCHANGED <<loaded, cb, tmp_size, tmp_nl, heap>> /\ tmp_buf' = NULL
      /\ loaded /\ OffsetsInv /\ EntriesInv /\ PendingInv
  BY <1>t DEF WriteAllocFails, UnloadedClosed, DataInv
<1>3. \A i \in Slots : (InUse(i)' <=> InUse(i)) /\ (Live(i)' <=> Live(i))
  BY <1>1, <1>2 DEF InUse, Live
<1>4. OffsetsInv' /\ EntriesInv'
  BY <1>1, <1>2, <1>3 DEF OffsetsInv, EntriesInv
<1>5. PendingInv'
  BY <1>1, <1>2 DEF PendingInv, EvictPC
<1> QED
  BY <1>4, <1>5 DEF DataInv

\* The empty buffer, at the start and after aesd_init_module.
LEMMA DataInit == Init => DataInv /\ LostInv
BY DEF Init, DataInv, LostInv

LEMMA DataLoad ==
  ASSUME aesd_init_module
  PROVE  DataInv'
<1>1. cb' = EmptyBuffer /\ mx_lock' = NULL /\ tmp_size' = 0 /\ ~tmp_nl'
  BY DEF aesd_init_module
<1>2. /\ cb'.in_offs = 0 /\ cb'.out_offs = 0 /\ cb'.full = FALSE
      /\ \A i \in Slots : cb'.entry[i].size = 0
  BY <1>1 DEF EmptyBuffer, EmptyEntry
<1>3. Phase' = "none"
  BY <1>1, ClientAssumption DEF Phase
<1>4. \A i \in Slots : ~InUse(i)' /\ ~Live(i)'
  BY <1>2, <1>3, NAssumption DEF InUse, Live, Slots
<1> QED
  BY <1>1, <1>2, <1>3, <1>4 DEF DataInv, OffsetsInv, EntriesInv, PendingInv, EvictPC

\* Every step keeps the memory in order.
LEMMA DataStep == TypeInv /\ LockInv /\ DataInv /\ LostInv /\ [Next]_vars => DataInv'
<1> SUFFICES ASSUME TypeInv, LockInv, DataInv, LostInv, [Next]_vars
             PROVE  DataInv'
  OBVIOUS
<1>t. TypeOK /\ LockHeldInside /\ UnloadedClosed
  BY DEF TypeInv, LockInv
<1>1. ASSUME aesd_init_module
      PROVE  DataInv'
  BY <1>1, DataLoad
<1>2. ASSUME aesd_cleanup_module
      PROVE  DataInv'
  BY <1>2 DEF aesd_cleanup_module, DataInv
<1>3. ASSUME NEW c \in Clients, aesd_open(c)
      PROVE  DataInv'
  <2>1. Phase' = Phase
    BY <1>3, <1>t, PhaseKept DEF aesd_open, Return, AddPC, EvictPC
  <2> QED
    BY <1>3, <2>1, DataKept DEF aesd_open
<1>4. ASSUME NEW c \in Clients, aesd_release(c)
      PROVE  DataInv'
  <2>1. Phase' = Phase
    BY <1>4, <1>t, PhaseKept DEF aesd_release, Enter, AddPC, EvictPC
  <2> QED
    BY <1>4, <2>1, DataKept DEF aesd_release
<1>5. ASSUME NEW c \in Clients, NEW count \in ReadCounts, aesd_read(c, count)
      PROVE  DataInv'
  <2>1. Phase' = Phase
    BY <1>5, <1>t, PhaseKept DEF aesd_read, Enter, Return, AddPC, EvictPC
  <2> QED
    BY <1>5, <2>1, DataKept DEF aesd_read
<1>6. ASSUME NEW c \in Clients, ReadFind(c)
      PROVE  DataInv'
  <2>1. Goto(c, "read_find") \/ Goto(c, "read_length") \/ Goto(c, "idle")
    BY <1>6, <1>t DEF ReadFind, Return, Goto, TypeOK, FileTypes
  <2>2. Phase' = Phase
    BY <1>6, <1>t, <2>1, PhaseKept DEF ReadFind, AddPC, EvictPC
  <2> QED
    BY <1>6, <2>2, DataKept DEF ReadFind
<1>7. ASSUME NEW c \in Clients, ReadLength(c)
      PROVE  DataInv'
  <2>1. Phase' = Phase
    BY <1>7, <1>t, PhaseKept DEF ReadLength, AddPC, EvictPC
  <2> QED
    BY <1>7, <2>1, DataKept DEF ReadLength
<1>8. ASSUME NEW c \in Clients, ReadCopy(c)
      PROVE  DataInv'
  <2>1. Phase' = Phase
    BY <1>8, <1>t, PhaseKept DEF ReadCopy, Return, AddPC, EvictPC
  <2> QED
    BY <1>8, <2>1, DataKept DEF ReadCopy
<1>9. ASSUME NEW c \in Clients, NEW count \in WriteCounts, aesd_write(c, count)
      PROVE  DataInv'
  <2>1. Phase' = Phase
    BY <1>9, <1>t, PhaseKept DEF aesd_write, Enter, Return, AddPC, EvictPC
  <2> QED
    BY <1>9, <2>1, DataKept DEF aesd_write
<1>10. ASSUME NEW c \in Clients, Interrupted(c)
      PROVE  DataInv'
  <2>1. Phase' = Phase
    BY <1>10, <1>t, PhaseKept DEF Interrupted, Return, AddPC, EvictPC
  <2> QED
    BY <1>10, <2>1, DataKept DEF Interrupted
<1>11. ASSUME NEW c \in Clients, WriteCopy(c)
      PROVE  DataInv'
  BY <1>11, DataWriteCopy
<1>12. ASSUME NEW c \in Clients, WriteAllocFails(c)
      PROVE  DataInv'
  BY <1>12, DataWriteAllocFails
<1>13. ASSUME NEW c \in Clients, EvictFree(c)
      PROVE  DataInv'
  BY <1>13, DataEvictFree
<1>14. ASSUME NEW c \in Clients, EvictClear(c)
      PROVE  DataInv'
  BY <1>14, DataEvictClear
<1>15. ASSUME NEW c \in Clients, AddOut(c)
      PROVE  DataInv'
  BY <1>15, DataAddOut
<1>16. ASSUME NEW c \in Clients, AddStore(c)
      PROVE  DataInv'
  BY <1>16, DataAddStore
<1>17. ASSUME NEW c \in Clients, AddIn(c)
      PROVE  DataInv'
  BY <1>17, DataAddIn
<1>18. ASSUME NEW c \in Clients, WriteUnlock(c)
      PROVE  DataInv'
  <2>1. Phase = "none"
    BY <1>18, <1>t, PhaseInside DEF WriteUnlock, LockedPC, AddPC, EvictPC
  <2>2. Phase' = "none"
    BY <1>18, ClientAssumption DEF WriteUnlock, Phase
  <2> QED
    BY <1>18, <2>1, <2>2, DataKept DEF WriteUnlock
<1>19. ASSUME NEW c \in Clients, SizeLoad(c)
      PROVE  DataInv'
  <2>1. Phase' = Phase
    BY <1>19, <1>t, PhaseKept DEF SizeLoad, AddPC, EvictPC
  <2> QED
    BY <1>19, <2>1, DataKept DEF SizeLoad
<1>20. ASSUME NEW c \in Clients, SizeStore(c)
      PROVE  DataInv'
  <2>1. Phase' = Phase
    BY <1>20, <1>t, PhaseKept DEF SizeStore, Return, AddPC, EvictPC
  <2> QED
    BY <1>20, <2>1, DataKept DEF SizeStore
<1>21. ASSUME NEW c \in Clients, NEW off \in SeekOffsets, aesd_llseek(c, off)
      PROVE  DataInv'
  <2>1. Phase' = Phase
    BY <1>21, <1>t, PhaseKept DEF aesd_llseek, Return, AddPC, EvictPC
  <2> QED
    BY <1>21, <2>1, DataKept DEF aesd_llseek
<1>22. ASSUME NEW c \in Clients, NEW seek_cmd \in SeekCmds, aesd_ioctl(c, seek_cmd)
      PROVE  DataInv'
  <2>1. Phase' = Phase
    BY <1>22, <1>t, PhaseKept DEF aesd_ioctl, Enter, Return, AddPC, EvictPC
  <2> QED
    BY <1>22, <2>1, DataKept DEF aesd_ioctl
<1>23. ASSUME NEW c \in Clients, IoctlLock(c)
      PROVE  DataInv'
  <2>1. Phase = "none" /\ Phase' = "none"
    BY <1>23, <1>t, PhaseFree, PhaseNext DEF IoctlLock, AddPC, EvictPC
  <2> QED
    BY <1>23, <2>1, DataKept DEF IoctlLock
<1>24. ASSUME NEW c \in Clients, IoctlLoop(c)
      PROVE  DataInv'
  <2>1. Goto(c, "ioctl_loop") \/ Goto(c, "ioctl_entry")
    BY <1>24, <1>t DEF IoctlLoop, Return, Goto, TypeOK, FileTypes
  <2>2. Phase' = Phase
    BY <1>24, <1>t, <2>1, PhaseKept DEF IoctlLoop, AddPC, EvictPC
  <2> QED
    BY <1>24, <2>2, DataKept DEF IoctlLoop
<1>25. ASSUME NEW c \in Clients, IoctlEntry(c)
      PROVE  DataInv'
  <2>1. Phase = "none"
    BY <1>25, <1>t, PhaseInside DEF IoctlEntry, LockedPC, AddPC, EvictPC
  <2>2. Phase' = "none"
    BY <1>25, ClientAssumption DEF IoctlEntry, Phase
  <2> QED
    BY <1>25, <2>1, <2>2, DataKept DEF IoctlEntry
<1>26. CASE UNCHANGED vars
  <2>1. Phase' = Phase
    BY <1>26 DEF vars, files, Phase
  <2> QED
    BY <1>26, <2>1, DataKept DEF vars
<1> QED
  BY <1>1, <1>2, <1>3, <1>4, <1>5, <1>6, <1>7, <1>8, <1>9, <1>10, <1>11, <1>12, <1>13, <1>14, <1>15, <1>16, <1>17, <1>18, <1>19, <1>20, <1>21, <1>22, <1>23, <1>24, <1>25, <1>26
  DEF Next, Call, Step, Acquire

\* After a krealloc that failed nothing under the lock runs until the module
\* is loaded again.
LEMMA LostStep == TypeInv /\ LockInv /\ LostInv /\ [Next]_vars => LostInv'
<1> SUFFICES ASSUME TypeInv, LockInv, LostInv, [Next]_vars,
                    loaded', tmp_size' > 0, tmp_buf' = NULL
             PROVE  mx_lock' # NULL /\ \A c \in Clients : pc'[c] \notin LockedPC
  BY DEF LostInv
<1>t. /\ TypeOK /\ LockHeldInside /\ UnloadedClosed
      /\ pc \in [Clients -> Labels] /\ tmp_size \in Nat
  BY DEF TypeInv, LockInv, TypeOK, FileTypes, DeviceTypes
<1>1. CASE aesd_init_module
  BY <1>1 DEF aesd_init_module
<1>2. CASE aesd_cleanup_module
  BY <1>2 DEF aesd_cleanup_module
<1>3. ASSUME NEW c \in Clients, WriteAllocFails(c)
      PROVE  mx_lock' # NULL /\ \A d \in Clients : pc'[d] \notin LockedPC
  BY <1>3, <1>t, ClientAssumption
  DEF WriteAllocFails, Return, Goto, LockHeldInside, LockedPC, AddPC, EvictPC
<1>4. ASSUME NEW c \in Clients, WriteCopy(c)
      PROVE  FALSE
  <2>1. tmp_size > 0 => tmp_buf # NULL
    BY <1>4, <1>t DEF WriteCopy, LostInv, UnloadedClosed
  <2>2. tmp_size = 0 /\ frame[c].count = 0 => tmp_size' = 0
    BY <1>4, <1>t DEF WriteCopy
  <2> QED
    BY <1>4, <1>t, <2>1, <2>2, ClientAssumption DEF WriteCopy
<1>5. ASSUME NEW c \in Clients, AddIn(c)
      PROVE  FALSE
  BY <1>5 DEF AddIn
<1>6. ASSUME UNCHANGED <<loaded, tmp_size, tmp_buf, mx_lock>>,
             NEW c \in Clients, NEW label \in Labels \ LockedPC, Goto(c, label)
      PROVE  mx_lock' # NULL /\ \A d \in Clients : pc'[d] \notin LockedPC
  BY <1>6, <1>t DEF LostInv, Goto
<1>7. ASSUME UNCHANGED <<loaded, tmp_size, tmp_buf>>
      PROVE  mx_lock # NULL /\ \A d \in Clients : pc[d] \notin LockedPC
  BY <1>7 DEF LostInv
<1>8. ASSUME NEW c \in Clients, EvictFree(c) \/ EvictClear(c) \/ AddOut(c) \/ AddStore(c)
                                \/ WriteUnlock(c) \/ IoctlLock(c) \/ IoctlLoop(c) \/ IoctlEntry(c)
      PROVE  FALSE
  <2>1. UNCHANGED <<loaded, tmp_size, tmp_buf>>
    BY <1>8
    DEF EvictFree, EvictClear, AddOut, AddStore, WriteUnlock, IoctlLock, IoctlLoop, IoctlEntry,
        device
  <2>2. mx_lock = NULL \/ pc[c] \in LockedPC
    BY <1>8
    DEF EvictFree, EvictClear, AddOut, AddStore, WriteUnlock, IoctlLock, IoctlLoop, IoctlEntry,
        LockedPC, AddPC, EvictPC
  <2> QED
    BY <1>7, <2>1, <2>2
<1>9. ASSUME NEW c \in Clients, NEW count \in ReadCounts, aesd_read(c, count)
      PROVE  mx_lock' # NULL /\ \A d \in Clients : pc'[d] \notin LockedPC
  BY <1>6, <1>9, FrameKinds DEF aesd_read, device, Enter, Return, LockedPC, ReadPC, AddPC, EvictPC
<1>10. ASSUME NEW c \in Clients, NEW count \in WriteCounts, aesd_write(c, count)
       PROVE  mx_lock' # NULL /\ \A d \in Clients : pc'[d] \notin LockedPC
  BY <1>6, <1>10, FrameKinds DEF aesd_write, device, Enter, Return, LockedPC, WritePC, AddPC, EvictPC
<1>11. ASSUME NEW c \in Clients, NEW seek_cmd \in SeekCmds, aesd_ioctl(c, seek_cmd)
       PROVE  mx_lock' # NULL /\ \A d \in Clients : pc'[d] \notin LockedPC
  BY <1>6, <1>11, FrameKinds DEF aesd_ioctl, device, Enter, Return, LockedPC, IoctlPC, AddPC, EvictPC
<1>12. ASSUME NEW c \in Clients,
              aesd_open(c) \/ aesd_release(c) \/ (\E off \in SeekOffsets : aesd_llseek(c, off))
       PROVE  mx_lock' # NULL /\ \A d \in Clients : pc'[d] \notin LockedPC
  BY <1>6, <1>12, FrameKinds
  DEF aesd_open, aesd_release, aesd_llseek, device, Enter, Return, LockedPC, AddPC, EvictPC
<1>13. ASSUME NEW c \in Clients, ReadFind(c)
       PROVE  mx_lock' # NULL /\ \A d \in Clients : pc'[d] \notin LockedPC
  <2>1. Goto(c, "read_find") \/ Goto(c, "read_length") \/ Goto(c, "idle")
    BY <1>13, <1>t DEF ReadFind, Return, Goto
  <2> QED
    BY <1>6, <1>13, <2>1, FrameKinds DEF ReadFind, device, LockedPC, ReadPC, AddPC, EvictPC
<1>14. ASSUME NEW c \in Clients,
              ReadLength(c) \/ ReadCopy(c) \/ SizeLoad(c) \/ SizeStore(c) \/ Interrupted(c)
       PROVE  mx_lock' # NULL /\ \A d \in Clients : pc'[d] \notin LockedPC
  BY <1>6, <1>14, FrameKinds
  DEF ReadLength, ReadCopy, SizeLoad, SizeStore, Interrupted, device, Return, LockedPC,
      ReadPC, WritePC, AddPC, EvictPC
<1>15. CASE UNCHANGED vars
  BY <1>7, <1>15 DEF vars, device, files
<1> QED
  BY <1>1, <1>2, <1>3, <1>4, <1>5, <1>8, <1>9, <1>10, <1>11, <1>12, <1>13, <1>14, <1>15
  DEF Next, Call, Step, Acquire

\* The inductive invariant as a whole.
LEMMA DriverInductive == Spec => []IInv
<1>1. Init => IInv
  BY TypeInit, LockInit, DataInit DEF IInv
<1>2. IInv /\ [Next]_vars => IInv'
  BY TypeStep, LockStep, DataStep, LostStep DEF IInv
<1> QED
  BY <1>1, <1>2, PTL DEF Spec

\* At most one client is replacing an entry, and the phase is its label.
LEMMA PhaseOfAdder ==
  ASSUME IInv
  PROVE  /\ Adding <=> Phase # "none"
         /\ \A labels \in SUBSET (EvictPC \cup AddPC) : At(labels) <=> Phase \in labels
         /\ Phase \in EvictPC \cup AddPC \cup {"none"}
<1>1. \A c \in Clients : pc[c] \in EvictPC \cup AddPC => mx_lock = c
  BY DEF IInv, LockInv, LockHeldInside, LockedPC
<1>2. "none" \notin EvictPC \cup AddPC
  BY DEF EvictPC, AddPC
<1>3. Adding <=> Phase # "none"
  BY <1>1, <1>2 DEF Adding, Phase
<1>4. \A labels \in SUBSET (EvictPC \cup AddPC) : At(labels) <=> Phase \in labels
  BY <1>1, <1>2 DEF At, Phase
<1>5. Phase \in EvictPC \cup AddPC \cup {"none"}
  BY DEF Phase
<1> QED
  BY <1>3, <1>4, <1>5

\* The entries of the settled buffer: the new entry is in place.
LEMMA SettledEntries ==
  ASSUME IInv, loaded
  PROVE  \A i \in Slots :
           Settled.entry[i] = IF Adding /\ i = cb.in_offs THEN new_entry ELSE cb.entry[i]
<1> DEFINE E == [buffptr : Pointers, size : Nat]
<1>1. cb \in Buffers(E) /\ new_entry \in E
  BY BufferTypes DEF IInv, TypeInv, TypeOK, DeviceTypes
<1>2. /\ At(EvictPC \cup {"add_out"}) <=> Phase \in EvictPC \cup {"add_out"}
      /\ At({"add_store"}) <=> Phase = "add_store"
      /\ At({"add_in"}) <=> Phase = "add_in"
      /\ Adding <=> Phase # "none"
      /\ Phase \in EvictPC \cup AddPC \cup {"none"}
  BY PhaseOfAdder DEF EvictPC, AddPC
<1> HIDE DEF E
<1>3. cb.entry \in [Slots -> E] /\ cb.in_offs \in Slots
  BY <1>1 DEF Buffers
<1>4. CASE Phase \in EvictPC \cup {"add_out"}
  <2>1. Settled = add_entry(cb, new_entry)
    BY <1>2, <1>4 DEF Settled
  <2>2. Settled.entry = [cb.entry EXCEPT ![cb.in_offs] = new_entry]
    BY <1>1, <2>1, AddEntryFields
  <2> QED
    BY <1>2, <1>3, <1>4, <2>2 DEF EvictPC
<1>5. CASE Phase = "add_store"
  <2>1. Settled = AdvanceIn(StoreEntry(cb, new_entry))
    BY <1>2, <1>5 DEF Settled, EvictPC
  <2>2. StoreEntry(cb, new_entry) \in Buffers(E)
        /\ StoreEntry(cb, new_entry).entry = [cb.entry EXCEPT ![cb.in_offs] = new_entry]
    BY <1>1, StoreEntryFields
  <2>3. Settled.entry = [cb.entry EXCEPT ![cb.in_offs] = new_entry]
    BY <2>1, <2>2, AdvanceInFields
  <2> QED
    BY <1>2, <1>3, <1>5, <2>3
<1>6. CASE Phase = "add_in"
  <2>1. Settled = AdvanceIn(cb)
    BY <1>2, <1>6 DEF Settled, EvictPC
  <2>2. Settled.entry = cb.entry
    BY <1>1, <2>1, AdvanceInFields
  <2>3. cb.entry[cb.in_offs] = new_entry
    BY <1>6 DEF IInv, DataInv, PendingInv
  <2> QED
    BY <1>3, <2>2, <2>3
<1>7. CASE Phase = "none"
  BY <1>2, <1>7 DEF Settled, EvictPC
<1> QED
  BY <1>2, <1>4, <1>5, <1>6, <1>7 DEF AddPC

\* Outside a write the slots in use are a prefix of the array until the
\* buffer is full, and the whole array afterwards: what aesd_ioctl relies on.
THEOREM DriverOccupancy == Spec => []Occupancy
<1>1. IInv => Occupancy
  <2> SUFFICES ASSUME IInv, loaded, ~Adding
               PROVE  /\ \A i \in Slots : Occupied(i) <=> (cb.full \/ i < cb.in_offs)
                      /\ cb.full => cb.in_offs = cb.out_offs
                      /\ ~cb.full => cb.out_offs = 0
                      /\ ~tmp_nl
    BY DEF Occupancy
  <2>1. Phase = "none" /\ OffsetsInv /\ EntriesInv /\ PendingInv
    BY PhaseOfAdder DEF IInv, DataInv
  <2>2. \A i \in Slots : Occupied(i) <=> (cb.full \/ i < cb.in_offs)
    <3>1. \A i \in Slots : cb.entry[i].size > 0 <=> (cb.full \/ i < cb.in_offs)
      BY <2>1 DEF EntriesInv, InUse
    <3>2. \A i \in Slots : cb.entry[i].size > 0 => cb.entry[i].buffptr # NULL
      BY <2>1, ClientAssumption DEF EntriesInv, Live
    <3> QED
      BY <3>1, <3>2 DEF Occupied
  <2> QED
    BY <2>1, <2>2 DEF OffsetsInv, PendingInv
<1> QED
  BY <1>1, DriverInductive, PTL

\* Memory safety of the writers: however calls interleave, whatever
\* allocations fail and copies fall short, every command kept and the bytes
\* gathered have an allocated block of their own that is long enough.
THEOREM DriverOwnership == Spec => []Ownership
<1>1. IInv => Ownership
  <2> SUFFICES ASSUME IInv, loaded
               PROVE  /\ \A i \in Slots :
                           Settled.entry[i].size > 0 =>
                             /\ Settled.entry[i].buffptr \in Ptr
                             /\ heap[Settled.entry[i].buffptr] >= Settled.entry[i].size
                      /\ \A i, j \in Slots :
                           /\ Settled.entry[i].size > 0
                           /\ Settled.entry[j].size > 0
                           /\ Settled.entry[i].buffptr = Settled.entry[j].buffptr
                           => i = j
                      /\ ~Adding /\ tmp_size > 0 /\ tmp_buf # NULL =>
                           /\ tmp_buf \in Ptr \ Owned
                           /\ heap[tmp_buf] >= tmp_size
    BY DEF Ownership
  <2>1. EntriesInv /\ PendingInv
    BY DEF IInv, DataInv
  <2>2. Adding <=> Phase # "none"
    BY PhaseOfAdder
  <2>3. new_entry.buffptr = tmp_buf /\ new_entry.size = tmp_size
    BY DEF new_entry
  <2>4. \A i \in Slots : ~(Adding /\ i = cb.in_offs) =>
          /\ Settled.entry[i] = cb.entry[i]
          /\ cb.entry[i].size > 0 =>
               /\ Live(i)
               /\ cb.entry[i].buffptr \in Ptr
               /\ heap[cb.entry[i].buffptr] >= cb.entry[i].size
               /\ tmp_size > 0 /\ tmp_buf # NULL => cb.entry[i].buffptr # tmp_buf
    BY <2>1, <2>2, SettledEntries DEF EntriesInv, PendingInv, Live
  <2>5. Adding => /\ tmp_size > 0 /\ tmp_buf # NULL
                  /\ tmp_buf \in Ptr /\ heap[tmp_buf] >= tmp_size
    BY <2>1, <2>2 DEF PendingInv
  <2>6. \A i \in Slots : Adding /\ i = cb.in_offs => Settled.entry[i] = new_entry
    BY SettledEntries
  <2>7. \A i \in Slots :
          Settled.entry[i].size > 0 =>
            /\ Settled.entry[i].buffptr \in Ptr
            /\ heap[Settled.entry[i].buffptr] >= Settled.entry[i].size
    BY <2>3, <2>4, <2>5, <2>6
  <2>8. \A i, j \in Slots :
          Live(i) /\ Live(j) /\ cb.entry[i].buffptr = cb.entry[j].buffptr => i = j
    BY <2>1 DEF EntriesInv
  <2>9. \A i, j \in Slots :
          /\ Settled.entry[i].size > 0
          /\ Settled.entry[j].size > 0
          /\ Settled.entry[i].buffptr = Settled.entry[j].buffptr
          => i = j
    BY <2>3, <2>4, <2>5, <2>6, <2>8
  <2>10. ~Adding /\ tmp_size > 0 /\ tmp_buf # NULL =>
           tmp_buf \in Ptr \ Owned /\ heap[tmp_buf] >= tmp_size
    BY <2>1, <2>4 DEF PendingInv, Owned
  <2> QED
    BY <2>7, <2>9, <2>10
<1> QED
  BY <1>1, DriverInductive, PTL

-----------------------------------------------------------------------------
(* Steps by what they may change.                                          *)

\* A step that leaves the device and the client inside mx_lock alone.
Quiet ==
  /\ UNCHANGED <<loaded, device, mx_lock, nomem>>
  /\ \A c \in Clients : pc[c] \in LockedPC \/ pc'[c] \in LockedPC =>
       pc'[c] = pc[c] /\ frame'[c] = frame[c]
  /\ \A c \in Clients : pc[c] \in IoctlPC => f_pos'[c] = f_pos[c]

\* A step of client c inside mx_lock, or one that takes it.
LockedStep(c) ==
  \/ WriteCopy(c) \/ WriteAllocFails(c) \/ EvictFree(c) \/ EvictClear(c)
  \/ AddOut(c) \/ AddStore(c) \/ AddIn(c) \/ WriteUnlock(c)
  \/ IoctlLock(c) \/ IoctlLoop(c) \/ IoctlEntry(c)

\* A step of client c outside the lock is quiet.
LEMMA QuietStep ==
  ASSUME TypeOK, NEW c \in Clients, NEW label, Goto(c, label),
         pc[c] \notin LockedPC, label \notin LockedPC,
         UNCHANGED <<loaded, device, mx_lock, nomem>>,
         \A d \in Clients \ {c} : frame'[d] = frame[d] /\ f_pos'[d] = f_pos[d],
         pc[c] \in IoctlPC => f_pos'[c] = f_pos[c]
  PROVE  Quiet
BY DEF Quiet, Goto, TypeOK, FileTypes

\* What the shorthands for a call say about the other clients.
LEMMA OthersStay ==
  ASSUME TypeOK, NEW c \in Clients, NEW d \in Clients \ {c}
  PROVE  /\ \A label, f : Enter(c, label, f) => frame'[d] = frame[d]
         /\ \A r : Return(c, r) => frame'[d] = frame[d]
         /\ \A p : f_pos' = [f_pos EXCEPT ![c] = p] => f_pos'[d] = f_pos[d]
BY DEF Enter, Return, TypeOK, FileTypes

LEMMA StepKinds ==
  ASSUME TypeOK, [Next]_vars
  PROVE  \/ aesd_init_module
         \/ aesd_cleanup_module
         \/ \E c \in Clients : LockedStep(c)
         \/ Quiet
<1> DEFINE Frame(c) == \A d \in Clients \ {c} : frame'[d] = frame[d] /\ f_pos'[d] = f_pos[d]
<1>0. /\ \A l \in {"closed", "idle", "write_lock", "ioctl_lock", "size_load", "size_store"} \cup ReadPC :
           l \notin LockedPC
      /\ \A l \in {"closed", "idle", "write_lock", "size_load", "size_store"} \cup ReadPC :
           l \notin IoctlPC
      /\ {"read_find", "read_length", "read_copy"} \subseteq ReadPC
  BY DEF LockedPC, AddPC, EvictPC, ReadPC, IoctlPC
<1>f. /\ frame \in [Clients -> AnyFrame] /\ f_pos \in [Clients -> Nat]
      /\ pc \in [Clients -> Labels]
  BY DEF TypeOK, FileTypes
<1>1. ASSUME NEW c \in Clients, aesd_open(c)
      PROVE  Quiet
  <2>1. Frame(c)
    BY <1>1, OthersStay DEF aesd_open
  <2> QED
    BY <1>0, <1>1, <2>1, QuietStep DEF aesd_open, Return
<1>2. ASSUME NEW c \in Clients, aesd_release(c)
      PROVE  Quiet
  <2>1. Frame(c)
    BY <1>2, OthersStay DEF aesd_release
  <2> QED
    BY <1>0, <1>2, <2>1, QuietStep DEF aesd_release, Enter
<1>3. ASSUME NEW c \in Clients, NEW count \in ReadCounts, aesd_read(c, count)
      PROVE  Quiet
  <2>1. Frame(c)
    BY <1>3, OthersStay DEF aesd_read
  <2>2. Goto(c, "idle") \/ Goto(c, "read_find")
    BY <1>3 DEF aesd_read, Return, Enter
  <2> QED
    BY <1>0, <1>3, <2>1, <2>2, QuietStep DEF aesd_read
<1>4. ASSUME NEW c \in Clients, NEW count \in WriteCounts, aesd_write(c, count)
      PROVE  Quiet
  <2>1. Frame(c)
    BY <1>4, OthersStay DEF aesd_write
  <2>2. Goto(c, "idle") \/ Goto(c, "write_lock")
    BY <1>4 DEF aesd_write, Return, Enter
  <2> QED
    BY <1>0, <1>4, <2>1, <2>2, QuietStep DEF aesd_write
<1>5. ASSUME NEW c \in Clients, NEW off \in SeekOffsets, aesd_llseek(c, off)
      PROVE  Quiet
  <2>1. /\ Goto(c, "idle")
        /\ \E r : Return(c, r)
        /\ f_pos' = f_pos \/ \E p : f_pos' = [f_pos EXCEPT ![c] = p]
    BY <1>5 DEF aesd_llseek, Return
  <2>2. Frame(c)
    BY <2>1, OthersStay
  <2> QED
    BY <1>0, <1>5, <2>1, <2>2, QuietStep DEF aesd_llseek
<1>6. ASSUME NEW c \in Clients, NEW seek_cmd \in SeekCmds, aesd_ioctl(c, seek_cmd)
      PROVE  Quiet
  <2>1. Frame(c)
    BY <1>6, OthersStay DEF aesd_ioctl
  <2>2. Goto(c, "idle") \/ Goto(c, "ioctl_lock")
    BY <1>6 DEF aesd_ioctl, Return, Enter
  <2> QED
    BY <1>0, <1>6, <2>1, <2>2, QuietStep DEF aesd_ioctl
<1>7. ASSUME NEW c \in Clients, ReadFind(c)
      PROVE  Quiet
  <2>1. Goto(c, "read_find") \/ Goto(c, "read_length") \/ Goto(c, "idle")
    BY <1>7, <1>f DEF ReadFind, Return, Goto
  <2>2. Frame(c)
    BY <1>7, <1>f DEF ReadFind, Return
  <2> QED
    BY <1>0, <1>7, <2>1, <2>2, QuietStep DEF ReadFind
<1>8. ASSUME NEW c \in Clients, ReadLength(c)
      PROVE  Quiet
  <2>1. Frame(c)
    BY <1>8, <1>f DEF ReadLength
  <2> QED
    BY <1>0, <1>8, <2>1, QuietStep DEF ReadLength
<1>9. ASSUME NEW c \in Clients, ReadCopy(c)
      PROVE  Quiet
  <2>1. Frame(c) /\ Goto(c, "idle")
    BY <1>9, <1>f DEF ReadCopy, Return
  <2> QED
    BY <1>0, <1>9, <2>1, QuietStep DEF ReadCopy
<1>10. ASSUME NEW c \in Clients, SizeLoad(c)
       PROVE  Quiet
  <2>1. Frame(c)
    BY <1>10, <1>f DEF SizeLoad
  <2> QED
    BY <1>0, <1>10, <2>1, QuietStep DEF SizeLoad
<1>11. ASSUME NEW c \in Clients, SizeStore(c)
       PROVE  Quiet
  <2>1. Frame(c) /\ Goto(c, "idle")
    BY <1>11, <1>f DEF SizeStore, Return
  <2> QED
    BY <1>0, <1>11, <2>1, QuietStep DEF SizeStore
<1>12. ASSUME NEW c \in Clients, Interrupted(c)
       PROVE  Quiet
  <2>1. Frame(c) /\ Goto(c, "idle")
    BY <1>12, <1>f DEF Interrupted, Return
  <2> QED
    BY <1>0, <1>12, <2>1, QuietStep DEF Interrupted
<1>13. CASE UNCHANGED vars
  BY <1>13 DEF vars, device, files, Quiet
<1> QED
  BY <1>1, <1>2, <1>3, <1>4, <1>5, <1>6, <1>7, <1>8, <1>9, <1>10, <1>11, <1>12, <1>13
  DEF Next, Call, Step, Acquire, LockedStep

\* A step of the client inside the lock is one of no other client.
LEMMA LockedAlone ==
  ASSUME IInv, IInv', NEW c \in Clients, LockedStep(c)
  PROVE  /\ loaded /\ loaded' = loaded
         /\ mx_lock' \in {c, NULL}
         /\ mx_lock = NULL \/ pc[c] \in LockedPC
         /\ \A d \in Clients \ {c} :
              pc[d] \notin LockedPC /\ pc'[d] \notin LockedPC /\ f_pos'[d] = f_pos[d]
              /\ pc'[d] = pc[d]
<1>1. pc \in [Clients -> Labels] /\ f_pos \in [Clients -> Nat]
  BY DEF IInv, TypeInv, TypeOK, FileTypes
<1>2. pc[c] # "closed" /\ loaded' = loaded
  BY DEF LockedStep, WriteCopy, WriteAllocFails, EvictFree, EvictClear, AddOut, AddStore,
     AddIn, WriteUnlock, IoctlLock, IoctlLoop, IoctlEntry
<1>3. loaded
  BY <1>2 DEF IInv, LockInv, UnloadedClosed
<1>4. mx_lock = NULL \/ pc[c] \in LockedPC
  BY DEF LockedStep, WriteCopy, WriteAllocFails, EvictFree, EvictClear, AddOut, AddStore,
     AddIn, WriteUnlock, IoctlLock, IoctlLoop, IoctlEntry, LockedPC, AddPC, EvictPC
<1>5. mx_lock = NULL \/ mx_lock = c
  BY <1>4 DEF IInv, LockInv, LockHeldInside
<1>6. mx_lock' \in {c, NULL}
  BY <1>4, <1>5, ClientAssumption
  DEF LockedStep, WriteCopy, WriteAllocFails, EvictFree, EvictClear, AddOut, AddStore,
     AddIn, WriteUnlock, IoctlLock, IoctlLoop, IoctlEntry, LockedPC, AddPC, EvictPC
<1>7. \A d \in Clients \ {c} : pc[d] \notin LockedPC
  BY <1>5, ClientAssumption DEF IInv, LockInv, LockHeldInside
<1>8. \A d \in Clients \ {c} : pc'[d] = pc[d]
  BY <1>1 DEF LockedStep, WriteCopy, WriteAllocFails, EvictFree, EvictClear, AddOut, AddStore,
     AddIn, WriteUnlock, IoctlLock, IoctlLoop, IoctlEntry, Goto, Return
<1>9. \A d \in Clients \ {c} : f_pos'[d] = f_pos[d]
  BY <1>1 DEF LockedStep, WriteCopy, WriteAllocFails, EvictFree, EvictClear, AddOut, AddStore,
     AddIn, WriteUnlock, IoctlLock, IoctlLoop, IoctlEntry
<1> QED
  BY <1>2, <1>3, <1>4, <1>6, <1>7, <1>8, <1>9

-----------------------------------------------------------------------------
(* What the device has lost, and what a seek may find.                     *)

\* A failed allocation has locked the device for ever.
NomemInv == nomem => mx_lock # NULL /\ \A c \in Clients : pc[c] \notin LockedPC

\* The block of the entry that is being evicted has been freed.
FreedInv ==
  Phase = "evict_clear" =>
    (cb.entry[cb.in_offs].buffptr \in Ptr => heap[cb.entry[cb.in_offs].buffptr] = 0)

\* A module that is not loaded keeps no command.
UnloadedEmpty == ~loaded => \A i \in Slots : cb.entry[i].size = 0

\* Behind a loop that has failed there is no entry to seek to.
SeekInv ==
  \A c \in Clients :
    pc[c] = "ioctl_entry" /\ frame[c].retval # "ok" => ~Occupied(frame[c].write_cmd)

FaultInv == NomemInv /\ FreedInv /\ UnloadedEmpty /\ SeekInv

LEMMA FaultInit == Init => FaultInv
<1> SUFFICES ASSUME Init
             PROVE  FaultInv
  OBVIOUS
<1>1. NomemInv
  BY DEF Init, NomemInv
<1>2. FreedInv
  BY ClientAssumption DEF Init, FreedInv, Phase
<1>3. UnloadedEmpty
  BY DEF Init, UnloadedEmpty, EmptyBuffer, EmptyEntry
<1>4. SeekInv
  BY DEF Init, SeekInv
<1> QED
  BY <1>1, <1>2, <1>3, <1>4 DEF FaultInv

\* Quiet steps keep the phase.
LEMMA QuietPhase ==
  ASSUME Quiet
  PROVE  Phase' = Phase
BY DEF Quiet, Phase, LockedPC

LEMMA NomemStep ==
  ASSUME IInv, IInv', NomemInv, [Next]_vars
  PROVE  NomemInv'
<1>1. CASE aesd_init_module
  BY <1>1 DEF aesd_init_module, NomemInv
<1>2. CASE aesd_cleanup_module
  BY <1>2 DEF aesd_cleanup_module, files, NomemInv
<1>3. ASSUME NEW c \in Clients, LockedStep(c)
      PROVE  NomemInv'
  <2>1. CASE WriteAllocFails(c)
    <3>1. mx_lock' = c /\ pc'[c] = "idle"
      BY <2>1 DEF WriteAllocFails, Return, Goto, IInv, TypeInv, TypeOK, FileTypes
    <3>2. "idle" \notin LockedPC
      BY DEF LockedPC, AddPC, EvictPC
    <3>3. \A d \in Clients : pc'[d] \in LockedPC => d = c
      BY <1>3, LockedAlone
    <3> QED
      BY <3>1, <3>2, <3>3, ClientAssumption DEF NomemInv
  <2>2. CASE ~WriteAllocFails(c)
    <3>1. nomem' = nomem
      BY <1>3, <2>2 DEF LockedStep, WriteCopy, EvictFree, EvictClear, AddOut, AddStore,
         AddIn, WriteUnlock, IoctlLock, IoctlLoop, IoctlEntry
    <3>2. ~nomem
      BY <1>3, LockedAlone DEF NomemInv
    <3> QED
      BY <3>1, <3>2 DEF NomemInv
  <2> QED
    BY <2>1, <2>2
<1>4. CASE Quiet
  BY <1>4 DEF Quiet, NomemInv
<1> QED
  BY <1>1, <1>2, <1>3, <1>4, StepKinds DEF IInv, TypeInv

LEMMA FreedStep ==
  ASSUME IInv, IInv', FreedInv, [Next]_vars
  PROVE  FreedInv'
<1>t. pc \in [Clients -> Labels]
  BY DEF IInv, TypeInv, TypeOK, FileTypes
<1>1. CASE aesd_init_module
  BY <1>1, ClientAssumption DEF aesd_init_module, FreedInv, Phase
<1>2. CASE aesd_cleanup_module
  BY <1>2 DEF aesd_cleanup_module, files, FreedInv, Phase, EvictPC, AddPC
<1>3. ASSUME NEW c \in Clients, LockedStep(c)
      PROVE  FreedInv'
  <2>1. CASE EvictFree(c)
    <3>1. cb' = cb /\ heap \in [Ptr -> Nat]
      BY <2>1 DEF EvictFree, IInv, TypeInv, TypeOK, DeviceTypes
    <3> QED
      BY <2>1, <3>1 DEF EvictFree, FreedInv
  <2>2. CASE ~EvictFree(c)
    <3>1. pc'[c] # "evict_clear"
      BY <1>3, <1>t, <2>2 DEF LockedStep, WriteCopy, WriteAllocFails, EvictClear, AddOut, AddStore,
         AddIn, WriteUnlock, IoctlLock, IoctlLoop, IoctlEntry, Goto, Return, AfterCopy
    <3>2. mx_lock' \in {c, NULL}
      BY <1>3, LockedAlone
    <3>3. Phase' # "evict_clear"
      BY <3>1, <3>2, ClientAssumption DEF Phase
    <3> QED
      BY <3>3 DEF FreedInv
  <2> QED
    BY <2>1, <2>2
<1>4. CASE Quiet
  <2>1. Phase' = Phase
    BY <1>4, QuietPhase
  <2>2. UNCHANGED <<cb, heap>>
    BY <1>4 DEF Quiet, device
  <2> QED
    BY <2>1, <2>2 DEF FreedInv
<1> QED
  BY <1>1, <1>2, <1>3, <1>4, StepKinds DEF IInv, TypeInv

LEMMA UnloadedStep ==
  ASSUME IInv, IInv', UnloadedEmpty, [Next]_vars
  PROVE  UnloadedEmpty'
<1>1. CASE aesd_init_module
  <2>1. \A i \in Slots : cb'.entry[i].size = 0
    BY <1>1 DEF aesd_init_module, EmptyBuffer, EmptyEntry
  <2> QED
    BY <2>1 DEF UnloadedEmpty
<1>2. CASE aesd_cleanup_module
  <2>1. Phase = "none" /\ loaded
    BY <1>2 DEF aesd_cleanup_module, Phase, EvictPC, AddPC
  <2>2. \A i \in Slots : cb.entry[i].size > 0 => cb.entry[i].buffptr # NULL
    BY <2>1, ClientAssumption DEF IInv, DataInv, EntriesInv, Live
  <2>3. cb \in Buffers([buffptr : Pointers, size : Nat])
    BY DEF IInv, TypeInv, TypeOK, DeviceTypes
  <2>4. \A i \in Slots : cb.entry[i] \in [buffptr : Pointers, size : Nat]
    BY <2>3 DEF Buffers
  <2> DEFINE used == {i \in Slots : cb.entry[i].size > 0 /\ cb.entry[i].buffptr # NULL}
             entries == [i \in Slots |-> IF i \in used THEN [cb.entry[i] EXCEPT !.size = 0]
                                                       ELSE cb.entry[i]]
  <2>5. cb'.entry = entries
    BY <1>2, <2>3 DEF aesd_cleanup_module, Buffers
  <2>6. ASSUME NEW i \in Slots
        PROVE  cb'.entry[i].size = 0
    <3>1. CASE cb.entry[i].size > 0
      <4>1. cb'.entry[i] = [cb.entry[i] EXCEPT !.size = 0]
        BY <2>2, <2>5, <3>1
      <4> QED
        BY <2>4, <4>1
    <3>2. CASE ~ (cb.entry[i].size > 0)
      <4>1. cb'.entry[i] = cb.entry[i]
        BY <2>5, <3>2
      <4> QED
        BY <2>4, <3>2, <4>1
    <3> QED
      BY <3>1, <3>2
  <2> QED
    BY <2>6 DEF UnloadedEmpty
<1>3. ASSUME NEW c \in Clients, LockedStep(c)
      PROVE  UnloadedEmpty'
  BY <1>3, LockedAlone DEF UnloadedEmpty
<1>4. CASE Quiet
  BY <1>4 DEF Quiet, device, UnloadedEmpty
<1> QED
  BY <1>1, <1>2, <1>3, <1>4, StepKinds DEF IInv, TypeInv

\* The slots that aesd_ioctl finds in use are a prefix of the array.
LEMMA OccupiedPrefix ==
  ASSUME IInv, loaded, Phase = "none", NEW i \in Nat, NEW k \in Nat, i < k, Occupied(k)
  PROVE  Occupied(i)
<1>1. \A s \in Slots : cb.entry[s].size > 0 <=> (cb.full \/ s < cb.in_offs)
  BY DEF IInv, DataInv, EntriesInv, InUse
<1>2. \A s \in Slots : cb.entry[s].size > 0 => cb.entry[s].buffptr # NULL
  BY ClientAssumption DEF IInv, DataInv, EntriesInv, Live
<1>3. i \in Slots /\ k \in Slots
  BY NAssumption DEF Occupied, Slots
<1>4. cb.in_offs \in Nat
  BY NAssumption DEF IInv, TypeInv, TypeOK, DeviceTypes, Buffers, Slots
<1> QED
  BY <1>1, <1>2, <1>3, <1>4 DEF Occupied

LEMMA SeekStep ==
  ASSUME IInv, IInv', SeekInv, [Next]_vars
  PROVE  SeekInv'
<1>t. /\ pc \in [Clients -> Labels] /\ frame \in [Clients -> AnyFrame]
      /\ \A c \in Clients : frame[c] \in Frames(pc[c])
  BY DEF IInv, TypeInv, TypeOK, FileTypes
<1>1. CASE aesd_init_module
  BY <1>1 DEF aesd_init_module, files, SeekInv, IInv, LockInv, UnloadedClosed
<1>2. CASE aesd_cleanup_module
  BY <1>2 DEF aesd_cleanup_module, files, SeekInv
<1>3. ASSUME NEW c \in Clients, LockedStep(c)
      PROVE  SeekInv'
  <2>0. "ioctl_entry" \in LockedPC
    BY DEF LockedPC
  <2>1. \A d \in Clients : pc'[d] = "ioctl_entry" => d = c
    BY <1>3, <2>0, LockedAlone
  <2>2. CASE IoctlLoop(c)
    <3> SUFFICES ASSUME pc'[c] = "ioctl_entry", frame'[c].retval # "ok"
                 PROVE  ~Occupied(frame[c].write_cmd)' /\ frame'[c].write_cmd = frame[c].write_cmd
      BY <2>1, <2>2 DEF SeekInv, IoctlLoop, Occupied, device
    <3> DEFINE f == frame[c]
    <3>1. f \in IoctlFrame
      BY <1>t, <2>2, FrameKinds DEF IoctlLoop, IoctlPC
    <3>2. ~ (f.index < f.write_cmd /\ Occupied(f.index))
      BY <1>t, <2>2 DEF IoctlLoop
    <3>3. frame' = [frame EXCEPT ![c].retval = IF f.index < f.write_cmd THEN "EINVAL" ELSE "ok"]
      BY <2>2, <3>2 DEF IoctlLoop
    <3>4. frame'[c] = [f EXCEPT !.retval = IF f.index < f.write_cmd THEN "EINVAL" ELSE "ok"]
      BY <1>t, <3>3
    <3>5. f.index < f.write_cmd /\ frame'[c].write_cmd = f.write_cmd
      BY <3>1, <3>4 DEF IoctlFrame
    <3>6. ~Occupied(f.index)
      BY <3>2, <3>5
    <3>7. Phase = "none" /\ loaded
      <4>1. pc[c] \in LockedPC /\ pc[c] \notin EvictPC \cup AddPC
        BY <2>2 DEF IoctlLoop, LockedPC, EvictPC, AddPC
      <4> QED
        BY <1>3, <4>1, LockedAlone, PhaseInside DEF IInv, LockInv
    <3>8. ~Occupied(f.write_cmd)
      BY <3>1, <3>5, <3>6, <3>7, OccupiedPrefix DEF IoctlFrame
    <3> QED
      BY <2>2, <3>5, <3>8 DEF IoctlLoop, Occupied, device
  <2>3. CASE ~IoctlLoop(c)
    <3>1. pc'[c] # "ioctl_entry"
      BY <1>3, <1>t, <2>3 DEF LockedStep, WriteCopy, WriteAllocFails, EvictFree, EvictClear, AddOut, AddStore,
         AddIn, WriteUnlock, IoctlLock, IoctlEntry, Goto, Return, AfterCopy
    <3> QED
      BY <2>1, <3>1 DEF SeekInv
  <2> QED
    BY <2>2, <2>3
<1>4. CASE Quiet
  <2>1. UNCHANGED cb
    BY <1>4 DEF Quiet, device
  <2>2. "ioctl_entry" \in LockedPC
    BY DEF LockedPC
  <2> QED
    BY <1>4, <2>1, <2>2 DEF Quiet, SeekInv, Occupied
<1> QED
  BY <1>1, <1>2, <1>3, <1>4, StepKinds DEF IInv, TypeInv

LEMMA FaultInductive == Spec => [](IInv /\ FaultInv)
<1>1. Init => FaultInv
  BY FaultInit
<1>2. IInv /\ IInv' /\ FaultInv /\ [Next]_vars => FaultInv'
  BY NomemStep, FreedStep, UnloadedStep, SeekStep DEF FaultInv
<1> QED
  BY <1>1, <1>2, DriverInductive, PTL DEF Spec

-----------------------------------------------------------------------------
(* Memory that is lost.                                                    *)

\* The property of one step that LeaksOnlyOnFaults states.
LeakStep ==
  /\ Orphans' \subseteq Orphans \cup {tmp_buf}
  /\ \/ Orphans' \subseteq Orphans
     \/ nomem' # nomem
     \/ ~loaded
     \/ tmp_size = 0

\* When no block is newly allocated and no reference given up, none is lost.
LEMMA LeakKept ==
  ASSUME heap' = heap, tmp_buf' = tmp_buf, cb'.entry = cb.entry
  PROVE  LeakStep
BY DEF LeakStep, Orphans

LEMMA LeakUnload ==
  ASSUME IInv, aesd_cleanup_module
  PROVE  LeakStep
<1>t. /\ heap \in [Ptr -> Nat] /\ cb \in Buffers([buffptr : Pointers, size : Nat])
  BY DEF IInv, TypeInv, TypeOK, DeviceTypes
<1> DEFINE used == {i \in Slots : cb.entry[i].size > 0 /\ cb.entry[i].buffptr # NULL}
<1>1. tmp_buf' = tmp_buf
      /\ heap' = [p \in Ptr |-> IF \E i \in used : cb.entry[i].buffptr = p THEN 0 ELSE heap[p]]
  BY DEF aesd_cleanup_module
<1>2. ASSUME NEW p \in Orphans'
      PROVE  p \in Orphans
  <2>1. p \in Ptr /\ heap'[p] > 0 /\ p # tmp_buf
    BY <1>1, <1>2 DEF Orphans
  <2>2. heap[p] > 0 /\ ~ \E i \in used : cb.entry[i].buffptr = p
    BY <1>1, <2>1
  <2>3. \A i \in Slots : cb.entry[i].buffptr = p => ~ (cb.entry[i].size > 0)
    BY <2>1, <2>2, ClientAssumption
  <2>4. \A i \in Slots : cb.entry[i].size \in Nat
    BY <1>t DEF Buffers
  <2>5. \A i \in Slots : cb.entry[i].buffptr = p => cb.entry[i].size = 0
    BY <2>3, <2>4
  <2> QED
    BY <2>1, <2>2, <2>5 DEF Orphans
<1> QED
  BY <1>2 DEF LeakStep

LEMMA LeakLoad ==
  ASSUME UnloadedEmpty, aesd_init_module
  PROVE  LeakStep
<1>1. ~loaded /\ heap' = heap
  BY DEF aesd_init_module
<1> QED
  BY <1>1 DEF LeakStep, Orphans, UnloadedEmpty

\* The first step of a write, which is where blocks come from.
LEMMA LeakWriteCopy ==
  ASSUME IInv, NEW c \in Clients, WriteCopy(c), loaded
  PROVE  LeakStep
<1>t. /\ heap \in [Ptr -> Nat] /\ tmp_size \in Nat /\ tmp_buf \in Pointers
  BY DEF IInv, TypeInv, TypeOK, DeviceTypes
<1>1. cb' = cb /\ mx_lock = NULL
  BY DEF WriteCopy
<1>2. CASE tmp_size > 0
  <2>1. tmp_buf # NULL
    BY <1>1, <1>2 DEF IInv, LostInv
  <2>2. tmp_buf \in Ptr
    BY <1>2, <2>1 DEF IInv, DataInv, PendingInv
  <2>3. tmp_buf' \in Ptr
        /\ heap' = [heap EXCEPT ![tmp_buf] = 0, ![tmp_buf'] = tmp_size + frame[c].count]
    BY <1>t, <1>2, <2>2 DEF WriteCopy
  <2>4. \A p \in Ptr : p # tmp_buf' => heap'[p] = IF p = tmp_buf THEN 0 ELSE heap[p]
    BY <1>t, <2>2, <2>3
  <2>5. Orphans' \subseteq Orphans
    BY <1>1, <2>4 DEF Orphans
  <2> QED
    BY <2>5 DEF LeakStep
<1>3. CASE tmp_size = 0
  <2>1. \A p \in Ptr : p # tmp_buf' => heap'[p] = heap[p]
    BY <1>t, <1>3 DEF WriteCopy
  <2>2. Orphans' \subseteq Orphans \cup {tmp_buf}
    BY <1>1, <2>1 DEF Orphans
  <2> QED
    BY <1>3, <2>2 DEF LeakStep
<1> QED
  BY <1>t, <1>2, <1>3

LEMMA LeakEvictClear ==
  ASSUME IInv, FreedInv, NEW c \in Clients, EvictClear(c)
  PROVE  LeakStep
<1>t. /\ heap \in [Ptr -> Nat] /\ cb \in Buffers([buffptr : Pointers, size : Nat])
  BY DEF IInv, TypeInv, TypeOK, DeviceTypes
<1>1. tmp_buf' = tmp_buf /\ heap' = heap /\ cb' = [cb EXCEPT !.entry[cb.in_offs].size = 0]
  BY DEF EvictClear
<1>2. Phase = "evict_clear"
  BY PhaseInside DEF EvictClear, EvictPC, LockedPC, IInv, LockInv
<1>3. /\ cb.in_offs \in Slots
      /\ \A i \in Slots : i # cb.in_offs => cb'.entry[i] = cb.entry[i]
      /\ cb'.entry[cb.in_offs].buffptr = cb.entry[cb.in_offs].buffptr
  BY <1>1, <1>t DEF Buffers
<1>4. Orphans' \subseteq Orphans
  <2> SUFFICES ASSUME NEW p \in Orphans'
               PROVE  p \in Orphans
    OBVIOUS
  <2>1. /\ p \in Ptr /\ heap[p] > 0 /\ p # tmp_buf
        /\ \A i \in Slots : cb'.entry[i].buffptr = p => cb'.entry[i].size = 0
    BY <1>1 DEF Orphans
  <2>2. p # cb.entry[cb.in_offs].buffptr
    BY <1>2, <1>t, <2>1 DEF FreedInv
  <2>3. \A i \in Slots : cb.entry[i].buffptr = p => cb.entry[i].size = 0
    BY <1>3, <2>1, <2>2
  <2> QED
    BY <2>1, <2>3 DEF Orphans
<1> QED
  BY <1>4 DEF LeakStep

LEMMA LeakAddStore ==
  ASSUME IInv, NEW c \in Clients, AddStore(c), loaded
  PROVE  LeakStep
<1> DEFINE E == [buffptr : Pointers, size : Nat]
<1>t. cb \in Buffers(E) /\ new_entry \in E
  BY BufferTypes DEF IInv, TypeInv, TypeOK, DeviceTypes
<1>1. tmp_buf' = tmp_buf /\ heap' = heap /\ cb' = StoreEntry(cb, new_entry)
  BY DEF AddStore
<1>2. Phase = "add_store"
  BY PhaseInside DEF AddStore, AddPC, LockedPC, IInv, LockInv
<1>3. cb.in_offs \in Slots /\ cb.entry[cb.in_offs].size \in Nat
  BY <1>t DEF Buffers
<1>4. cb.entry[cb.in_offs].size = 0
  <2>1. ~InUse(cb.in_offs)
    BY <1>2 DEF InUse
  <2> QED
    BY <1>3, <2>1 DEF IInv, DataInv, EntriesInv
<1> HIDE DEF E
<1>5. cb'.entry = [cb.entry EXCEPT ![cb.in_offs] = new_entry] /\ cb.entry \in [Slots -> E]
  BY <1>1, <1>t, StoreEntryFields DEF Buffers
<1>6. \A i \in Slots : i # cb.in_offs => cb'.entry[i] = cb.entry[i]
  BY <1>5
<1>7. Orphans' \subseteq Orphans
  <2> SUFFICES ASSUME NEW p \in Orphans'
               PROVE  p \in Orphans
    OBVIOUS
  <2>1. /\ p \in Ptr /\ heap[p] > 0 /\ p # tmp_buf
        /\ \A i \in Slots : cb'.entry[i].buffptr = p => cb'.entry[i].size = 0
    BY <1>1 DEF Orphans
  <2>2. \A i \in Slots : cb.entry[i].buffptr = p => cb.entry[i].size = 0
    BY <1>4, <1>6, <2>1
  <2> QED
    BY <2>1, <2>2 DEF Orphans
<1> QED
  BY <1>7 DEF LeakStep

LEMMA LeakAddIn ==
  ASSUME IInv, NEW c \in Clients, AddIn(c), loaded
  PROVE  LeakStep
<1>1. /\ tmp_buf' = NULL /\ heap' = heap /\ cb' = AdvanceIn(cb)
      /\ cb \in Buffers([buffptr : Pointers, size : Nat])
  BY DEF AddIn, IInv, TypeInv, TypeOK, DeviceTypes
<1>2. cb'.entry = cb.entry /\ cb.in_offs \in Slots
  BY <1>1, AdvanceInFields DEF Buffers
<1>3. Phase = "add_in"
  BY PhaseInside DEF AddIn, AddPC, LockedPC, IInv, LockInv
<1>4. cb.entry[cb.in_offs].buffptr = tmp_buf /\ cb.entry[cb.in_offs].size > 0
  BY <1>3 DEF IInv, DataInv, PendingInv, new_entry
<1>5. Orphans' \subseteq Orphans
  <2> SUFFICES ASSUME NEW p \in Orphans'
               PROVE  p \in Orphans
    OBVIOUS
  <2>1. /\ p \in Ptr /\ heap[p] > 0
        /\ \A i \in Slots : cb.entry[i].buffptr = p => cb.entry[i].size = 0
    BY <1>1, <1>2 DEF Orphans
  <2>2. p # tmp_buf
    BY <1>2, <1>4, <2>1
  <2> QED
    BY <2>1, <2>2 DEF Orphans
<1> QED
  BY <1>5 DEF LeakStep

LEMMA LeakEveryStep ==
  ASSUME IInv, IInv', FaultInv, [Next]_vars
  PROVE  LeakStep
<1> USE DEF FaultInv
<1>1. CASE aesd_init_module
  BY <1>1, LeakLoad
<1>2. CASE aesd_cleanup_module
  BY <1>2, LeakUnload
<1>3. ASSUME NEW c \in Clients, LockedStep(c)
      PROVE  LeakStep
  <2>0. loaded
    BY <1>3, LockedAlone
  <2>1. CASE WriteCopy(c)
    BY <2>0, <2>1, LeakWriteCopy
  <2>2. CASE WriteAllocFails(c)
    <3>1. nomem \in BOOLEAN /\ ~nomem
      BY <2>2, ClientAssumption DEF WriteAllocFails, NomemInv, IInv, TypeInv, TypeOK, DeviceTypes
    <3>2. nomem' # nomem /\ heap' = heap /\ cb' = cb
      BY <2>2, <3>1 DEF WriteAllocFails
    <3> QED
      BY <3>2 DEF LeakStep, Orphans
  <2>3. CASE EvictFree(c)
    <3>1. cb' = cb /\ tmp_buf' = tmp_buf /\ heap \in [Ptr -> Nat]
      BY <2>3 DEF EvictFree, IInv, TypeInv, TypeOK, DeviceTypes
    <3>2. \A p \in Ptr : heap'[p] > 0 => heap[p] > 0
      BY <2>3, <3>1 DEF EvictFree
    <3> QED
      BY <3>1, <3>2 DEF LeakStep, Orphans
  <2>4. CASE EvictClear(c)
    BY <2>4, LeakEvictClear
  <2>5. CASE AddOut(c)
    <3>1. cb'.entry = cb.entry
      BY <2>5, AdvanceOutFields DEF AddOut, IInv, TypeInv, TypeOK, DeviceTypes
    <3> QED
      BY <2>5, <3>1, LeakKept DEF AddOut
  <2>6. CASE AddStore(c)
    BY <2>0, <2>6, LeakAddStore
  <2>7. CASE AddIn(c)
    BY <2>0, <2>7, LeakAddIn
  <2>8. CASE WriteUnlock(c) \/ IoctlLock(c) \/ IoctlLoop(c) \/ IoctlEntry(c)
    BY <2>8, LeakKept DEF WriteUnlock, IoctlLock, IoctlLoop, IoctlEntry, device
  <2> QED
    BY <1>3, <2>1, <2>2, <2>3, <2>4, <2>5, <2>6, <2>7, <2>8 DEF LockedStep
<1>4. CASE Quiet
  BY <1>4, LeakKept DEF Quiet, device
<1> QED
  BY <1>1, <1>2, <1>3, <1>4, StepKinds DEF IInv, TypeInv

(***************************************************************************)
(* Whatever calls interleave, whatever copies and allocations fail, memory *)
(* is lost only at tmp_buf, and only by a failed allocation, by a load     *)
(* after an unload with bytes waiting, or by a write after one that copied *)
(* nothing: replacing a command and unloading the module free the rest.    *)
(***************************************************************************)
THEOREM DriverLeaks == Spec => LeaksOnlyOnFaults
<1>1. IInv /\ IInv' /\ FaultInv /\ [Next]_vars => [LeakStep]_vars
  BY LeakEveryStep
<1>2. LeaksOnlyOnFaults <=> [][LeakStep]_vars
  BY DEF LeaksOnlyOnFaults, LeakStep
<1> QED
  BY <1>1, <1>2, FaultInductive, PTL DEF Spec

-----------------------------------------------------------------------------
(* Seeks that are refused.                                                 *)

\* The property of one step that FailedSeekKeepsPosition states.
RefusedStep ==
  \A c \in Clients :
    pc[c] \in IoctlPC /\ pc'[c] = "idle" /\ ret'[c] # "ok" => f_pos'[c] = f_pos[c]

LEMMA RefusedEveryStep ==
  ASSUME IInv, IInv', FaultInv, [Next]_vars
  PROVE  RefusedStep
<1>t. /\ pc \in [Clients -> Labels] /\ ret \in [Clients -> Results \cup {NULL}]
  BY DEF IInv, TypeInv, TypeOK, FileTypes
<1>1. CASE aesd_init_module \/ aesd_cleanup_module
  BY <1>1 DEF aesd_init_module, aesd_cleanup_module, files, RefusedStep
<1>2. ASSUME NEW c \in Clients, LockedStep(c)
      PROVE  RefusedStep
  <2>1. \A d \in Clients \ {c} : f_pos'[d] = f_pos[d]
    BY <1>2, LockedAlone
  <2>2. CASE IoctlEntry(c)
    <3> SUFFICES ASSUME ret'[c] # "ok"
                 PROVE  f_pos' = f_pos
      BY <2>1, <2>2 DEF RefusedStep
    <3>1. CASE frame[c].retval = "ok"
      BY <1>t, <2>2, <3>1 DEF IoctlEntry, Return
    <3>2. CASE frame[c].retval # "ok"
      <4>1. ~Occupied(frame[c].write_cmd)
        BY <2>2, <3>2 DEF IoctlEntry, FaultInv, SeekInv
      <4> QED
        BY <2>2, <4>1 DEF IoctlEntry
    <3> QED
      BY <3>1, <3>2
  <2>3. CASE ~IoctlEntry(c)
    <3>1. f_pos' = f_pos
      BY <1>2, <2>3 DEF LockedStep, WriteCopy, WriteAllocFails, EvictFree, EvictClear, AddOut,
         AddStore, AddIn, WriteUnlock, IoctlLock, IoctlLoop
    <3> QED
      BY <3>1 DEF RefusedStep
  <2> QED
    BY <2>2, <2>3
<1>3. CASE Quiet
  BY <1>3 DEF Quiet, RefusedStep
<1> QED
  BY <1>1, <1>2, <1>3, StepKinds DEF IInv, TypeInv

(***************************************************************************)
(* A seek that is refused leaves the position alone, whatever writes and   *)
(* evictions come before it: when the loop of aesd_ioctl fails, the entry  *)
(* behind it is never in use.                                              *)
(***************************************************************************)
THEOREM DriverRefusedSeek == Spec => FailedSeekKeepsPosition
<1>1. IInv /\ IInv' /\ FaultInv /\ [Next]_vars => [RefusedStep]_vars
  BY RefusedEveryStep
<1>2. FailedSeekKeepsPosition <=> [][RefusedStep]_vars
  BY DEF FailedSeekKeepsPosition, RefusedStep
<1> QED
  BY <1>1, <1>2, FaultInductive, PTL DEF Spec

-----------------------------------------------------------------------------
(* Refinement: the driver implements the device of commands.               *)

\* The variables of CommandDevice.
Commands == IF loaded THEN Sizes ELSE << >>
Pending == IF loaded /\ ~Adding THEN tmp_size ELSE 0

\* The lengths of the commands in a buffer.
SizesOf(b) == [k \in 1..Count(b) |-> LogOf(b)[k].size]

\* The settled buffer, by the phase of the client that is adding an entry.
SettledBy(phase, b, e) ==
  IF phase \in EvictPC \cup {"add_out"} THEN add_entry(b, e)
  ELSE IF phase = "add_store" THEN AdvanceIn(StoreEntry(b, e))
  ELSE IF phase = "add_in" THEN AdvanceIn(b)
  ELSE b

SettledIs ==
  /\ Settled = SettledBy(Phase, cb, new_entry)
  /\ Adding <=> Phase # "none"

LEMMA SettledByPhase == IInv => SettledIs
<1> SUFFICES ASSUME IInv
             PROVE  SettledIs
  OBVIOUS
<1>1. /\ At(EvictPC \cup {"add_out"}) <=> Phase \in EvictPC \cup {"add_out"}
      /\ At({"add_store"}) <=> Phase = "add_store"
      /\ At({"add_in"}) <=> Phase = "add_in"
      /\ Adding <=> Phase # "none"
  BY PhaseOfAdder DEF EvictPC, AddPC
<1> QED
  BY <1>1 DEF SettledIs, Settled, SettledBy

LEMMA SettledNext == IInv' => SettledIs'
BY SettledByPhase, PTL

\* The lengths in a buffer, and what add_entry does to them.
LEMMA SizesOfBuffer ==
  ASSUME NEW b \in Buffers([buffptr : Pointers, size : Nat]), OffsetsAgree(b)
  PROVE  /\ SizesOf(b) \in Seq(Nat)
         /\ Len(SizesOf(b)) = Count(b)
         /\ Count(b) \in 0..N
         /\ b.full <=> Count(b) = N
         /\ \A k \in 1..Count(b) : SizesOf(b)[k] = LogOf(b)[k].size
<1> DEFINE E == [buffptr : Pointers, size : Nat]
<1>1. /\ LogOf(b) \in Seq(E) /\ Len(LogOf(b)) = Count(b) /\ Count(b) \in 0..N
      /\ b.full <=> Count(b) = N
  BY LogOfBuffer
<1>2. \A k \in 1..Count(b) : LogOf(b)[k] \in E
  <2> HIDE DEF E
  <2> QED BY <1>1
<1>3. SizesOf(b) \in [1..Count(b) -> Nat]
  BY <1>2 DEF SizesOf
<1>4. SizesOf(b) \in Seq(Nat) /\ Len(SizesOf(b)) = Count(b)
  BY <1>1, <1>3, SeqDef, LenProperties
<1> QED
  BY <1>1, <1>4 DEF SizesOf

LEMMA SizesOfAdd ==
  ASSUME NEW b \in Buffers([buffptr : Pointers, size : Nat]), OffsetsAgree(b),
         NEW e \in [buffptr : Pointers, size : Nat]
  PROVE  SizesOf(add_entry(b, e)) =
           Append(IF Len(SizesOf(b)) = N THEN Tail(SizesOf(b)) ELSE SizesOf(b), e.size)
<1> DEFINE E == [buffptr : Pointers, size : Nat]
           c == add_entry(b, e)
           S == SizesOf(b)
           T == SizesOf(c)
           L == LogOf(b)
           M == LogOf(c)
           old == IF Len(S) = N THEN Tail(S) ELSE S
<1>0. e.size \in Nat /\ N \in Nat /\ N >= 1
  BY NAssumption
<1>e. b \in Buffers(E) /\ e \in E
  OBVIOUS
<1> HIDE DEF E
<1>1. c \in Buffers(E) /\ OffsetsAgree(c)
      /\ M = IF b.full THEN Append(Tail(L), e) ELSE Append(L, e)
  <2>1. c \in Buffers(E)
    BY <1>e, AddEntryFields
  <2>2. OffsetsAgree(c)
        /\ M = IF b.full THEN Append(Tail(L), e) ELSE Append(L, e)
    BY <1>e, LogOfAdd
  <2> QED
    BY <2>1, <2>2
<1> HIDE DEF c
<1>2. /\ S \in Seq(Nat) /\ Len(S) = Count(b) /\ Count(b) \in 0..N
      /\ b.full <=> Count(b) = N
      /\ \A k \in 1..Count(b) : S[k] = L[k].size
  BY SizesOfBuffer DEF E
<1>3. /\ T \in Seq(Nat) /\ Len(T) = Count(c)
      /\ \A k \in 1..Count(c) : T[k] = M[k].size
  BY <1>1, SizesOfBuffer DEF E
<1>4. L \in Seq(E) /\ Len(L) = Count(b) /\ M \in Seq(E) /\ Len(M) = Count(c)
  BY <1>1, LogOfBuffer DEF E
<1> HIDE DEF S, T, L, M
<1>5. CASE b.full
  <2>1. Len(S) = N /\ Len(L) = N /\ Count(b) = N
    BY <1>2, <1>4, <1>5
  <2>2. /\ Tail(L) \in Seq(E) /\ Len(Tail(L)) = N - 1
        /\ \A k \in 1..(N - 1) : Tail(L)[k] = L[k + 1]
    BY <1>0, <1>4, <2>1
  <2>3. /\ Tail(S) \in Seq(Nat) /\ Len(Tail(S)) = N - 1
        /\ \A k \in 1..(N - 1) : Tail(S)[k] = S[k + 1]
    BY <1>0, <1>2, <2>1
  <2>4. e \in E
    BY DEF E
  <2>5. /\ Len(M) = N /\ M[N] = e
        /\ \A k \in 1..(N - 1) : M[k] = L[k + 1]
    BY <1>0, <1>1, <1>5, <2>2, <2>4
  <2> DEFINE A == Append(Tail(S), e.size)
  <2>6. /\ A \in Seq(Nat) /\ Len(A) = N /\ A[N] = e.size
        /\ \A k \in 1..(N - 1) : A[k] = S[k + 1]
    BY <1>0, <2>3
  <2> HIDE DEF A
  <2>7. Len(T) = N /\ Count(c) = N
    BY <1>3, <1>4, <2>5
  <2>8. \A k \in 1..N : T[k] = A[k]
    <3> SUFFICES ASSUME NEW k \in 1..N
                 PROVE  T[k] = A[k]
      OBVIOUS
    <3>1. T[k] = M[k].size
      BY <1>3, <2>7
    <3>2. CASE k = N
      BY <2>5, <2>6, <3>1, <3>2
    <3>3. CASE k # N
      <4>1. k \in 1..(N - 1) /\ k + 1 \in 1..Count(b)
        BY <1>0, <2>1, <3>3
      <4>2. M[k] = L[k + 1] /\ A[k] = S[k + 1] /\ S[k + 1] = L[k + 1].size
        BY <1>2, <2>5, <2>6, <4>1
      <4> QED
        BY <3>1, <4>2
    <3> QED
      BY <3>2, <3>3
  <2>9. T = A
    BY <1>3, <2>6, <2>7, <2>8, SeqEqual
  <2> QED
    BY <2>1, <2>9 DEF A, T, S, c
<1>6. CASE ~b.full
  <2> DEFINE n == Count(b)
  <2>1. n \in Nat /\ Len(S) = n /\ Len(L) = n /\ Len(S) # N
    BY <1>0, <1>2, <1>4, <1>6
  <2>4. e \in E
    BY DEF E
  <2>5. /\ Len(M) = n + 1 /\ M[n + 1] = e
        /\ \A k \in 1..n : M[k] = L[k]
    BY <1>1, <1>4, <1>6, <2>1, <2>4
  <2> DEFINE A == Append(S, e.size)
  <2>6. /\ A \in Seq(Nat) /\ Len(A) = n + 1 /\ A[n + 1] = e.size
        /\ \A k \in 1..n : A[k] = S[k]
    BY <1>0, <1>2, <2>1
  <2>7. \A k \in 1..n : S[k] = L[k].size
    BY <1>2
  <2> HIDE DEF A, n
  <2>8. Len(T) = n + 1 /\ Count(c) = n + 1
    BY <1>3, <1>4, <2>5
  <2>9. \A k \in 1..(n + 1) : T[k] = A[k]
    <3> SUFFICES ASSUME NEW k \in 1..(n + 1)
                 PROVE  T[k] = A[k]
      OBVIOUS
    <3>1. T[k] = M[k].size
      BY <1>3, <2>8
    <3>2. CASE k = n + 1
      BY <2>5, <2>6, <3>1, <3>2
    <3>3. CASE k # n + 1
      <4>1. k \in 1..n
        BY <2>1, <3>3
      <4> QED
        BY <2>5, <2>6, <2>7, <3>1, <4>1
    <3> QED
      BY <3>2, <3>3
  <2>10. T = A
    BY <1>3, <2>6, <2>8, <2>9, SeqEqual
  <2> QED
    BY <2>1, <2>10 DEF A, T, S, c
<1> QED
  BY <1>5, <1>6

\* The steps that replace an entry lead to the buffer settled on at the copy.
LEMMA SettledKept ==
  ASSUME IInv, IInv', SettledIs, SettledIs', NEW c \in Clients,
         EvictFree(c) \/ EvictClear(c) \/ AddOut(c) \/ AddStore(c)
  PROVE  Settled' = Settled /\ Adding /\ Adding'
<1> DEFINE E == [buffptr : Pointers, size : Nat]
<1>t. cb \in Buffers(E) /\ new_entry \in E /\ TypeOK
  BY BufferTypes DEF IInv, TypeInv, TypeOK, DeviceTypes
<1>1. new_entry' = new_entry /\ mx_lock' = mx_lock
  BY DEF EvictFree, EvictClear, AddOut, AddStore, new_entry
<1>2. mx_lock = c /\ Phase = pc[c]
  BY PhaseInside DEF EvictFree, EvictClear, AddOut, AddStore, EvictPC, AddPC, LockedPC, IInv, LockInv
<1>3. CASE EvictFree(c)
  <2>1. Phase = "evict_free" /\ Phase' = "evict_clear" /\ cb' = cb
    BY <1>t, <1>1, <1>2, <1>3, PhaseNext DEF EvictFree, EvictPC
  <2> QED
    BY <1>1, <2>1 DEF SettledIs, SettledBy, EvictPC
<1>4. CASE EvictClear(c)
  <2>1. Phase = "evict_clear" /\ Phase' = "add_out" /\ cb' = [cb EXCEPT !.entry[cb.in_offs].size = 0]
    BY <1>t, <1>1, <1>2, <1>4, PhaseNext DEF EvictClear, AddPC
  <2>2. Settled = add_entry(cb, new_entry) /\ Settled' = add_entry(cb', new_entry)
    BY <1>1, <2>1 DEF SettledIs, SettledBy, EvictPC
  <2>3. AdvanceOut(cb) \in Buffers(E) /\ AdvanceOut(cb') \in Buffers(E) /\ cb' \in Buffers(E)
    BY <1>t, AdvanceOutFields DEF IInv, TypeInv, TypeOK, DeviceTypes
  <2>4. /\ cb'.in_offs = cb.in_offs /\ cb'.out_offs = cb.out_offs /\ cb'.full = cb.full
        /\ [cb'.entry EXCEPT ![cb.in_offs] = new_entry] = [cb.entry EXCEPT ![cb.in_offs] = new_entry]
    BY <1>t, <2>1 DEF Buffers
  <2>5. /\ add_entry(cb, new_entry) \in Buffers(E) /\ add_entry(cb', new_entry) \in Buffers(E)
        /\ add_entry(cb', new_entry).entry = add_entry(cb, new_entry).entry
        /\ add_entry(cb', new_entry).in_offs = add_entry(cb, new_entry).in_offs
        /\ add_entry(cb', new_entry).out_offs = add_entry(cb, new_entry).out_offs
        /\ add_entry(cb', new_entry).full = add_entry(cb, new_entry).full
    <3> HIDE DEF E
    <3> QED BY <1>t, <2>3, <2>4, AddEntryFields
  <2>6. add_entry(cb', new_entry) = add_entry(cb, new_entry)
    <3> DEFINE x == add_entry(cb, new_entry)
               y == add_entry(cb', new_entry)
    <3> HIDE DEF x, y, E
    <3>1. x \in Buffers(E) /\ y \in Buffers(E) /\ x.entry = y.entry /\ x.in_offs = y.in_offs
          /\ x.out_offs = y.out_offs /\ x.full = y.full
      BY <2>5 DEF x, y
    <3>2. x = y
      BY <3>1 DEF Buffers
    <3> QED
      BY <3>2 DEF x, y
  <2> QED
    BY <2>1, <2>2, <2>6 DEF SettledIs
<1>5. CASE AddOut(c)
  <2>1. Phase = "add_out" /\ Phase' = "add_store" /\ cb' = AdvanceOut(cb)
    BY <1>t, <1>1, <1>2, <1>5, PhaseNext DEF AddOut, AddPC
  <2> QED
    BY <1>1, <2>1 DEF SettledIs, SettledBy, EvictPC, add_entry
<1>6. CASE AddStore(c)
  <2>1. Phase = "add_store" /\ Phase' = "add_in" /\ cb' = StoreEntry(cb, new_entry)
    BY <1>t, <1>1, <1>2, <1>6, PhaseNext DEF AddStore, AddPC
  <2> QED
    BY <1>1, <2>1 DEF SettledIs, SettledBy, EvictPC
<1> QED
  BY <1>3, <1>4, <1>5, <1>6

\* What the copy of n bytes does to the commands and to the bytes that wait.
Copied(n) ==
  \/ Commands' = Commands /\ Pending' = Pending + n
  \/ /\ n > 0
     /\ Commands' = Append(IF Len(Commands) = N THEN Tail(Commands) ELSE Commands, Pending + n)
     /\ Pending' = 0

LEMMA CopyEffect ==
  ASSUME IInv, IInv', SettledIs, SettledIs', NEW c \in Clients, WriteCopy(c), loaded
  PROVE  /\ Commands \in Seq(Nat) /\ Pending \in Nat
         /\ Len(Commands) \in 0..N /\ (cb.full <=> Len(Commands) = N)
         /\ \E n \in Nat : Copied(n) /\ frame' = [frame EXCEPT ![c].retval = n]
<1> DEFINE E == [buffptr : Pointers, size : Nat]
<1>t. cb \in Buffers(E) /\ TypeOK /\ tmp_size \in Nat /\ tmp_nl \in BOOLEAN
      /\ tmp_size' \in Nat /\ tmp_buf' \in Pointers
  BY DEF IInv, TypeInv, TypeOK, DeviceTypes
<1>1. cb' = cb /\ mx_lock = NULL /\ mx_lock' = c /\ loaded' = loaded
  BY DEF WriteCopy
<1>2. Phase = "none"
  BY <1>1, PhaseFree
<1>3. ~tmp_nl /\ OffsetsAgree(cb)
  BY <1>2 DEF IInv, DataInv, PendingInv, OffsetsInv, OffsetsAgree
<1>4. PICK n \in 0..frame[c].count, nl \in BOOLEAN :
        /\ nl => n > 0
        /\ tmp_size' = tmp_size + n
        /\ tmp_nl' = (tmp_nl \/ nl)
        /\ frame' = [frame EXCEPT ![c].retval = n]
        /\ Goto(c, IF tmp_nl' THEN AfterCopy ELSE "write_unlock")
  BY DEF WriteCopy
<1>5. n \in Nat
  <2>1. frame[c] \in WriteFrame
    BY FrameKinds DEF WriteCopy, IInv, TypeInv, TypeOK, FileTypes, WritePC
  <2> QED
    BY <2>1 DEF WriteFrame
<1>6. Commands = SizesOf(cb) /\ Pending = tmp_size
  BY <1>2 DEF SettledIs, SettledBy, Commands, Pending, Sizes, SizesOf, EvictPC
<1>7. Copied(n)
  <2>1. CASE ~tmp_nl'
    <3>1. Phase' = "none"
      BY <1>t, <1>1, <1>4, <2>1, PhaseNext DEF EvictPC, AddPC
    <3>2. Commands' = SizesOf(cb) /\ Pending' = tmp_size'
      BY <1>1, <3>1 DEF SettledIs, SettledBy, Commands, Pending, Sizes, SizesOf, EvictPC
    <3> QED
      BY <1>4, <1>6, <3>2 DEF Copied
  <2>2. CASE tmp_nl'
    <3>1. nl /\ n > 0
      BY <1>3, <1>4, <2>2
    <3>2. Phase' = AfterCopy /\ AfterCopy \in {"evict_free", "add_out"}
      BY <1>t, <1>1, <1>4, <2>2, PhaseNext DEF AfterCopy, EvictPC, AddPC
    <3>3. Settled' = add_entry(cb, new_entry') /\ Adding'
      BY <1>1, <3>2 DEF SettledIs, SettledBy, EvictPC
    <3>4. new_entry' \in E /\ new_entry'.size = tmp_size'
      BY <1>t DEF new_entry
    <3>5. Commands' = SizesOf(add_entry(cb, new_entry')) /\ Pending' = 0
      BY <1>1, <3>3 DEF Commands, Pending, Sizes, SizesOf
    <3>6. Commands' = Append(IF Len(SizesOf(cb)) = N THEN Tail(SizesOf(cb)) ELSE SizesOf(cb),
                             tmp_size')
      BY <1>t, <1>3, <3>4, <3>5, SizesOfAdd
    <3> QED
      BY <1>4, <1>6, <3>1, <3>5, <3>6 DEF Copied
  <2> QED
    BY <2>1, <2>2
<1>8. /\ SizesOf(cb) \in Seq(Nat) /\ Len(SizesOf(cb)) = Count(cb) /\ Count(cb) \in 0..N
      /\ cb.full <=> Count(cb) = N
  BY <1>t, <1>3, SizesOfBuffer
<1> QED
  BY <1>t, <1>4, <1>5, <1>6, <1>7, <1>8

\* The step of a write that the device sees.
LEMMA DeviceWrite ==
  ASSUME IInv, IInv', SettledIs, SettledIs', NEW c \in Clients, WriteCopy(c), loaded
  PROVE  Device!Gather \/ Device!Complete
<1>1. Commands \in Seq(Nat) /\ Pending \in Nat /\ Len(Commands) \in 0..N
  BY CopyEffect
<1>2. PICK n \in Nat : Copied(n)
  BY CopyEffect
<1>3. CASE Commands' = Commands /\ Pending' = Pending + n
  <2>1. Pending' \in Nat /\ Pending' >= Pending
    BY <1>1, <1>2, <1>3
  <2> QED
    BY <1>3, <2>1 DEF Device!Gather, Commands, Pending
<1>4. CASE /\ n > 0
           /\ Commands' = Append(IF Len(Commands) = N THEN Tail(Commands) ELSE Commands, Pending + n)
           /\ Pending' = 0
  <2> DEFINE old == IF Len(Commands) = N THEN Tail(Commands) ELSE Commands
             x == Pending + n
  <2>1. old \in Seq(Nat)
    BY <1>1, NAssumption
  <2>2. x \in Nat /\ x > Pending
    BY <1>1, <1>2, <1>4
  <2>3. Commands' = Append(old, x)
    BY <1>4
  <2>4. Commands'[Len(Commands')] = x
    <3> HIDE DEF old, x
    <3> QED BY <2>1, <2>2, <2>3
  <2>5. Commands' = Append(IF Len(Commands) = N THEN Tail(Commands) ELSE Commands, x)
    BY <2>3
  <2> HIDE DEF x, old
  <2> QED
    BY <1>4, <2>2, <2>4, <2>5 DEF Device!Complete, Commands, Pending
<1> QED
  BY <1>2, <1>3, <1>4 DEF Copied

\* A step of a loaded module other than the copy of a write: the buffer that
\* is settled on stays, and the bytes that wait are those of before, or none
\* when the command they have become is in place.
TmpKept ==
  \/ (Adding' <=> Adding) /\ tmp_size' = tmp_size /\ (tmp_buf' = tmp_buf \/ nomem')
  \/ Adding /\ ~Adding' /\ tmp_size' = 0

LEMMA SettledStays ==
  ASSUME IInv, IInv', SettledIs, SettledIs', [Next]_vars, loaded, loaded',
         ~ \E c \in Clients : WriteCopy(c)
  PROVE  Settled' = Settled /\ TmpKept
<1>t. pc \in [Clients -> Labels] /\ TypeOK
  BY DEF IInv, TypeInv, TypeOK, FileTypes
<1>2. CASE aesd_init_module \/ aesd_cleanup_module
  BY <1>2 DEF aesd_init_module, aesd_cleanup_module
<1>3. ASSUME NEW c \in Clients, LockedStep(c)
      PROVE  Settled' = Settled /\ TmpKept
  <2>2. CASE EvictFree(c) \/ EvictClear(c) \/ AddOut(c) \/ AddStore(c)
    <3>1. tmp_size' = tmp_size /\ tmp_buf' = tmp_buf
      BY <2>2 DEF EvictFree, EvictClear, AddOut, AddStore
    <3> QED
      BY <2>2, <3>1, SettledKept DEF TmpKept
  <2>3. CASE AddIn(c)
    <3>1. mx_lock = c /\ Phase = "add_in"
      BY <2>3, PhaseInside DEF AddIn, EvictPC, AddPC, LockedPC, IInv, LockInv
    <3>2. Phase' = "none" /\ cb' = AdvanceIn(cb) /\ tmp_size' = 0
      BY <1>t, <2>3, <3>1, PhaseNext DEF AddIn, EvictPC, AddPC
    <3>3. Settled' = Settled /\ Adding /\ ~Adding'
      BY <3>1, <3>2 DEF SettledIs, SettledBy, EvictPC
    <3> QED
      BY <3>2, <3>3 DEF TmpKept
  <2>4. CASE WriteAllocFails(c) \/ WriteUnlock(c) \/ IoctlLock(c) \/ IoctlLoop(c) \/ IoctlEntry(c)
    <3>1. cb' = cb /\ tmp_size' = tmp_size /\ (tmp_buf' = tmp_buf \/ nomem')
      BY <2>4 DEF WriteAllocFails, WriteUnlock, IoctlLock, IoctlLoop, IoctlEntry, device
    <3>2. Phase = "none"
      <4>1. mx_lock = NULL \/ (pc[c] \in LockedPC /\ pc[c] \notin EvictPC \cup AddPC)
        BY <2>4 DEF WriteAllocFails, WriteUnlock, IoctlLock, IoctlLoop, IoctlEntry,
           LockedPC, EvictPC, AddPC
      <4> QED
        BY <4>1, PhaseFree, PhaseInside DEF IInv, LockInv
    <3>3. Phase' = "none"
      <4>1. pc'[c] \notin EvictPC \cup AddPC
        BY <1>t, <2>4 DEF WriteAllocFails, WriteUnlock, IoctlLock, IoctlLoop, IoctlEntry,
           Goto, Return, EvictPC, AddPC
      <4>2. mx_lock' \in {c, NULL}
        BY <1>3, LockedAlone
      <4> QED
        BY <4>1, <4>2, ClientAssumption DEF Phase
    <3>4. Settled' = Settled /\ ~Adding /\ ~Adding'
      BY <3>1, <3>2, <3>3 DEF SettledIs, SettledBy, EvictPC
    <3> QED
      BY <3>1, <3>4 DEF TmpKept
  <2> QED
    BY <1>3, <2>2, <2>3, <2>4 DEF LockedStep
<1>4. CASE Quiet
  <2>1. Phase' = Phase
    BY <1>4, QuietPhase
  <2>2. UNCHANGED <<loaded, cb, tmp_size, tmp_buf>>
    BY <1>4 DEF Quiet, device
  <2>3. Settled' = Settled /\ (Adding' <=> Adding)
    BY <2>1, <2>2 DEF SettledIs, new_entry
  <2> QED
    BY <2>2, <2>3 DEF TmpKept
<1> QED
  BY <1>t, <1>2, <1>3, <1>4, StepKinds

\* Such a step changes nothing that the device of commands shows.
LEMMA DeviceUnchanged ==
  ASSUME IInv, IInv', SettledIs, SettledIs', [Next]_vars, loaded, loaded',
         ~ \E c \in Clients : WriteCopy(c)
  PROVE  UNCHANGED <<Commands, Pending>>
<1>1. Settled' = Settled /\ TmpKept
  BY SettledStays
<1>2. Sizes' = Sizes
  BY <1>1 DEF Sizes
<1>3. Pending' = Pending
  BY <1>1 DEF TmpKept, Pending
<1> QED
  BY <1>2, <1>3 DEF Commands

LEMMA DeviceStep ==
  ASSUME IInv, IInv', SettledIs, SettledIs', [Next]_vars
  PROVE  Device!Next \/ UNCHANGED <<Commands, Pending>>
<1>t. pc \in [Clients -> Labels] /\ TypeOK
  BY DEF IInv, TypeInv, TypeOK, FileTypes
<1>1. CASE aesd_init_module
  <2>1. ~Adding' /\ cb' = EmptyBuffer /\ tmp_size' = 0
    BY <1>1 DEF aesd_init_module, files, Adding, IInv, LockInv, UnloadedClosed, EvictPC, AddPC
  <2>2. Settled' = EmptyBuffer
    BY <2>1 DEF SettledIs, SettledBy, EvictPC
  <2>3. Sizes' = << >>
    <3>1. Count(EmptyBuffer) = 0
      BY NAssumption DEF Count, EmptyBuffer
    <3>2. Sizes' = [k \in 1..0 |-> LogOf(Settled)'[k].size]
      BY <2>2, <3>1 DEF Sizes
    <3> QED
      BY <3>2
  <2> QED
    BY <2>1, <2>3 DEF Device!Next, Device!Reset
<1>2. CASE aesd_cleanup_module
  BY <1>2 DEF aesd_cleanup_module, Device!Next, Device!Reset
<1>3. ASSUME loaded, loaded'
      PROVE  Device!Next \/ UNCHANGED <<Commands, Pending>>
  <2>1. ASSUME NEW c \in Clients, WriteCopy(c)
        PROVE  Device!Next
    BY <1>3, <2>1, DeviceWrite DEF Device!Next
  <2>2. CASE ~ \E c \in Clients : WriteCopy(c)
    BY <1>3, <2>2, DeviceUnchanged
  <2> QED
    BY <2>1, <2>2
<1>4. loaded' = loaded \/ aesd_init_module \/ aesd_cleanup_module
  <2>1. ASSUME NEW c \in Clients, LockedStep(c)
        PROVE  loaded' = loaded
    BY <2>1, LockedAlone
  <2> QED
    BY <1>t, <2>1, StepKinds DEF Quiet
<1>5. CASE ~loaded /\ ~loaded'
  BY <1>5 DEF Commands, Pending
<1> QED
  BY <1>1, <1>2, <1>3, <1>4, <1>5

(***************************************************************************)
(* The driver implements the device of commands, for any number of slots,  *)
(* clients and addresses: each write takes effect at once, at the copy     *)
(* under the lock, although its entry reaches the buffer store by store,   *)
(* and nothing else changes the commands and the bytes that wait.          *)
(***************************************************************************)
THEOREM DriverImplementsDevice == Spec => CommandSpec
<1>1. Init => Device!Init
  BY DEF Init, Device!Init
<1>2. IInv /\ IInv' /\ [Next]_vars => [Device!Next]_<<Commands, Pending>>
  BY DeviceStep, SettledByPhase, SettledNext
<1>3. [Device!Next]_<<Commands, Pending>> =>
        [Device!Next]_<<IF loaded THEN Sizes ELSE << >>,
                        IF loaded /\ ~Adding THEN tmp_size ELSE 0>>
  BY DEF Commands, Pending
<1> QED
  BY <1>1, <1>2, <1>3, DriverInductive, PTL DEF Spec, CommandSpec, Device!Spec

-----------------------------------------------------------------------------
(* Reads and seeks against the search, until the buffer is full.           *)

\* Until the buffer is full a step adds entries behind those that it keeps.
LEMMA GrowStep ==
  ASSUME IInv, IInv', [Next]_vars, loaded, ~cb'.full, loaded'
  PROVE  /\ ~cb.full
         /\ cb.in_offs \in Slots /\ cb'.in_offs \in Slots /\ cb.in_offs <= cb'.in_offs
         /\ cb.out_offs = 0 /\ cb'.out_offs = 0
         /\ \A i \in Slots : /\ cb.entry[i].size \in Nat /\ cb'.entry[i].size \in Nat
                             /\ cb.entry[i].size > 0 => cb'.entry[i] = cb.entry[i]
                             /\ i < cb.in_offs => cb.entry[i].size > 0
<1>t. TypeOK /\ TypeOK' /\ LockHeldInside /\ DataInv /\ DataInv'
  BY DEF IInv, TypeInv, LockInv
<1>1. /\ cb.in_offs \in Slots
      /\ Advance(cb.in_offs) = IF cb.in_offs + 1 = N THEN 0 ELSE cb.in_offs + 1
      /\ \A i \in Slots : cb.entry[i].size \in Nat
      /\ cb'.in_offs \in Slots
      /\ \A i \in Slots : cb'.entry[i].size \in Nat
  <2>1. /\ cb.in_offs \in Slots
        /\ Advance(cb.in_offs) = IF cb.in_offs + 1 = N THEN 0 ELSE cb.in_offs + 1
        /\ \A i \in Slots : cb.entry[i].size \in Nat
    BY <1>t, SlotFacts
  <2>2. cb' \in Buffers([buffptr : Pointers, size : Nat])
    BY <1>t DEF TypeOK, DeviceTypes
  <2> QED
    BY <2>1, <2>2 DEF Buffers
<1>2. cb'.out_offs = 0
  BY <1>t DEF DataInv, OffsetsInv
<1>k. ASSUME cb' = cb
      PROVE  /\ ~cb.full /\ cb.in_offs <= cb'.in_offs
             /\ \A i \in Slots : cb'.entry[i] = cb.entry[i]
  BY <1>1, <1>k DEF Slots
<1>3. /\ ~cb.full /\ cb.in_offs <= cb'.in_offs
      /\ \A i \in Slots : cb.entry[i].size > 0 => cb'.entry[i] = cb.entry[i]
  <2>1. CASE aesd_init_module \/ aesd_cleanup_module
    BY <2>1 DEF aesd_init_module, aesd_cleanup_module
  <2>2. CASE Quiet
    BY <1>k, <2>2 DEF Quiet, device
  <2>3. ASSUME NEW c \in Clients, LockedStep(c)
        PROVE  /\ ~cb.full /\ cb.in_offs <= cb'.in_offs
               /\ \A i \in Slots : cb.entry[i].size > 0 => cb'.entry[i] = cb.entry[i]
    <3> DEFINE E == [buffptr : Pointers, size : Nat]
    <3>b. cb \in Buffers(E) /\ new_entry \in E
      BY <1>t, BufferTypes DEF TypeOK, DeviceTypes
    <3>1. CASE EvictClear(c)
      <4>1. pc[c] \in LockedPC /\ pc[c] \in EvictPC
        BY <3>1 DEF EvictClear, LockedPC, EvictPC
      <4>2. Phase \in EvictPC
        BY <1>t, <4>1, PhaseInside
      <4>3. cb.full
        BY <1>t, <4>2 DEF DataInv, PendingInv
      <4>4. cb'.full = cb.full
        BY <3>1, <3>b DEF EvictClear, Buffers
      <4> QED
        BY <4>3, <4>4
    <3>2. CASE AddOut(c)
      <4>1. cb' = AdvanceOut(cb)
        BY <3>2 DEF AddOut
      <4>2. cb'.full = cb.full
        <5> HIDE DEF E
        <5> QED BY <3>b, <4>1, AdvanceOutFields
      <4>3. cb' = cb
        BY <4>1, <4>2 DEF AdvanceOut
      <4> QED
        BY <1>k, <4>3
    <3>3. CASE AddStore(c)
      <4>1. cb' = StoreEntry(cb, new_entry)
        BY <3>3 DEF AddStore
      <4>2. /\ cb'.full = cb.full /\ cb'.in_offs = cb.in_offs
            /\ cb'.entry = [cb.entry EXCEPT ![cb.in_offs] = new_entry]
        <5> HIDE DEF E
        <5> QED BY <3>b, <4>1, StoreEntryFields
      <4>3. Phase = "add_store"
        BY <1>t, <3>3, PhaseInside DEF AddStore, LockedPC, AddPC
      <4>4. ~ (cb.entry[cb.in_offs].size > 0)
        BY <1>1, <1>t, <4>3 DEF DataInv, EntriesInv, InUse
      <4>5. cb.entry \in [Slots -> E]
        <5> HIDE DEF E
        <5> QED BY <3>b DEF Buffers
      <4>6. \A i \in Slots : i # cb.in_offs => cb'.entry[i] = cb.entry[i]
        <5> HIDE DEF E
        <5> QED BY <4>2, <4>5
      <4>7. cb.in_offs <= cb'.in_offs
        BY <1>1, <4>2 DEF Slots
      <4> QED
        BY <4>2, <4>4, <4>6, <4>7
    <3>4. CASE AddIn(c)
      <4>1. cb' = AdvanceIn(cb)
        BY <3>4 DEF AddIn
      <4>2. /\ cb'.entry = cb.entry /\ cb'.in_offs = Advance(cb.in_offs)
            /\ cb'.out_offs = cb.out_offs
            /\ cb'.full = (cb.full \/ Advance(cb.in_offs) = cb.out_offs)
        <5> HIDE DEF E
        <5> QED BY <3>b, <4>1, AdvanceInFields
      <4>3. ~cb.full /\ Advance(cb.in_offs) # 0
        BY <1>2, <4>2
      <4>4. cb'.in_offs = cb.in_offs + 1
        BY <1>1, <4>2, <4>3
      <4>5. cb.in_offs <= cb'.in_offs
        BY <1>1, <4>4, NAssumption DEF Slots
      <4> QED
        BY <4>2, <4>3, <4>5
    <3>5. CASE ~EvictClear(c) /\ ~AddOut(c) /\ ~AddStore(c) /\ ~AddIn(c)
      <4>1. cb' = cb
        BY <2>3, <3>5 DEF LockedStep, WriteCopy, WriteAllocFails, EvictFree, WriteUnlock,
           IoctlLock, IoctlLoop, IoctlEntry, device
      <4> QED
        BY <1>k, <4>1
    <3> QED
      BY <3>1, <3>2, <3>3, <3>4, <3>5
  <2> QED
    BY <1>t, <2>1, <2>2, <2>3, StepKinds
<1>4. cb.out_offs = 0
  BY <1>3, <1>t DEF DataInv, OffsetsInv
<1>5. \A i \in Slots : i < cb.in_offs => cb.entry[i].size > 0
  <2>1. Phase \in {"none", "evict_free", "evict_clear", "add_out", "add_store", "add_in"}
    BY DEF Phase, EvictPC, AddPC
  <2>2. \A i \in Slots : i < cb.in_offs => i # cb.in_offs /\ i <= cb.in_offs
    BY <1>1, NAssumption DEF Slots
  <2>3. \A i \in Slots : i < cb.in_offs => InUse(i)
    BY <2>1, <2>2 DEF InUse
  <2> QED
    BY <1>t, <2>3 DEF DataInv, EntriesInv
<1> QED
  BY <1>1, <1>2, <1>3, <1>4, <1>5

\* A step of one client leaves the label, the frame and the file of another.
LEMMA OtherClient ==
  ASSUME TypeOK, NEW c \in Clients, NEW d \in Clients, d # c,
         Call(d) \/ Step(d) \/ Acquire(d) \/ Interrupted(d)
  PROVE  pc'[c] = pc[c] /\ frame'[c] = frame[c] /\ f_pos'[c] = f_pos[c]
<1>t. /\ pc \in [Clients -> Labels] /\ frame \in [Clients -> AnyFrame]
      /\ f_pos \in [Clients -> Nat]
  BY DEF TypeOK, FileTypes
<1>1. CASE Call(d)
  <2>1. f_pos'[c] = f_pos[c]
    BY <1>t, <1>1 DEF Call, aesd_open, aesd_release, aesd_read, aesd_write,
       aesd_llseek, aesd_ioctl
  <2>2. (\E r : Return(d, r)) \/ \E l, f : Enter(d, l, f)
    BY <1>1 DEF Call, aesd_open, aesd_release, aesd_read, aesd_write,
       aesd_llseek, aesd_ioctl
  <2> QED
    BY <1>t, <2>1, <2>2 DEF Return, Enter, Goto
<1>2. CASE Step(d)
  <2>1. CASE ReadFind(d) \/ ReadLength(d) \/ ReadCopy(d)
    BY <1>t, <2>1 DEF ReadFind, ReadLength, ReadCopy, Return, Goto
  <2>2. CASE EvictFree(d) \/ EvictClear(d) \/ AddOut(d) \/ AddStore(d) \/ AddIn(d)
    BY <1>t, <2>2 DEF EvictFree, EvictClear, AddOut, AddStore, AddIn, Goto
  <2>3. CASE WriteUnlock(d) \/ SizeLoad(d) \/ SizeStore(d)
    BY <1>t, <2>3 DEF WriteUnlock, SizeLoad, SizeStore, Return, Goto
  <2>4. CASE IoctlLoop(d) \/ IoctlEntry(d)
    BY <1>t, <2>4 DEF IoctlLoop, IoctlEntry, Return, Goto
  <2> QED
    BY <1>2, <2>1, <2>2, <2>3, <2>4 DEF Step
<1>3. CASE Acquire(d)
  BY <1>t, <1>3 DEF Acquire, WriteCopy, WriteAllocFails, IoctlLock, Return, Goto
<1>4. CASE Interrupted(d)
  BY <1>t, <1>4 DEF Interrupted, Return, Goto
<1> QED
  BY <1>1, <1>2, <1>3, <1>4

\* A reader is changed by the steps of its own call only.
LEMMA ReaderStep ==
  ASSUME TypeOK, [Next]_vars, NEW c \in Clients, pc'[c] \in ReadPC
  PROVE  \/ pc'[c] = pc[c] /\ frame'[c] = frame[c] /\ f_pos'[c] = f_pos[c]
         \/ \E count \in ReadCounts : aesd_read(c, count)
         \/ ReadFind(c)
         \/ ReadLength(c)
<1> DEFINE Stays == pc'[c] = pc[c] /\ frame'[c] = frame[c] /\ f_pos'[c] = f_pos[c]
<1>t. /\ pc \in [Clients -> Labels] /\ frame \in [Clients -> AnyFrame]
      /\ f_pos \in [Clients -> Nat]
  BY DEF TypeOK, FileTypes
<1>r. /\ ReadPC = {"read_find", "read_length", "read_copy"}
      /\ \A l \in {"idle", "closed"} \cup WritePC \cup IoctlPC : l \notin ReadPC
  BY DEF ReadPC, WritePC, IoctlPC, AddPC, EvictPC
<1>o. ASSUME NEW d \in Clients, NEW label, Goto(d, label), label \notin ReadPC
      PROVE  d # c
  BY <1>o, <1>t DEF Goto
<1>1. CASE aesd_init_module \/ aesd_cleanup_module \/ UNCHANGED vars
  BY <1>1 DEF aesd_init_module, aesd_cleanup_module, files, vars
<1>2. ASSUME NEW d \in Clients, d # c, Call(d) \/ Step(d) \/ Acquire(d) \/ Interrupted(d)
      PROVE  Stays
  BY <1>2, OtherClient
<1>3. ASSUME Call(c)
      PROVE  \E count \in ReadCounts : aesd_read(c, count)
  <2>1. ASSUME aesd_open(c) \/ aesd_release(c)
        PROVE  FALSE
    BY <1>o, <1>r, <2>1 DEF aesd_open, aesd_release, Return, Enter
  <2>2. ASSUME NEW count \in WriteCounts, aesd_write(c, count)
        PROVE  FALSE
    BY <1>o, <1>r, <2>2 DEF aesd_write, Return, Enter, WritePC
  <2>3. ASSUME NEW off \in SeekOffsets, aesd_llseek(c, off)
        PROVE  FALSE
    BY <1>o, <1>r, <2>3 DEF aesd_llseek, Return
  <2>4. ASSUME NEW seek_cmd \in SeekCmds, aesd_ioctl(c, seek_cmd)
        PROVE  FALSE
    BY <1>o, <1>r, <2>4 DEF aesd_ioctl, Return, Enter, IoctlPC
  <2> QED
    BY <1>3, <2>1, <2>2, <2>3, <2>4 DEF Call
<1>4. ASSUME Step(c)
      PROVE  ReadFind(c) \/ ReadLength(c)
  <2>1. ASSUME ReadCopy(c) \/ SizeStore(c) \/ IoctlEntry(c)
        PROVE  FALSE
    BY <1>o, <1>r, <2>1 DEF ReadCopy, SizeStore, IoctlEntry, Return
  <2>2. ASSUME EvictFree(c) \/ EvictClear(c) \/ AddOut(c) \/ AddStore(c) \/ AddIn(c)
        PROVE  FALSE
    BY <1>o, <1>r, <2>2 DEF EvictFree, EvictClear, AddOut, AddStore, AddIn, WritePC, AddPC, EvictPC
  <2>3. ASSUME WriteUnlock(c) \/ SizeLoad(c)
        PROVE  FALSE
    BY <1>o, <1>r, <2>3 DEF WriteUnlock, SizeLoad, WritePC
  <2>4. ASSUME IoctlLoop(c)
        PROVE  FALSE
    BY <1>o, <1>r, <2>4 DEF IoctlLoop, IoctlPC
  <2> QED
    BY <1>4, <2>1, <2>2, <2>3, <2>4 DEF Step
<1>5. ASSUME Acquire(c) \/ Interrupted(c)
      PROVE  FALSE
  <2>1. ASSUME WriteCopy(c)
        PROVE  FALSE
    <3>1. \E l \in WritePC : Goto(c, l)
      BY <2>1 DEF WriteCopy, AfterCopy, WritePC, AddPC, EvictPC
    <3> QED
      BY <1>o, <1>r, <3>1
  <2>2. ASSUME WriteAllocFails(c) \/ Interrupted(c)
        PROVE  FALSE
    BY <1>o, <1>r, <2>2 DEF WriteAllocFails, Interrupted, Return
  <2>3. ASSUME IoctlLock(c)
        PROVE  FALSE
    BY <1>o, <1>r, <2>3 DEF IoctlLock, IoctlPC
  <2> QED
    BY <1>5, <2>1, <2>2, <2>3 DEF Acquire
<1> QED
  BY <1>1, <1>2, <1>3, <1>4, <1>5 DEF Next

(***************************************************************************)
(* A read that runs while the buffer is not yet full: what it has counted  *)
(* are the bytes before its slot, if the device held a command when the    *)
(* search began, and its target lies in the entry in any case.             *)
(***************************************************************************)
ReadGood(c) ==
  LET f == frame[c]
      e == cb.entry[f.current_offset]
  IN
  /\ f.in_offs <= cb.in_offs
  /\ pc[c] # "read_find" => f.entry_off < e.size
  /\ pc[c] = "read_copy" => f.entry_off + f.read_length <= e.size
  /\ f.in_offs # 0 =>
       /\ f.current_offset < f.in_offs \/ (f.load = "each" /\ f.current_offset < cb.in_offs)
       /\ f.total_chars = TotalFn(cb)[f.current_offset]
       /\ pc[c] # "read_find" => f_pos[c] = f.total_chars + f.entry_off

ReadInv ==
  loaded /\ ~cb.full => \A c \in Clients : pc[c] \in ReadPC => ReadGood(c)

LEMMA ReadKept ==
  ASSUME IInv, IInv', [Next]_vars, ReadInv, loaded, ~cb'.full, loaded',
         NEW c \in Clients, pc[c] \in ReadPC,
         pc'[c] = pc[c], frame'[c] = frame[c], f_pos'[c] = f_pos[c]
  PROVE  ReadGood(c)'
<1> DEFINE f == frame[c]
           cur == f.current_offset
<1>t. f \in ReadFrame
  BY FrameKinds DEF IInv, TypeInv, TypeOK, FileTypes
<1>f. /\ cur \in Slots /\ f.in_offs \in Slots /\ f.entry_off \in Nat /\ f.read_length \in Nat
      /\ \A s \in Slots : s \in Nat /\ s \in 0..N
  BY <1>t, NAssumption DEF ReadFrame, Slots
<1>1. /\ ~cb.full
      /\ cb.in_offs \in Slots /\ cb'.in_offs \in Slots /\ cb.in_offs <= cb'.in_offs
      /\ cb.out_offs = 0 /\ cb'.out_offs = 0
      /\ \A i \in Slots : /\ cb.entry[i].size \in Nat /\ cb'.entry[i].size \in Nat
                          /\ cb.entry[i].size > 0 => cb'.entry[i] = cb.entry[i]
                          /\ i < cb.in_offs => cb.entry[i].size > 0
  BY GrowStep
<1>2. ReadGood(c)
  BY <1>1 DEF ReadInv
<1> HIDE DEF f
<1>3. /\ f.in_offs <= cb.in_offs
      /\ pc[c] # "read_find" => f.entry_off < cb.entry[cur].size
      /\ pc[c] = "read_copy" => f.entry_off + f.read_length <= cb.entry[cur].size
      /\ f.in_offs # 0 =>
           /\ cur < f.in_offs \/ (f.load = "each" /\ cur < cb.in_offs)
           /\ f.total_chars = TotalFn(cb)[cur]
           /\ pc[c] # "read_find" => f_pos[c] = f.total_chars + f.entry_off
  BY <1>2 DEF ReadGood, f
<1>4. f.in_offs <= cb'.in_offs
  BY <1>1, <1>3, <1>f
<1>5. pc[c] # "read_find" => cb'.entry[cur] = cb.entry[cur]
  <2>1. pc[c] # "read_find" => cb.entry[cur].size > 0
    BY <1>1, <1>3, <1>f
  <2> QED
    BY <1>1, <1>f, <2>1
<1>6. pc[c] = "read_copy" => pc[c] # "read_find"
  OBVIOUS
<1>7. ASSUME f.in_offs # 0
      PROVE  /\ cur < f.in_offs \/ (f.load = "each" /\ cur < cb'.in_offs)
             /\ f.total_chars = TotalFn(cb')[cur]
  <2>1. cur < f.in_offs \/ (f.load = "each" /\ cur < cb'.in_offs)
    BY <1>1, <1>3, <1>7, <1>f
  <2>2. cur < cb.in_offs
    BY <1>1, <1>3, <1>7, <1>f
  <2>3. \A s \in Slots : s < cb.in_offs => cb'.entry[s].size = cb.entry[s].size
    BY <1>1
  <2>4. TotalFn(cb')[cur] = TotalFn(cb)[cur]
    <3>1. /\ \A s \in Slots : cb.entry[s].size \in Nat
          /\ \A s \in Slots : cb'.entry[s].size \in Nat
          /\ cb.in_offs \in 0..N /\ cur \in 0..N /\ cur <= cb.in_offs
      BY <1>1, <1>f, <2>2
    <3>2. \A k \in 0..N : k <= cb.in_offs => TotalFn(cb')[k] = TotalFn(cb)[k]
      BY <1>1, <2>3, <3>1, TotalsAgree
    <3> QED
      BY <3>1, <3>2
  <2> QED
    BY <1>3, <1>7, <2>1, <2>4
<1> QED
  BY <1>3, <1>4, <1>5, <1>6, <1>7 DEF ReadGood, f

LEMMA ReadStep ==
  ASSUME IInv, IInv', [Next]_vars, ReadInv
  PROVE  ReadInv'
<1> SUFFICES ASSUME loaded', ~cb'.full, NEW c \in Clients, pc'[c] \in ReadPC
             PROVE  ReadGood(c)'
  BY DEF ReadInv
<1>t. /\ TypeOK /\ pc \in [Clients -> Labels] /\ frame \in [Clients -> AnyFrame]
      /\ \A d \in Clients : frame[d] \in Frames(pc[d])
      /\ f_pos \in [Clients -> Nat]
      /\ pc[c] = "read_find" => frame[c].total_chars <= f_pos[c]
  BY DEF IInv, TypeInv, TypeOK, FileTypes, SearchBehind
<1>r. ReadPC = {"read_find", "read_length", "read_copy"} /\ "closed" \notin ReadPC
  BY DEF ReadPC
<1>o. \/ pc'[c] = pc[c] /\ frame'[c] = frame[c] /\ f_pos'[c] = f_pos[c]
      \/ \E count \in ReadCounts : aesd_read(c, count)
      \/ ReadFind(c)
      \/ ReadLength(c)
  BY <1>t, ReaderStep
<1>l. loaded
  <2>1. pc[c] # "closed"
    BY <1>o, <1>r DEF aesd_read, ReadFind, ReadLength
  <2> QED
    BY <2>1 DEF IInv, LockInv, UnloadedClosed
<1>1. /\ ~cb.full
      /\ cb.in_offs \in Slots /\ cb'.in_offs \in Slots /\ cb.in_offs <= cb'.in_offs
      /\ cb.out_offs = 0 /\ cb'.out_offs = 0
      /\ \A i \in Slots : /\ cb.entry[i].size \in Nat /\ cb'.entry[i].size \in Nat
                          /\ cb.entry[i].size > 0 => cb'.entry[i] = cb.entry[i]
                          /\ i < cb.in_offs => cb.entry[i].size > 0
  BY <1>l, GrowStep
<1>s. \A i \in Slots : i \in Nat
  BY NAssumption DEF Slots
<1>2. TotalFn(cb)[0] = 0 /\ \A k \in Slots : TotalFn(cb)[k + 1] = TotalFn(cb)[k] + cb.entry[k].size
  BY <1>1, PrefixTotals
<1>3. CASE pc'[c] = pc[c] /\ frame'[c] = frame[c] /\ f_pos'[c] = f_pos[c]
  BY <1>3, <1>l, ReadKept
<1>4. ASSUME NEW count \in ReadCounts, aesd_read(c, count)
      PROVE  ReadGood(c)'
  <2>1. pc'[c] # "idle"
    BY <1>r
  <2>2. PICK f \in FreshReadFrames(count) : Enter(c, "read_find", f)
    BY <1>4, <1>t, <2>1 DEF aesd_read, Return, Goto
  <2>3. pc'[c] = "read_find" /\ frame'[c] = f /\ cb' = cb
    BY <1>4, <1>t, <2>2 DEF aesd_read, Enter, Goto, device
  <2>4. /\ f.in_offs = cb.in_offs /\ f.current_offset = 0 /\ f.total_chars = 0
    BY <1>1 DEF FreshReadFrames
  <2>5. cb.in_offs # 0 => 0 < cb.in_offs
    BY <1>1, <1>s
  <2>6. cb.in_offs <= cb.in_offs
    BY <1>1, <1>s
  <2> QED
    BY <1>2, <2>3, <2>4, <2>5, <2>6 DEF ReadGood
<1>5. CASE ReadFind(c)
  <2> DEFINE f == frame[c]
             cur == f.current_offset
  <2>0. pc[c] = "read_find" /\ pc[c] \in ReadPC
    BY <1>5, <1>r DEF ReadFind
  <2>1. f \in ReadFrame
    BY <1>t, <2>0, FrameKinds
  <2>2. /\ cur \in Slots /\ f.in_offs \in Slots /\ f.total_chars \in Nat /\ f_pos[c] \in Nat
        /\ f.load \in {"once", "each"} /\ f.total_chars <= f_pos[c]
    BY <1>t, <2>0, <2>1 DEF ReadFrame
  <2>3. ReadGood(c)
    BY <1>1, <1>l, <2>0 DEF ReadInv
  <2>4. cb' = cb /\ f_pos' = f_pos
    BY <1>5 DEF ReadFind, device
  <2>5. CASE Hit(cb, cur, f.total_chars, f_pos[c])
    <3>1. /\ frame' = [frame EXCEPT ![c].entry_off = f_pos[c] - f.total_chars]
          /\ Goto(c, "read_length")
      BY <1>5, <2>5 DEF ReadFind
    <3>2. frame'[c] = [f EXCEPT !.entry_off = f_pos[c] - f.total_chars] /\ pc'[c] = "read_length"
      BY <1>t, <3>1 DEF Goto
    <3>3. /\ frame'[c].current_offset = cur /\ frame'[c].in_offs = f.in_offs
          /\ frame'[c].total_chars = f.total_chars /\ frame'[c].load = f.load
          /\ frame'[c].entry_off = f_pos[c] - f.total_chars
      BY <2>1, <3>2 DEF ReadFrame
    <3>4. f_pos[c] - f.total_chars < cb.entry[cur].size
      <4>1. f.total_chars + cb.entry[cur].size > f_pos[c]
        BY <2>5 DEF Hit
      <4>2. cb.entry[cur].size \in Nat
        BY <1>1, <2>2
      <4> QED
        BY <2>2, <4>1, <4>2
    <3>5. f_pos[c] = f.total_chars + (f_pos[c] - f.total_chars)
      BY <2>2
    <3> HIDE DEF f
    <3> QED
      BY <2>0, <2>3, <2>4, <3>2, <3>3, <3>4, <3>5 DEF ReadGood, f
  <2>6. CASE ~Hit(cb, cur, f.total_chars, f_pos[c])
    <3>1. NextSlot(cur) # IF f.load = "once" THEN f.in_offs ELSE cb.in_offs
      BY <1>5, <1>r, <1>t, <2>6 DEF ReadFind, Return, Goto
    <3>2. /\ frame' = [frame EXCEPT ![c].current_offset = NextSlot(cur),
                                    ![c].total_chars = @ + cb.entry[cur].size]
          /\ pc'[c] = "read_find"
      BY <1>5, <2>0, <2>6, <3>1 DEF ReadFind
    <3>3. frame'[c] = [f EXCEPT !.current_offset = NextSlot(cur),
                                !.total_chars = @ + cb.entry[cur].size]
      BY <1>t, <3>2
    <3>4. /\ frame'[c].current_offset = NextSlot(cur) /\ frame'[c].in_offs = f.in_offs
          /\ frame'[c].total_chars = f.total_chars + cb.entry[cur].size
          /\ frame'[c].load = f.load
      BY <2>1, <3>3 DEF ReadFrame
    <3>5. NextSlot(cur) = IF cur + 1 = N THEN 0 ELSE cur + 1
      BY <2>2, NextSlotIs
    <3> HIDE DEF f
    <3>6. /\ f.in_offs <= cb.in_offs
          /\ f.in_offs # 0 =>
               /\ cur < f.in_offs \/ (f.load = "each" /\ cur < cb.in_offs)
               /\ f.total_chars = TotalFn(cb)[cur]
      BY <2>3 DEF ReadGood, f
    <3>7. ASSUME f.in_offs # 0
          PROVE  /\ NextSlot(cur) < f.in_offs \/ (f.load = "each" /\ NextSlot(cur) < cb.in_offs)
                 /\ f.total_chars + cb.entry[cur].size = TotalFn(cb)[NextSlot(cur)]
      <4>1. cur < cb.in_offs
        BY <1>1, <1>s, <2>2, <3>6, <3>7
      <4>2. cur + 1 # N
        BY <1>1, <2>2, <4>1, NAssumption DEF Slots
      <4>3. NextSlot(cur) = cur + 1
        BY <3>5, <4>2
      <4>4. TotalFn(cb)[cur + 1] = TotalFn(cb)[cur] + cb.entry[cur].size
        BY <1>2, <2>2
      <4>5. CASE f.load = "once"
        BY <1>1, <1>s, <2>2, <3>1, <3>6, <3>7, <4>3, <4>4, <4>5
      <4>6. CASE f.load = "each"
        BY <1>1, <1>s, <2>2, <3>1, <3>6, <3>7, <4>1, <4>3, <4>4, <4>6
      <4> QED
        BY <2>2, <4>5, <4>6 DEF f
    <3> QED
      BY <2>4, <3>2, <3>4, <3>6, <3>7 DEF ReadGood
  <2> QED
    BY <2>5, <2>6
<1>6. CASE ReadLength(c)
  <2> DEFINE f == frame[c]
             cur == f.current_offset
             rest == SizeSub(cb.entry[cur].size, f.entry_off)
             length == IF rest > f.count THEN f.count ELSE rest
  <2>0. pc[c] = "read_length" /\ pc[c] \in ReadPC
    BY <1>6, <1>r DEF ReadLength
  <2>1. f \in ReadFrame
    BY <1>t, <2>0, FrameKinds
  <2>2. cur \in Slots /\ f.entry_off \in Nat /\ f.count \in Nat
    BY <2>1 DEF ReadFrame
  <2>3. ReadGood(c)
    BY <1>1, <1>l, <2>0 DEF ReadInv
  <2>4. cb' = cb /\ f_pos' = f_pos
    BY <1>6 DEF ReadLength, device
  <2>5. frame'[c] = [f EXCEPT !.read_length = length] /\ pc'[c] = "read_copy"
    BY <1>6, <1>t DEF ReadLength, Goto
  <2>6. /\ frame'[c].current_offset = cur /\ frame'[c].in_offs = f.in_offs
        /\ frame'[c].total_chars = f.total_chars /\ frame'[c].load = f.load
        /\ frame'[c].entry_off = f.entry_off /\ frame'[c].read_length = length
    BY <2>1, <2>5 DEF ReadFrame
  <2>7. f.entry_off < cb.entry[cur].size /\ cb.entry[cur].size \in Nat
    BY <1>1, <2>0, <2>2, <2>3 DEF ReadGood
  <2>8. f.entry_off + length <= cb.entry[cur].size
    <3> DEFINE x == cb.entry[cur].size - f.entry_off
    <3>1. x \in Nat /\ f.entry_off + x = cb.entry[cur].size
      BY <2>2, <2>7
    <3>2. SIZE_MOD \in Nat \ {0}
      BY InputAssumption
    <3>3. rest = x % SIZE_MOD
      BY DEF SizeSub
    <3> HIDE DEF x, rest
    <3>4. rest \in Nat /\ rest <= x
      BY <3>1, <3>2, <3>3
    <3>5. length \in Nat /\ length <= x
      BY <2>2, <3>1, <3>4
    <3> HIDE DEF length
    <3> QED
      BY <2>2, <3>1, <3>5
  <2> HIDE DEF f, length
  <2> QED
    BY <2>0, <2>3, <2>4, <2>5, <2>6, <2>7, <2>8 DEF ReadGood, f
<1> QED
  BY <1>3, <1>4, <1>5, <1>6, <1>o

LEMMA ReadInductive == Spec => [](IInv /\ ReadInv)
<1>1. Init => ReadInv
  BY DEF Init, ReadInv
<1>2. IInv /\ IInv' /\ ReadInv /\ [Next]_vars => ReadInv'
  BY ReadStep
<1> QED
  BY <1>1, <1>2, DriverInductive, PTL DEF Spec

(***************************************************************************)
(* Until the buffer is full, aesd_read does well without the lock, for any *)
(* number of readers and writers.                                          *)
(***************************************************************************)
THEOREM DriverReadsUntilFull == Spec => []ReadSafeUntilFull
<1>1. ASSUME IInv, ReadInv
      PROVE  ReadSafeUntilFull
  <2> SUFFICES ASSUME ~cb.full, NEW c \in Clients
               PROVE  /\ pc[c] \in {"read_length", "read_copy"} /\ frame[c].in_offs # 0 =>
                           find_entry(cb, f_pos[c]) = ReadTarget(c)
                      /\ pc[c] = "read_copy" => InBlock(c)
    BY DEF ReadSafeUntilFull
  <2> SUFFICES ASSUME pc[c] \in {"read_length", "read_copy"}
               PROVE  /\ frame[c].in_offs # 0 => find_entry(cb, f_pos[c]) = ReadTarget(c)
                      /\ pc[c] = "read_copy" => InBlock(c)
    OBVIOUS
  <2> DEFINE f == frame[c]
             cur == f.current_offset
  <2>0. pc[c] \in ReadPC /\ pc[c] # "read_find" /\ pc[c] # "closed"
    BY DEF ReadPC
  <2>1. loaded
    BY <1>1, <2>0 DEF IInv, LockInv, UnloadedClosed
  <2>2. ReadGood(c)
    BY <1>1, <2>0, <2>1 DEF ReadInv
  <2>3. f \in ReadFrame
    BY <1>1, <2>0, FrameKinds DEF IInv, TypeInv, TypeOK, FileTypes
  <2>4. /\ cur \in Slots /\ f.in_offs \in Slots /\ f.entry_off \in Nat /\ f.read_length \in Nat
        /\ f.total_chars \in Nat /\ \A s \in Slots : s \in Nat
    BY <2>3, NAssumption DEF ReadFrame, Slots
  <2>5. /\ cb.out_offs = 0 /\ cb.in_offs \in Slots
        /\ \A s \in Slots : cb.entry[s].size \in Nat
    BY <1>1, <2>1, SlotFacts DEF IInv, TypeInv, DataInv, OffsetsInv
  <2>6. /\ f.in_offs <= cb.in_offs
        /\ f.entry_off < cb.entry[cur].size
        /\ pc[c] = "read_copy" => f.entry_off + f.read_length <= cb.entry[cur].size
        /\ f.in_offs # 0 => /\ cur < f.in_offs \/ cur < cb.in_offs
                            /\ f.total_chars = TotalFn(cb)[cur]
                            /\ f_pos[c] = f.total_chars + f.entry_off
    BY <2>0, <2>2 DEF ReadGood
  <2>7. ASSUME f.in_offs # 0
        PROVE  find_entry(cb, f_pos[c]) = ReadTarget(c)
    <3> HIDE DEF f
    <3>1. cur < cb.in_offs
      BY <2>4, <2>5, <2>6, <2>7
    <3>2. Reaches(cb, cur)
      BY <2>4, <2>5, <3>1, ReachesUntilFull
    <3>3. /\ TotalFn(cb)[cur + 1] = TotalFn(cb)[cur] + cb.entry[cur].size
          /\ SlotOf(cb, cur) = cur
      BY <2>4, <2>5, PrefixTotals
    <3>4. /\ cb.out_offs \in Slots /\ f_pos[c] \in Nat /\ TotalFn(cb)[cur] <= f_pos[c]
          /\ f_pos[c] < TotalFn(cb)[cur + 1] /\ f_pos[c] - TotalFn(cb)[cur] = f.entry_off
      <4>1. cb.out_offs \in Slots
        BY <2>5, NAssumption DEF Slots
      <4> DEFINE t == TotalFn(cb)[cur]
                 z == cb.entry[cur].size
                 x == f_pos[c]
      <4>2. t \in Nat /\ z \in Nat /\ x = t + f.entry_off /\ f.entry_off < z /\ f.entry_off \in Nat
        BY <2>4, <2>5, <2>6, <2>7
      <4> HIDE DEF t, z, x
      <4>3. x \in Nat /\ t <= x /\ x < t + z /\ x - t = f.entry_off
        BY <4>2
      <4> QED
        BY <3>3, <4>1, <4>3 DEF t, z, x
    <3>5. find_entry(cb, f_pos[c]) = [slot |-> SlotOf(cb, cur), byte |-> f_pos[c] - TotalFn(cb)[cur]]
      BY <2>5, <3>2, <3>4, FindFound
    <3> QED
      BY <3>3, <3>4, <3>5 DEF ReadTarget, f
  <2>8. ASSUME pc[c] = "read_copy"
        PROVE  InBlock(c)
    <3>1. cb.entry[cur].size > 0
      BY <2>4, <2>5, <2>6
    <3>2. ~ (Phase = "evict_clear")
      BY <1>1, <2>1 DEF IInv, DataInv, PendingInv, EvictPC
    <3>3. cb.entry[cur].buffptr \in Ptr /\ heap[cb.entry[cur].buffptr] >= cb.entry[cur].size
      BY <1>1, <2>1, <2>4, <3>1, <3>2 DEF IInv, DataInv, EntriesInv, Live
    <3>4. heap[cb.entry[cur].buffptr] \in Nat
      BY <1>1, <3>3 DEF IInv, TypeInv, TypeOK, DeviceTypes
    <3>5. heap[cb.entry[cur].buffptr] >= f.entry_off + f.read_length
      <4> DEFINE h == heap[cb.entry[cur].buffptr]
                 z == cb.entry[cur].size
      <4>1. h \in Nat /\ z \in Nat /\ h >= z /\ f.entry_off + f.read_length <= z
        BY <2>4, <2>5, <2>6, <2>8, <3>3, <3>4
      <4> HIDE DEF h, z, f
      <4>2. h >= f.entry_off + f.read_length
        BY <2>4, <4>1
      <4> QED
        BY <4>2 DEF h
    <3> QED
      BY <3>3, <3>5 DEF InBlock
  <2> QED
    BY <2>7, <2>8
<1> QED
  BY <1>1, ReadInductive, PTL

-----------------------------------------------------------------------------
(* Seeks, until the buffer is full.                                        *)

\* The loop of aesd_ioctl has added up the entries before its index.
LoopGood(c) ==
  LET f == frame[c] IN
  /\ pc[c] = "ioctl_lock" => f.index = 0 /\ f.loc_off = 0
  /\ pc[c] \in {"ioctl_loop", "ioctl_entry"} => f.index <= f.write_cmd
  /\ pc[c] \in {"ioctl_loop", "ioctl_entry"} /\ ~cb.full =>
       f.index \in 0..N /\ f.loc_off = TotalFn(cb)[f.index]
  /\ pc[c] = "ioctl_entry" /\ Occupied(f.write_cmd) => f.index = f.write_cmd

LoopInv == \A c \in Clients : LoopGood(c)

\* A client in aesd_ioctl is changed by the steps of its own call only, and
\* inside the lock the buffer stays as it is.
LEMMA SeekerStep ==
  ASSUME IInv, IInv', [Next]_vars, NEW c \in Clients, pc'[c] \in IoctlPC
  PROVE  \/ pc'[c] = pc[c] /\ frame'[c] = frame[c] /\ (pc[c] \in LockedPC => cb' = cb)
         \/ \E seek_cmd \in SeekCmds : aesd_ioctl(c, seek_cmd)
         \/ IoctlLock(c)
         \/ IoctlLoop(c)
<1> DEFINE Stays == pc'[c] = pc[c] /\ frame'[c] = frame[c]
<1>t. /\ pc \in [Clients -> Labels] /\ frame \in [Clients -> AnyFrame] /\ TypeOK
      /\ LockHeldInside
  BY DEF IInv, TypeInv, LockInv, TypeOK, FileTypes
<1>r. /\ IoctlPC = {"ioctl_lock", "ioctl_loop", "ioctl_entry"}
      /\ \A l \in {"idle", "closed"} \cup WritePC \cup ReadPC : l \notin IoctlPC
  BY DEF ReadPC, WritePC, IoctlPC, AddPC, EvictPC
<1>o. ASSUME NEW d \in Clients, NEW label, Goto(d, label), label \notin IoctlPC
      PROVE  d # c
  BY <1>o, <1>t DEF Goto
<1>1. CASE aesd_init_module \/ aesd_cleanup_module
  <2>1. Stays
    BY <1>1 DEF aesd_init_module, aesd_cleanup_module, files
  <2>2. pc[c] = "closed"
    BY <1>1 DEF aesd_init_module, aesd_cleanup_module, IInv, LockInv, UnloadedClosed
  <2>3. "closed" \notin LockedPC
    BY DEF LockedPC, AddPC, EvictPC
  <2> QED
    BY <2>1, <2>2, <2>3
<1>2. CASE UNCHANGED vars
  BY <1>2 DEF vars, device, files
<1>3. ASSUME NEW d \in Clients, d # c, Call(d) \/ Step(d) \/ Acquire(d) \/ Interrupted(d)
      PROVE  Stays
  BY <1>3, <1>t, OtherClient
<1>4. ASSUME pc[c] \in LockedPC, NEW d \in Clients, d # c, ~ (cb' = cb),
             Call(d) \/ Step(d) \/ Acquire(d) \/ Interrupted(d)
      PROVE  FALSE
  <2>1. LockedStep(d)
    BY <1>4 DEF Call, Step, Acquire, LockedStep, aesd_open, aesd_release, aesd_read,
       aesd_write, aesd_llseek, aesd_ioctl, ReadFind, ReadLength, ReadCopy, SizeLoad,
       SizeStore, Interrupted, device
  <2> QED
    BY <1>4, <2>1, LockedAlone
<1>5. ASSUME Call(c)
      PROVE  \E seek_cmd \in SeekCmds : aesd_ioctl(c, seek_cmd)
  <2>1. ASSUME aesd_open(c) \/ aesd_release(c)
        PROVE  FALSE
    BY <1>o, <1>r, <2>1 DEF aesd_open, aesd_release, Return, Enter
  <2>2. ASSUME NEW count \in WriteCounts, aesd_write(c, count)
        PROVE  FALSE
    BY <1>o, <1>r, <2>2 DEF aesd_write, Return, Enter, WritePC
  <2>3. ASSUME NEW off \in SeekOffsets, aesd_llseek(c, off)
        PROVE  FALSE
    BY <1>o, <1>r, <2>3 DEF aesd_llseek, Return
  <2>4. ASSUME NEW count \in ReadCounts, aesd_read(c, count)
        PROVE  FALSE
    BY <1>o, <1>r, <2>4 DEF aesd_read, Return, Enter, ReadPC
  <2> QED
    BY <1>5, <2>1, <2>2, <2>3, <2>4 DEF Call
<1>6. ASSUME Step(c)
      PROVE  IoctlLoop(c)
  <2>1. ASSUME ReadCopy(c) \/ SizeStore(c) \/ IoctlEntry(c)
        PROVE  FALSE
    BY <1>o, <1>r, <2>1 DEF ReadCopy, SizeStore, IoctlEntry, Return
  <2>2. ASSUME EvictFree(c) \/ EvictClear(c) \/ AddOut(c) \/ AddStore(c) \/ AddIn(c)
        PROVE  FALSE
    BY <1>o, <1>r, <2>2 DEF EvictFree, EvictClear, AddOut, AddStore, AddIn, WritePC, AddPC, EvictPC
  <2>3. ASSUME WriteUnlock(c) \/ SizeLoad(c) \/ ReadLength(c)
        PROVE  FALSE
    BY <1>o, <1>r, <2>3 DEF WriteUnlock, SizeLoad, ReadLength, WritePC, ReadPC
  <2>4. ASSUME ReadFind(c)
        PROVE  FALSE
    BY <1>o, <1>r, <1>t, <2>4 DEF ReadFind, Return, ReadPC
  <2> QED
    BY <1>6, <2>1, <2>2, <2>3, <2>4 DEF Step
<1>7. ASSUME Acquire(c) \/ Interrupted(c)
      PROVE  IoctlLock(c)
  <2>1. ASSUME WriteCopy(c)
        PROVE  FALSE
    <3>1. \E l \in WritePC : Goto(c, l)
      BY <2>1 DEF WriteCopy, AfterCopy, WritePC, AddPC, EvictPC
    <3> QED
      BY <1>o, <1>r, <3>1
  <2>2. ASSUME WriteAllocFails(c) \/ Interrupted(c)
        PROVE  FALSE
    BY <1>o, <1>r, <2>2 DEF WriteAllocFails, Interrupted, Return
  <2> QED
    BY <1>7, <2>1, <2>2 DEF Acquire
<1> QED
  BY <1>1, <1>2, <1>3, <1>4, <1>5, <1>6, <1>7 DEF Next

LEMMA LoopStep ==
  ASSUME IInv, IInv', [Next]_vars, LoopInv
  PROVE  LoopInv'
<1> SUFFICES ASSUME NEW c \in Clients, pc'[c] \in IoctlPC
             PROVE  LoopGood(c)'
  BY DEF LoopInv, LoopGood, IoctlPC
<1>t. /\ TypeOK /\ pc \in [Clients -> Labels] /\ frame \in [Clients -> AnyFrame]
      /\ \A d \in Clients : frame[d] \in Frames(pc[d])
  BY DEF IInv, TypeInv, TypeOK, FileTypes
<1>s. /\ cb.out_offs \in Slots /\ \A i \in Slots : cb.entry[i].size \in Nat
      /\ \A i \in Slots : i \in Nat /\ i \in 0..N /\ i + 1 \in 0..N
  BY <1>t, SlotFacts, NAssumption DEF Slots
<1>g. LoopGood(c)
  BY DEF LoopInv
<1>1. CASE pc'[c] = pc[c] /\ frame'[c] = frame[c] /\ (pc[c] \in LockedPC => cb' = cb)
  <2>1. CASE pc[c] = "ioctl_lock"
    BY <1>1, <1>g, <2>1 DEF LoopGood
  <2>2. CASE pc[c] # "ioctl_lock"
    <3>1. pc[c] \in LockedPC
      BY <1>1, <2>2 DEF IoctlPC, LockedPC
    <3> QED
      BY <1>1, <1>g, <3>1 DEF LoopGood, Occupied
  <2> QED
    BY <2>1, <2>2
<1>2. ASSUME NEW seek_cmd \in SeekCmds, aesd_ioctl(c, seek_cmd)
      PROVE  LoopGood(c)'
  <2>1. Enter(c, "ioctl_lock",
              [write_cmd |-> seek_cmd[1], write_cmd_offset |-> seek_cmd[2],
               index |-> 0, loc_off |-> 0, retval |-> "ok"])
    BY <1>2, <1>t DEF aesd_ioctl, Return, Goto, IoctlPC
  <2>2. pc'[c] = "ioctl_lock" /\ frame'[c].index = 0 /\ frame'[c].loc_off = 0
    BY <1>t, <2>1 DEF Enter, Goto
  <2> QED
    BY <2>2 DEF LoopGood
<1>3. CASE IoctlLock(c)
  <2>1. pc[c] = "ioctl_lock" /\ pc'[c] = "ioctl_loop" /\ frame' = frame /\ cb' = cb
    BY <1>3, <1>t DEF IoctlLock, Goto, device
  <2>2. frame[c] \in IoctlFrame
    BY <1>t, <2>1, FrameKinds DEF IoctlPC
  <2>3. frame[c].index = 0 /\ frame[c].loc_off = 0
    BY <1>g, <2>1 DEF LoopGood
  <2>4. 0 <= frame[c].write_cmd /\ 0 \in 0..N
    BY <2>2, NAssumption DEF IoctlFrame
  <2>5. TotalFn(cb)[0] = 0
    BY <1>s, TotalFnIs
  <2> QED
    BY <2>1, <2>3, <2>4, <2>5 DEF LoopGood
<1>4. CASE IoctlLoop(c)
  <2> DEFINE f == frame[c]
  <2>1. pc[c] = "ioctl_loop" /\ cb' = cb
    BY <1>4 DEF IoctlLoop, device
  <2>2. f \in IoctlFrame
    BY <1>t, <2>1, FrameKinds DEF IoctlPC
  <2>3. /\ f.index \in Nat /\ f.write_cmd \in Nat /\ f.index <= f.write_cmd
        /\ ~cb.full => f.index \in 0..N /\ f.loc_off = TotalFn(cb)[f.index]
    BY <1>g, <2>1, <2>2 DEF LoopGood, IoctlFrame
  <2>4. Phase = "none" /\ loaded
    <3>1. pc[c] \in LockedPC /\ pc[c] \notin EvictPC \cup AddPC /\ pc[c] # "closed"
      BY <2>1 DEF LockedPC, EvictPC, AddPC
    <3> QED
      BY <3>1, PhaseInside DEF IInv, LockInv, UnloadedClosed
  <2>5. CASE f.index < f.write_cmd /\ Occupied(f.index)
    <3>1. frame'[c] = [f EXCEPT !.index = @ + 1, !.loc_off = @ + cb.entry[f.index].size]
          /\ pc' = pc
      BY <1>4, <1>t, <2>5 DEF IoctlLoop
    <3>2. /\ frame'[c].index = f.index + 1 /\ frame'[c].write_cmd = f.write_cmd
          /\ frame'[c].loc_off = f.loc_off + cb.entry[f.index].size
      BY <2>2, <3>1 DEF IoctlFrame
    <3>3. f.index \in Slots /\ f.index + 1 \in 0..N /\ f.index + 1 <= f.write_cmd
      BY <1>s, <2>3, <2>5 DEF Occupied
    <3>4. ASSUME ~cb.full
          PROVE  f.loc_off + cb.entry[f.index].size = TotalFn(cb)[f.index + 1]
      <4>1. cb.out_offs = 0
        BY <2>4, <3>4 DEF IInv, DataInv, OffsetsInv
      <4>2. TotalFn(cb)[f.index + 1] = TotalFn(cb)[f.index] + cb.entry[f.index].size
        BY <1>s, <3>3, <4>1, PrefixTotals
      <4> QED
        BY <2>3, <3>4, <4>2
    <3> QED
      BY <2>1, <3>1, <3>2, <3>3, <3>4 DEF LoopGood
  <2>6. CASE ~ (f.index < f.write_cmd /\ Occupied(f.index))
    <3>1. /\ frame'[c] = [f EXCEPT !.retval = IF f.index < f.write_cmd THEN "EINVAL" ELSE "ok"]
          /\ pc'[c] = "ioctl_entry"
      BY <1>4, <1>t, <2>6 DEF IoctlLoop, Goto
    <3>2. /\ frame'[c].index = f.index /\ frame'[c].write_cmd = f.write_cmd
          /\ frame'[c].loc_off = f.loc_off
      BY <2>2, <3>1 DEF IoctlFrame
    <3>3. Occupied(f.write_cmd) => f.index = f.write_cmd
      <4>1. CASE f.index < f.write_cmd
        BY <2>3, <2>4, <2>6, <4>1, OccupiedPrefix
      <4>2. CASE ~ (f.index < f.write_cmd)
        BY <2>3, <4>2
      <4> QED
        BY <4>1, <4>2
    <3> QED
      BY <2>1, <2>3, <3>1, <3>2, <3>3 DEF LoopGood, Occupied
  <2> QED
    BY <2>5, <2>6
<1> QED
  BY <1>1, <1>2, <1>3, <1>4, SeekerStep

LEMMA LoopInductive == Spec => [](IInv /\ LoopInv)
<1>1. Init => LoopInv
  BY DEF Init, LoopInv, LoopGood
<1>2. IInv /\ IInv' /\ LoopInv /\ [Next]_vars => LoopInv'
  BY LoopStep
<1> QED
  BY <1>1, <1>2, DriverInductive, PTL DEF Spec

\* The property of one step that SeekExactUntilFull states.
ExactSeek ==
  \A c \in Clients :
    LET f == frame[c] IN
    /\ SeekSucceeds(c)
    /\ ~cb.full
    /\ f.write_cmd_offset < cb.entry[f.write_cmd].size
    => find_entry(cb, f_pos'[c]) = [slot |-> f.write_cmd, byte |-> f.write_cmd_offset]

LEMMA ExactSeekStep ==
  ASSUME IInv, IInv', [Next]_vars, LoopInv
  PROVE  ExactSeek
<1> SUFFICES ASSUME NEW c \in Clients, SeekSucceeds(c), ~cb.full,
                    frame[c].write_cmd_offset < cb.entry[frame[c].write_cmd].size
             PROVE  find_entry(cb, f_pos'[c]) =
                      [slot |-> frame[c].write_cmd, byte |-> frame[c].write_cmd_offset]
  BY DEF ExactSeek
<1> DEFINE f == frame[c]
           k == f.write_cmd
<1>t. /\ TypeOK /\ pc \in [Clients -> Labels] /\ f_pos \in [Clients -> Nat]
      /\ ret \in [Clients -> Results \cup {NULL}]
      /\ \A d \in Clients : frame[d] \in Frames(pc[d])
  BY DEF IInv, TypeInv, TypeOK, FileTypes
<1>0. pc[c] = "ioctl_entry" /\ pc'[c] = "idle" /\ ret'[c] = "ok"
  BY DEF SeekSucceeds
<1>1. f \in IoctlFrame
  BY <1>0, <1>t, FrameKinds DEF IoctlPC
<1>2. f.write_cmd \in Nat /\ f.write_cmd_offset \in Nat /\ f.loc_off \in Nat
  BY <1>1 DEF IoctlFrame
<1>3. IoctlEntry(c)
  <2>1. "ioctl_entry" \in LockedPC
    BY DEF LockedPC
  <2>2. CASE aesd_init_module \/ aesd_cleanup_module
    BY <1>0, <2>2 DEF aesd_init_module, aesd_cleanup_module, files
  <2>3. CASE Quiet
    BY <1>0, <2>1, <2>3 DEF Quiet
  <2>4. ASSUME NEW d \in Clients, LockedStep(d)
        PROVE  IoctlEntry(c)
    <3>1. d = c
      BY <1>0, <2>1, <2>4, LockedAlone
    <3> QED
      BY <1>0, <2>4, <3>1 DEF LockedStep, WriteCopy, WriteAllocFails, EvictFree, EvictClear,
         AddOut, AddStore, AddIn, WriteUnlock, IoctlLock, IoctlLoop
  <2> QED
    BY <1>t, <2>2, <2>3, <2>4, StepKinds
<1>4. Occupied(k) /\ f_pos'[c] = f.loc_off + f.write_cmd_offset
  <2>1. CASE Occupied(k) /\ f.write_cmd_offset <= cb.entry[k].size
    BY <1>3, <1>t, <2>1 DEF IoctlEntry
  <2>2. CASE ~ (Occupied(k) /\ f.write_cmd_offset <= cb.entry[k].size)
    <3>1. Return(c, "EINVAL")
      BY <1>3, <2>2 DEF IoctlEntry
    <3> QED
      BY <1>0, <1>t, <3>1 DEF Return
  <2> QED
    BY <2>1, <2>2
<1>5. f.loc_off = TotalFn(cb)[k] /\ k \in Slots
  BY <1>0, <1>4 DEF LoopInv, LoopGood, Occupied
<1>6. loaded /\ Phase = "none"
  <2>1. pc[c] \in LockedPC /\ pc[c] \notin EvictPC \cup AddPC /\ pc[c] # "closed"
    BY <1>0 DEF LockedPC, EvictPC, AddPC
  <2> QED
    BY <2>1, PhaseInside DEF IInv, LockInv, UnloadedClosed
<1>7. /\ cb.out_offs = 0 /\ cb.in_offs \in Slots /\ cb.out_offs \in Slots
      /\ \A s \in Slots : cb.entry[s].size \in Nat
  BY <1>6, <1>t, SlotFacts DEF IInv, DataInv, OffsetsInv
<1>8. k < cb.in_offs
  BY <1>4, <1>6 DEF IInv, DataInv, EntriesInv, InUse, Occupied
<1> HIDE DEF f
<1>9. Reaches(cb, k)
  BY <1>5, <1>7, <1>8, ReachesUntilFull
<1>10. TotalFn(cb)[k + 1] = TotalFn(cb)[k] + cb.entry[k].size /\ SlotOf(cb, k) = k
  BY <1>5, <1>7, PrefixTotals
<1>11. /\ f_pos'[c] \in Nat /\ TotalFn(cb)[k] <= f_pos'[c]
       /\ f_pos'[c] < TotalFn(cb)[k + 1] /\ f_pos'[c] - TotalFn(cb)[k] = f.write_cmd_offset
  <2> DEFINE t == TotalFn(cb)[k]
             z == cb.entry[k].size
             x == f_pos'[c]
  <2>1. t \in Nat /\ z \in Nat /\ x = t + f.write_cmd_offset /\ f.write_cmd_offset < z
    BY <1>2, <1>4, <1>5, <1>7 DEF f
  <2> HIDE DEF t, z, x
  <2>2. x \in Nat /\ t <= x /\ x < t + z /\ x - t = f.write_cmd_offset
    BY <1>2, <2>1
  <2> QED
    BY <1>10, <2>2 DEF t, z, x
<1>12. find_entry(cb, f_pos'[c]) = [slot |-> SlotOf(cb, k), byte |-> f_pos'[c] - TotalFn(cb)[k]]
  BY <1>7, <1>9, <1>11, FindFound
<1> QED
  BY <1>10, <1>11, <1>12 DEF f

(***************************************************************************)
(* Until the buffer is full, a seek that succeeds moves to the byte asked  *)
(* for: the loop of aesd_ioctl over slots and the search of aesd_read over *)
(* entries agree, whatever else runs.                                      *)
(***************************************************************************)
THEOREM DriverSeeksUntilFull == Spec => SeekExactUntilFull
<1>1. IInv /\ IInv' /\ LoopInv /\ [Next]_vars => [ExactSeek]_vars
  BY ExactSeekStep
<1>2. SeekExactUntilFull <=> [][ExactSeek]_vars
  BY DEF SeekExactUntilFull, ExactSeek
<1> QED
  BY <1>1, <1>2, LoopInductive, PTL DEF Spec

-----------------------------------------------------------------------------
(* One client at a time, in the wrapped buffer too.                        *)

\* No two clients have the device open at the same time.
Alone == \A c, d \in Clients : pc[c] # "closed" /\ pc[d] # "closed" => c = d

\* A read is at a place of the search, and what it has counted is right.
AloneGood(c) ==
  LET f == frame[c]
      e == cb.entry[f.current_offset]
  IN
  /\ f.in_offs = cb.in_offs
  /\ \E k \in Slots : /\ Reaches(cb, k)
                      /\ f.current_offset = SlotOf(cb, k)
                      /\ f.total_chars = TotalFn(cb)[k]
  /\ pc[c] # "read_find" => f_pos[c] = f.total_chars + f.entry_off /\ f.entry_off < e.size
  /\ pc[c] = "read_copy" => f.entry_off + f.read_length <= e.size

AloneInv == \A c \in Clients : pc[c] \in ReadPC => AloneGood(c)

\* What a reader that is alone knows of the device.
LEMMA AloneDevice ==
  ASSUME Alone, IInv, NEW c \in Clients, pc[c] \in ReadPC
  PROVE  /\ loaded /\ Phase = "none"
         /\ cb.out_offs \in Slots /\ cb.in_offs \in Slots
         /\ \A s \in Slots : cb.entry[s].size \in Nat
         /\ cb.full => cb.in_offs = cb.out_offs
         /\ ~cb.full => cb.out_offs = 0
         /\ frame[c] \in ReadFrame
<1>1. pc[c] # "closed" /\ pc[c] \notin EvictPC \cup AddPC
  BY DEF ReadPC, EvictPC, AddPC
<1>2. loaded
  BY <1>1 DEF IInv, LockInv, UnloadedClosed
<1>3. Phase = "none"
  BY <1>1 DEF Phase, Alone, EvictPC, AddPC
<1>4. frame[c] \in ReadFrame
  BY FrameKinds DEF IInv, TypeInv, TypeOK, FileTypes
<1>5. OffsetsInv /\ TypeOK
  BY <1>2 DEF IInv, DataInv, TypeInv
<1> QED
  BY <1>2, <1>3, <1>4, <1>5, SlotFacts DEF OffsetsInv

LEMMA AloneStep ==
  ASSUME Alone, IInv, IInv', [Next]_vars, AloneInv
  PROVE  AloneInv'
<1> SUFFICES ASSUME NEW c \in Clients, pc'[c] \in ReadPC
             PROVE  AloneGood(c)'
  BY DEF AloneInv
<1>t. /\ TypeOK /\ pc \in [Clients -> Labels] /\ frame \in [Clients -> AnyFrame]
      /\ f_pos \in [Clients -> Nat]
      /\ pc[c] = "read_find" => frame[c].total_chars <= f_pos[c]
  BY DEF IInv, TypeInv, TypeOK, FileTypes, SearchBehind
<1>r. ReadPC = {"read_find", "read_length", "read_copy"} /\ "closed" \notin ReadPC
  BY DEF ReadPC
<1>o. \/ pc'[c] = pc[c] /\ frame'[c] = frame[c] /\ f_pos'[c] = f_pos[c]
      \/ \E count \in ReadCounts : aesd_read(c, count)
      \/ ReadFind(c)
      \/ ReadLength(c)
  BY <1>t, ReaderStep
<1>1. CASE pc'[c] = pc[c] /\ frame'[c] = frame[c] /\ f_pos'[c] = f_pos[c]
  <2>1. cb' = cb
    <3>1. CASE Quiet
      BY <3>1 DEF Quiet, device
    <3>2. CASE aesd_init_module \/ aesd_cleanup_module
      BY <1>1, <1>r, <3>2
      DEF aesd_init_module, aesd_cleanup_module, IInv, LockInv, UnloadedClosed
    <3>3. ASSUME NEW d \in Clients, LockedStep(d)
          PROVE  FALSE
      <4>1. pc[d] # "closed"
        BY <3>3 DEF LockedStep, WriteCopy, WriteAllocFails, EvictFree, EvictClear,
           AddOut, AddStore, AddIn, WriteUnlock, IoctlLock, IoctlLoop, IoctlEntry
      <4>2. d = c
        BY <1>1, <1>r, <4>1 DEF Alone
      <4> QED
        BY <1>1, <1>r, <3>3, <4>2 DEF LockedStep, WriteCopy, WriteAllocFails, EvictFree, EvictClear,
           AddOut, AddStore, AddIn, WriteUnlock, IoctlLock, IoctlLoop, IoctlEntry
    <3> QED
      BY <1>t, <3>1, <3>2, <3>3, StepKinds
  <2> QED
    BY <1>1, <2>1 DEF AloneInv, AloneGood
<1>2. ASSUME NEW count \in ReadCounts, aesd_read(c, count)
      PROVE  AloneGood(c)'
  <2>1. PICK f \in FreshReadFrames(count) : Enter(c, "read_find", f)
    BY <1>2, <1>r, <1>t DEF aesd_read, Return, Goto
  <2>2. pc'[c] = "read_find" /\ frame'[c] = f /\ cb' = cb
    BY <1>2, <1>t, <2>1 DEF aesd_read, Enter, Goto, device
  <2>3. f.in_offs = cb.in_offs /\ f.current_offset = cb.out_offs /\ f.total_chars = 0
    BY DEF FreshReadFrames
  <2>4. cb.out_offs \in Slots /\ \A s \in Slots : cb.entry[s].size \in Nat
    BY <1>t, SlotFacts
  <2>5. TotalFn(cb)[0] = 0
    BY <2>4, TotalFnIs
  <2>6. 0 \in Slots /\ SlotOf(cb, 0) = cb.out_offs /\ Reaches(cb, 0)
    BY <2>4, NAssumption DEF SlotOf, Slots, Reaches
  <2> QED
    BY <2>2, <2>3, <2>5, <2>6 DEF AloneGood
<1>3. CASE ReadFind(c)
  <2> DEFINE f == frame[c]
             cur == f.current_offset
  <2>0. pc[c] = "read_find" /\ pc[c] \in ReadPC
    BY <1>3, <1>r DEF ReadFind
  <2>a. /\ cb.out_offs \in Slots /\ cb.in_offs \in Slots
        /\ \A s \in Slots : cb.entry[s].size \in Nat
        /\ cb.full => cb.in_offs = cb.out_offs
        /\ ~cb.full => cb.out_offs = 0
        /\ f \in ReadFrame
    BY <2>0, AloneDevice
  <2>2. /\ cur \in Slots /\ f.total_chars \in Nat /\ f_pos[c] \in Nat
        /\ f.total_chars <= f_pos[c]
    BY <1>t, <2>0, <2>a DEF ReadFrame
  <2>3. AloneGood(c)
    BY <2>0 DEF AloneInv
  <2>4. cb' = cb /\ f_pos' = f_pos
    BY <1>3 DEF ReadFind, device
  <2>5. CASE Hit(cb, cur, f.total_chars, f_pos[c])
    <3>1. frame'[c] = [f EXCEPT !.entry_off = f_pos[c] - f.total_chars] /\ pc'[c] = "read_length"
      BY <1>3, <1>t, <2>5 DEF ReadFind, Goto
    <3>2. /\ frame'[c].current_offset = cur /\ frame'[c].in_offs = f.in_offs
          /\ frame'[c].total_chars = f.total_chars
          /\ frame'[c].entry_off = f_pos[c] - f.total_chars
      BY <2>a, <3>1 DEF ReadFrame
    <3>3. f_pos[c] - f.total_chars < cb.entry[cur].size
      <4>1. f.total_chars + cb.entry[cur].size > f_pos[c] /\ cb.entry[cur].size \in Nat
        BY <2>2, <2>5, <2>a DEF Hit
      <4> QED
        BY <2>2, <4>1
    <3>4. f_pos[c] = f.total_chars + (f_pos[c] - f.total_chars)
      BY <2>2
    <3> HIDE DEF f
    <3> QED
      BY <2>3, <2>4, <3>1, <3>2, <3>3, <3>4 DEF AloneGood, f
  <2>6. CASE ~Hit(cb, cur, f.total_chars, f_pos[c])
    <3>0. f.in_offs = cb.in_offs
      BY <2>3 DEF AloneGood
    <3>1. NextSlot(cur) # cb.in_offs
      BY <1>3, <1>r, <1>t, <2>6, <3>0 DEF ReadFind, Return, Goto
    <3>2. /\ frame'[c] = [f EXCEPT !.current_offset = NextSlot(cur),
                                   !.total_chars = @ + cb.entry[cur].size]
          /\ pc'[c] = "read_find"
      BY <1>3, <1>t, <2>0, <2>6, <3>0, <3>1 DEF ReadFind
    <3>3. /\ frame'[c].current_offset = NextSlot(cur) /\ frame'[c].in_offs = f.in_offs
          /\ frame'[c].total_chars = f.total_chars + cb.entry[cur].size
      BY <2>a, <3>2 DEF ReadFrame
    <3>4. PICK k \in Slots : Reaches(cb, k) /\ cur = SlotOf(cb, k) /\ f.total_chars = TotalFn(cb)[k]
      BY <2>3 DEF AloneGood
    <3>5. k + 1 \in Slots /\ Reaches(cb, k + 1) /\ SlotOf(cb, k + 1) = NextSlot(cur)
      BY <2>a, <3>1, <3>4, NextReached
    <3>6. TotalFn(cb)[k + 1] = f.total_chars + cb.entry[cur].size
      BY <2>a, <3>4, TotalFnIs
    <3> HIDE DEF f
    <3> QED
      BY <2>4, <3>0, <3>2, <3>3, <3>5, <3>6 DEF AloneGood
  <2> QED
    BY <2>5, <2>6
<1>4. CASE ReadLength(c)
  <2> DEFINE f == frame[c]
             cur == f.current_offset
             rest == SizeSub(cb.entry[cur].size, f.entry_off)
             length == IF rest > f.count THEN f.count ELSE rest
  <2>0. pc[c] = "read_length" /\ pc[c] \in ReadPC
    BY <1>4, <1>r DEF ReadLength
  <2>1. f \in ReadFrame /\ \A s \in Slots : cb.entry[s].size \in Nat
    BY <2>0, AloneDevice
  <2>2. cur \in Slots /\ f.entry_off \in Nat /\ f.count \in Nat
    BY <2>1 DEF ReadFrame
  <2>3. AloneGood(c)
    BY <2>0 DEF AloneInv
  <2>4. cb' = cb /\ f_pos' = f_pos
    BY <1>4 DEF ReadLength, device
  <2>5. frame'[c] = [f EXCEPT !.read_length = length] /\ pc'[c] = "read_copy"
    BY <1>4, <1>t DEF ReadLength, Goto
  <2>6. /\ frame'[c].current_offset = cur /\ frame'[c].in_offs = f.in_offs
        /\ frame'[c].total_chars = f.total_chars
        /\ frame'[c].entry_off = f.entry_off /\ frame'[c].read_length = length
    BY <2>1, <2>5 DEF ReadFrame
  <2>7. f.entry_off < cb.entry[cur].size /\ cb.entry[cur].size \in Nat
    BY <2>0, <2>1, <2>2, <2>3 DEF AloneGood
  <2>8. f.entry_off + length <= cb.entry[cur].size
    <3> DEFINE x == cb.entry[cur].size - f.entry_off
    <3>1. x \in Nat /\ f.entry_off + x = cb.entry[cur].size
      BY <2>2, <2>7
    <3>2. SIZE_MOD \in Nat \ {0}
      BY InputAssumption
    <3>3. rest = x % SIZE_MOD
      BY DEF SizeSub
    <3> HIDE DEF x, rest
    <3>4. rest \in Nat /\ rest <= x
      BY <3>1, <3>2, <3>3
    <3>5. length \in Nat /\ length <= x
      BY <2>2, <3>1, <3>4
    <3> HIDE DEF length
    <3> QED
      BY <2>2, <3>1, <3>5
  <2> HIDE DEF f, length
  <2> QED
    BY <2>0, <2>3, <2>4, <2>5, <2>6, <2>7, <2>8 DEF AloneGood, f
<1> QED
  BY <1>1, <1>2, <1>3, <1>4, <1>o

\* The property of one step that ReadsRightByte states.
RightByte ==
  \A c \in Clients :
    /\ pc[c] \in {"read_length", "read_copy"} => find_entry(cb, f_pos[c]) = ReadTarget(c)
    /\ pc[c] = "read_find" /\ pc'[c] = "idle" => find_entry(cb, f_pos[c]) = NULL

LEMMA RightByteStep ==
  ASSUME Alone, IInv, IInv', [Next]_vars, AloneInv
  PROVE  RightByte
<1> SUFFICES ASSUME NEW c \in Clients, pc[c] \in ReadPC
             PROVE  /\ pc[c] # "read_find" => find_entry(cb, f_pos[c]) = ReadTarget(c)
                    /\ pc[c] = "read_find" /\ pc'[c] = "idle" => find_entry(cb, f_pos[c]) = NULL
  BY DEF RightByte, ReadPC
<1> DEFINE f == frame[c]
           cur == f.current_offset
<1>a. /\ cb.out_offs \in Slots /\ cb.in_offs \in Slots
      /\ \A s \in Slots : cb.entry[s].size \in Nat
      /\ f \in ReadFrame
  BY AloneDevice
<1>t. /\ TypeOK /\ pc \in [Clients -> Labels] /\ f_pos[c] \in Nat
      /\ cur \in Slots /\ f.total_chars \in Nat /\ f.entry_off \in Nat
      /\ \A s \in Slots : s \in Nat /\ s \in 0..N /\ s + 1 \in 0..N
  BY <1>a, NAssumption DEF IInv, TypeInv, TypeOK, FileTypes, ReadFrame, Slots
<1>g. AloneGood(c)
  BY DEF AloneInv
<1>k. PICK k \in Slots : Reaches(cb, k) /\ cur = SlotOf(cb, k) /\ f.total_chars = TotalFn(cb)[k]
  BY <1>g DEF AloneGood
<1>n. TotalFn(cb)[k + 1] = f.total_chars + cb.entry[cur].size
  BY <1>a, <1>k, TotalFnIs
<1>1. ASSUME pc[c] # "read_find"
      PROVE  find_entry(cb, f_pos[c]) = ReadTarget(c)
  <2>1. f_pos[c] = f.total_chars + f.entry_off /\ f.entry_off < cb.entry[cur].size
    BY <1>1, <1>g DEF AloneGood
  <2>2. /\ TotalFn(cb)[k] <= f_pos[c] /\ f_pos[c] < TotalFn(cb)[k + 1]
        /\ f_pos[c] - TotalFn(cb)[k] = f.entry_off
    <3> DEFINE t == f.total_chars
               z == cb.entry[cur].size
               x == f_pos[c]
               e == f.entry_off
    <3>1. t \in Nat /\ z \in Nat /\ e \in Nat /\ x = t + e /\ e < z
      BY <1>a, <1>t, <2>1
    <3> HIDE DEF t, z, x, e
    <3>2. t <= x /\ x < t + z /\ x - t = e
      BY <3>1
    <3> QED
      BY <1>k, <1>n, <3>2 DEF t, z, x, e
  <2>3. find_entry(cb, f_pos[c]) = [slot |-> SlotOf(cb, k), byte |-> f_pos[c] - TotalFn(cb)[k]]
    BY <1>a, <1>k, <1>t, <2>2, FindFound
  <2> QED
    BY <1>k, <2>2, <2>3 DEF ReadTarget
<1>2. ASSUME pc[c] = "read_find", pc'[c] = "idle"
      PROVE  find_entry(cb, f_pos[c]) = NULL
  <2>1. ReadFind(c)
    <3>1. CASE aesd_init_module \/ aesd_cleanup_module \/ UNCHANGED vars
      BY <1>2, <3>1 DEF aesd_init_module, aesd_cleanup_module, files, vars
    <3>2. ASSUME NEW d \in Clients, Call(d) \/ Step(d) \/ Acquire(d) \/ Interrupted(d)
          PROVE  ReadFind(c)
      <4>1. d = c
        BY <1>2, <1>t, <3>2, OtherClient
      <4>2. ~ Call(c)
        BY <1>2 DEF Call, aesd_open, aesd_release, aesd_read, aesd_write, aesd_llseek, aesd_ioctl
      <4>3. ~ Acquire(c) /\ ~ Interrupted(c)
        BY <1>2 DEF Acquire, WriteCopy, WriteAllocFails, IoctlLock, Interrupted
      <4>4. Step(c) => ReadFind(c)
        BY <1>2 DEF Step, ReadLength, ReadCopy, EvictFree, EvictClear, AddOut, AddStore, AddIn,
           WriteUnlock, SizeLoad, SizeStore, IoctlLoop, IoctlEntry
      <4> QED
        BY <3>2, <4>1, <4>2, <4>3, <4>4
    <3> QED
      BY <3>1, <3>2 DEF Next
  <2>2. f.in_offs = cb.in_offs
    BY <1>g DEF AloneGood
  <2>3. ~Hit(cb, cur, f.total_chars, f_pos[c]) /\ NextSlot(cur) = cb.in_offs
    <3>1. ~Hit(cb, cur, f.total_chars, f_pos[c])
      BY <1>2, <1>t, <2>1 DEF ReadFind, Goto
    <3> QED
      BY <1>2, <2>1, <2>2, <3>1 DEF ReadFind
  <2>4. ~ (TotalFn(cb)[k + 1] > f_pos[c])
    BY <1>n, <2>3 DEF Hit
  <2>5. ASSUME NEW i \in Slots, Reaches(cb, i)
        PROVE  TotalFn(cb)[i + 1] <= f_pos[c]
    <3>1. i <= k
      <4> SUFFICES ASSUME ~ (i <= k)
                   PROVE  FALSE
        OBVIOUS
      <4>1. k + 1 \in 1..i
        BY <1>t
      <4>2. SlotOf(cb, k + 1) = NextSlot(cur)
        <5>1. k + 1 \in Slots
          BY <4>1, NAssumption DEF Slots
        <5>2. NextSlot(cur) = IF cur + 1 = N THEN 0 ELSE cur + 1
          BY <1>t, NextSlotIs
        <5> QED
          BY <1>a, <1>k, <5>1, <5>2, NAssumption DEF SlotOf, Slots
      <4> QED
        BY <2>3, <2>5, <4>1, <4>2 DEF Reaches
    <3>2. i + 1 \in 0..N /\ k + 1 \in 0..N /\ i + 1 <= k + 1
      BY <1>t, <3>1
    <3>3. TotalFn(cb)[i + 1] <= TotalFn(cb)[k + 1]
      BY <1>a, <3>2, TotalFnGrows
    <3>4. TotalFn(cb)[i + 1] \in Nat /\ TotalFn(cb)[k + 1] \in Nat
      BY <1>a, <3>2, TotalFnIs
    <3> QED
      BY <1>t, <2>4, <3>3, <3>4
  <2> QED
    BY <1>a, <1>t, <2>5, FindNone
<1> QED
  BY <1>1, <1>2

(***************************************************************************)
(* A client that has the device to itself reads the byte at its position,  *)
(* in the wrapped buffer too, and gets 0 bytes only where there is none.   *)
(***************************************************************************)
THEOREM DriverReadsAlone == Spec /\ []Alone => ReadsRightByte
<1>1. Init => AloneInv
  BY DEF Init, AloneInv, ReadPC
<1>2. Alone /\ IInv /\ IInv' /\ AloneInv /\ [Next]_vars => AloneInv'
  BY AloneStep
<1>3. Alone /\ IInv /\ IInv' /\ AloneInv /\ [Next]_vars => [RightByte]_vars
  BY RightByteStep
<1>4. ReadsRightByte <=> [][RightByte]_vars
  BY DEF ReadsRightByte, RightByte
<1> QED
  BY <1>1, <1>2, <1>3, <1>4, DriverInductive, PTL DEF Spec

(***************************************************************************)
(* Such a client never copies from freed memory nor past a block, which    *)
(* is false as soon as a second client may evict what the first reads.     *)
(***************************************************************************)
THEOREM DriverMemoryAlone == Spec /\ []Alone => []ReadsLiveMemory
<1>1. Init => AloneInv
  BY DEF Init, AloneInv, ReadPC
<1>2. Alone /\ IInv /\ IInv' /\ AloneInv /\ [Next]_vars => AloneInv'
  BY AloneStep
<1>3. Alone /\ IInv /\ AloneInv => ReadsLiveMemory
  <2> SUFFICES ASSUME Alone, IInv, AloneInv, NEW c \in Clients, pc[c] = "read_copy"
               PROVE  InBlock(c)
    BY DEF ReadsLiveMemory
  <2> DEFINE f == frame[c]
             e == cb.entry[f.current_offset]
  <2>0. pc[c] \in ReadPC
    BY DEF ReadPC
  <2>1. /\ loaded /\ Phase = "none" /\ f \in ReadFrame
        /\ \A s \in Slots : cb.entry[s].size \in Nat
    BY <2>0, AloneDevice
  <2>2. f.entry_off < e.size /\ f.entry_off + f.read_length <= e.size
    BY <2>0 DEF AloneInv, AloneGood
  <2>3. f.current_offset \in Slots /\ f.entry_off \in Nat /\ f.read_length \in Nat /\ e.size \in Nat
    BY <2>1 DEF ReadFrame
  <2>4. e.size > 0
    BY <2>2, <2>3
  <2>5. e.buffptr \in Ptr /\ heap[e.buffptr] >= e.size
    BY <2>1, <2>3, <2>4 DEF IInv, DataInv, EntriesInv, Live
  <2>6. heap[e.buffptr] \in Nat
    BY <2>5 DEF IInv, TypeInv, TypeOK, DeviceTypes
  <2>7. heap[e.buffptr] >= f.entry_off + f.read_length
    <3> DEFINE h == heap[e.buffptr]
               z == e.size
    <3>1. h \in Nat /\ z \in Nat /\ h >= z /\ f.entry_off + f.read_length <= z
      BY <2>2, <2>3, <2>5, <2>6
    <3> HIDE DEF h, z, f
    <3>2. h >= f.entry_off + f.read_length
      BY <2>3, <3>1
    <3> QED
      BY <3>2 DEF h
  <2> QED
    BY <2>5, <2>7 DEF InBlock
<1> QED
  BY <1>1, <1>2, <1>3, DriverInductive, PTL DEF Spec

-----------------------------------------------------------------------------
(* SEEK_END: the size that aesd_write keeps, against the bytes held.       *)

\* The function that TotalSize is defined with, and what it computes.
SizeFn(sizes) ==
  CHOOSE upto : upto = [k \in 0..N |->
    IF k = 0 THEN 0 ELSE upto[k - 1] + IF k \in DOMAIN sizes THEN sizes[k] ELSE 0]

LEMMA TotalSizeIs ==
  ASSUME NEW sizes
  PROVE  TotalSize(sizes) = SizeFn(sizes)[N]
BY Zenon DEF TotalSize, SizeFn

LEMMA SizeFnIs ==
  ASSUME NEW sizes \in Seq(Nat)
  PROVE  /\ SizeFn(sizes)[0] = 0
         /\ \A k \in 1..N : SizeFn(sizes)[k] = SizeFn(sizes)[k - 1] +
                              (IF k <= Len(sizes) THEN sizes[k] ELSE 0)
         /\ \A k \in 0..N : SizeFn(sizes)[k] \in Nat
<1> DEFINE n == Len(sizes)
           z == [k \in 0..N |-> IF k + 1 \in DOMAIN sizes THEN sizes[k + 1] ELSE 0]
           f == SizeFn(sizes)
<1>n. N \in Nat /\ n \in Nat /\ DOMAIN sizes = 1..n /\ \A k \in 1..n : sizes[k] \in Nat
  BY NAssumption
<1>1. \A k \in 0..(N - 1) : z[k] \in Nat
  BY <1>n
<1>2. \E w \in [0..N -> Nat] : w = [k \in 0..N |-> IF k = 0 THEN 0 ELSE w[k - 1] + z[k - 1]]
  <2> HIDE DEF z
  <2> QED BY <1>n, <1>1, SumsExist
<1>3. PICK w \in [0..N -> Nat] : w = [k \in 0..N |-> IF k = 0 THEN 0 ELSE w[k - 1] + z[k - 1]]
  BY <1>2
<1>4. \A k \in 0..N : k # 0 => z[k - 1] = IF k \in DOMAIN sizes THEN sizes[k] ELSE 0
  <2>1. \A k \in 0..N : k # 0 => k - 1 \in 0..N /\ (k - 1) + 1 = k
    BY <1>n
  <2> QED
    BY <2>1
<1> HIDE DEF z
<1>5. w = [k \in 0..N |-> IF k = 0 THEN 0
                          ELSE w[k - 1] + IF k \in DOMAIN sizes THEN sizes[k] ELSE 0]
  BY <1>3, <1>4
<1>6. f = [k \in 0..N |-> IF k = 0 THEN 0
                          ELSE f[k - 1] + IF k \in DOMAIN sizes THEN sizes[k] ELSE 0]
  BY <1>5, Zenon DEF SizeFn
<1> HIDE DEF f, n
<1>7. f[0] = 0
  BY <1>6, <1>n
<1>8. \A k \in 1..N : f[k] = f[k - 1] + (IF k <= n THEN sizes[k] ELSE 0)
  <2> SUFFICES ASSUME NEW k \in 1..N
               PROVE  f[k] = f[k - 1] + (IF k <= n THEN sizes[k] ELSE 0)
    OBVIOUS
  <2>1. k \in 0..N /\ k # 0 /\ (k \in DOMAIN sizes <=> k <= n)
    BY <1>n
  <2>2. f[k] = f[k - 1] + IF k \in DOMAIN sizes THEN sizes[k] ELSE 0
    BY <1>6, <2>1
  <2> QED
    BY <2>1, <2>2
<1>9. \A k \in 0..N : f[k] \in Nat
  <2> DEFINE S == {k \in 0..N : f[k] \in Nat}
  <2>1. 0 \in S
    BY <1>7, <1>n
  <2>2. ASSUME NEW k \in 0..(N - 1), k \in S
        PROVE  k + 1 \in S
    <3>1. k + 1 \in 1..N /\ k + 1 \in 0..N /\ (k + 1) - 1 = k /\ k \in Nat
      BY <1>n
    <3>2. f[k + 1] = f[k] + (IF k + 1 <= n THEN sizes[k + 1] ELSE 0)
      BY <1>8, <3>1
    <3>3. (IF k + 1 <= n THEN sizes[k + 1] ELSE 0) \in Nat
      BY <1>n, <3>1
    <3> QED
      BY <2>2, <3>1, <3>2, <3>3
  <2>3. \A k \in 0..N : k \in S
    <3> HIDE DEF S
    <3> QED BY <1>n, <2>1, <2>2, Induction
  <2> QED
    BY <2>3
<1> QED
  BY <1>7, <1>8, <1>9 DEF f, n

\* The bytes of a device that gets another command, and of one without any.
LEMMA TotalSizeAppend ==
  ASSUME NEW s \in Seq(Nat), Len(s) < N, NEW x \in Nat
  PROVE  /\ TotalSize(s) \in Nat
         /\ TotalSize(Append(s, x)) = TotalSize(s) + x
<1> DEFINE n == Len(s)
           r == Append(s, x)
           f == SizeFn(s)
           g == SizeFn(r)
           S == {k \in 0..N : g[k] = IF k <= n THEN f[k] ELSE f[k] + x}
<1>n. N \in Nat /\ n \in Nat /\ n < N
  BY NAssumption
<1>r. /\ r \in Seq(Nat) /\ Len(r) = n + 1 /\ r[n + 1] = x
      /\ \A k \in 1..n : r[k] = s[k] /\ s[k] \in Nat
  OBVIOUS
<1> HIDE DEF r, n
<1>1. /\ f[0] = 0
      /\ \A k \in 1..N : f[k] = f[k - 1] + (IF k <= n THEN s[k] ELSE 0)
      /\ \A k \in 0..N : f[k] \in Nat
  BY SizeFnIs DEF n
<1>2. /\ g[0] = 0
      /\ \A k \in 1..N : g[k] = g[k - 1] + (IF k <= n + 1 THEN r[k] ELSE 0)
  BY <1>r, SizeFnIs
<1> HIDE DEF f, g
<1>3. 0 \in S
  BY <1>1, <1>2, <1>n
<1>4. ASSUME NEW k \in 0..(N - 1), k \in S
      PROVE  k + 1 \in S
  <2>1. k + 1 \in 1..N /\ k + 1 \in 0..N /\ (k + 1) - 1 = k /\ k \in Nat /\ k \in 0..N
    BY <1>n
  <2>2. /\ f[k + 1] = f[k] + (IF k + 1 <= n THEN s[k + 1] ELSE 0)
        /\ g[k + 1] = g[k] + (IF k + 1 <= n + 1 THEN r[k + 1] ELSE 0)
        /\ f[k] \in Nat
    BY <1>1, <1>2, <2>1
  <2>3. CASE k + 1 <= n
    <3>1. k <= n /\ k + 1 <= n + 1 /\ k + 1 \in 1..n
      BY <1>n, <2>1, <2>3
    <3>2. g[k] = f[k] /\ r[k + 1] = s[k + 1]
      BY <1>4, <1>r, <3>1
    <3> QED
      BY <2>1, <2>2, <2>3, <3>1, <3>2
  <2>4. CASE k = n
    <3>1. k <= n /\ k + 1 <= n + 1 /\ ~ (k + 1 <= n)
      BY <1>n, <2>1, <2>4
    <3>2. g[k] = f[k] /\ r[k + 1] = x
      BY <1>4, <1>r, <2>4, <3>1
    <3>3. f[k + 1] = f[k] /\ g[k + 1] = f[k] + x
      BY <2>2, <3>1, <3>2
    <3> QED
      BY <2>1, <3>1, <3>3
  <2>5. CASE k > n
    <3>1. ~ (k <= n) /\ ~ (k + 1 <= n + 1) /\ ~ (k + 1 <= n)
      BY <1>n, <2>1, <2>5
    <3>2. g[k] = f[k] + x
      BY <1>4, <3>1
    <3>3. f[k + 1] = f[k] /\ g[k + 1] = g[k]
      <4>1. f[k + 1] = f[k] + 0 /\ g[k + 1] = g[k] + 0 /\ g[k] \in Nat
        BY <2>2, <3>1, <3>2
      <4> QED
        BY <2>2, <4>1
    <3> QED
      BY <2>1, <3>1, <3>2, <3>3
  <2> QED
    BY <1>n, <2>1, <2>3, <2>4, <2>5
<1>5. \A k \in 0..N : k \in S
  <2> HIDE DEF S
  <2> QED BY <1>n, <1>3, <1>4, Induction
<1>6. N \in 0..N /\ ~ (N <= n)
  BY <1>n
<1>7. g[N] = f[N] + x /\ f[N] \in Nat
  BY <1>1, <1>5, <1>6
<1> QED
  BY <1>7, TotalSizeIs DEF f, g, r

LEMMA TotalSizeEmpty == TotalSize(<< >>) = 0
<1> DEFINE f == SizeFn(<< >>)
           S == {k \in 0..N : f[k] = 0}
<1>n. N \in Nat
  BY NAssumption
<1>1. /\ f[0] = 0
      /\ \A k \in 1..N : f[k] = f[k - 1] + (IF k <= 0 THEN << >>[k] ELSE 0)
  <2>1. << >> \in Seq(Nat) /\ Len(<< >>) = 0
    OBVIOUS
  <2> QED
    BY <2>1, SizeFnIs
<1> HIDE DEF f
<1>2. 0 \in S
  BY <1>1, <1>n
<1>3. ASSUME NEW k \in 0..(N - 1), k \in S
      PROVE  k + 1 \in S
  <2>1. k + 1 \in 1..N /\ k + 1 \in 0..N /\ (k + 1) - 1 = k /\ ~ (k + 1 <= 0)
    BY <1>n
  <2>2. f[k + 1] = f[k] + 0 /\ f[k] = 0
    BY <1>1, <1>3, <2>1
  <2> QED
    BY <2>1, <2>2
<1>4. \A k \in 0..N : k \in S
  <2> HIDE DEF S
  <2> QED BY <1>n, <1>2, <1>3, Induction
<1>5. f[N] = 0
  BY <1>n, <1>4
<1> QED
  BY <1>5, TotalSizeIs DEF f

\* The sum of w over the set W, along an enumeration q of the set.
Enumerates(W, w, n, q, t) ==
  /\ q \in [1..n -> W]
  /\ \A x \in W : \E i \in 1..n : q[i] = x
  /\ \A i, j \in 1..n : q[i] = q[j] => i = j
  /\ t \in [0..n -> Nat]
  /\ t[0] = 0
  /\ \A i \in 1..n : t[i] = t[i - 1] + w[q[i]]

SumsTo(W, w, s) == \E n \in Nat : \E q, t : Enumerates(W, w, n, q, t) /\ t[n] = s

LEMMA SumIsNat ==
  ASSUME NEW W, NEW w, NEW s, SumsTo(W, w, s)
  PROVE  s \in Nat
<1>0. PICK n \in Nat : \E q, t : Enumerates(W, w, n, q, t) /\ t[n] = s
  BY DEF SumsTo
<1>1. PICK q, t : Enumerates(W, w, n, q, t) /\ t[n] = s
  BY <1>0
<1>2. n \in 0..n /\ t \in [0..n -> Nat]
  BY <1>1 DEF Enumerates
<1> QED
  BY <1>1, <1>2

LEMMA SumOfNone ==
  ASSUME NEW w
  PROVE  SumsTo({}, w, 0)
<1> DEFINE q == [i \in 1..0 |-> 0]
           t == [i \in 0..0 |-> 0]
<1>0. \A i \in 1..0 : FALSE
  OBVIOUS
<1>1. q \in [1..0 -> {}]
  BY <1>0
<1>2. t \in [0..0 -> Nat] /\ t[0] = 0
  OBVIOUS
<1> HIDE DEF q, t
<1>3. Enumerates({}, w, 0, q, t)
  BY <1>0, <1>1, <1>2 DEF Enumerates
<1> QED
  BY <1>2, <1>3 DEF SumsTo

LEMMA SumOfSame ==
  ASSUME NEW W, NEW w, NEW v, NEW s, SumsTo(W, w, s), \A x \in W : v[x] = w[x]
  PROVE  SumsTo(W, v, s)
<1>0. PICK n \in Nat : \E q, t : Enumerates(W, w, n, q, t) /\ t[n] = s
  BY DEF SumsTo
<1>1. PICK q, t : Enumerates(W, w, n, q, t) /\ t[n] = s
  BY <1>0
<1>2. \A i \in 1..n : q[i] \in W
  BY <1>1 DEF Enumerates
<1>3. Enumerates(W, v, n, q, t)
  BY <1>1, <1>2 DEF Enumerates
<1> QED
  BY <1>1, <1>3 DEF SumsTo

LEMMA SumWithOneMore ==
  ASSUME NEW W, NEW w, NEW s, SumsTo(W, w, s), NEW x, x \notin W, w[x] \in Nat
  PROVE  SumsTo(W \cup {x}, w, s + w[x])
<1>0. PICK n \in Nat : \E q, t : Enumerates(W, w, n, q, t) /\ t[n] = s
  BY DEF SumsTo
<1>1. PICK q, t : Enumerates(W, w, n, q, t) /\ t[n] = s
  BY <1>0
<1>e. /\ q \in [1..n -> W]
      /\ \A y \in W : \E i \in 1..n : q[i] = y
      /\ \A i, j \in 1..n : q[i] = q[j] => i = j
      /\ t \in [0..n -> Nat]
      /\ t[0] = 0
      /\ \A i \in 1..n : t[i] = t[i - 1] + w[q[i]]
  BY <1>1 DEF Enumerates
<1> DEFINE m == n + 1
           p == [i \in 1..m |-> IF i = m THEN x ELSE q[i]]
           u == [i \in 0..m |-> IF i = m THEN s + w[x] ELSE t[i]]
<1>n. /\ m \in Nat /\ m # 0 /\ \A i \in 1..m : i # m => i \in 1..n
      /\ \A i \in 0..m : i # m => i \in 0..n
      /\ \A i \in 1..n : i \in 1..m /\ i # m
      /\ \A i \in 0..n : i \in 0..m /\ i # m
      /\ 0 \in 0..m /\ m \in 1..m /\ m \in 0..m /\ m - 1 = n /\ n \in 0..n
  OBVIOUS
<1>s. s \in Nat /\ s + w[x] \in Nat
  BY <1>1, <1>e, <1>n
<1> HIDE DEF m
<1>2. p \in [1..m -> W \cup {x}]
  BY <1>e, <1>n
<1>3. u \in [0..m -> Nat] /\ u[0] = 0 /\ u[m] = s + w[x]
  BY <1>e, <1>n, <1>s
<1>4. \A y \in W \cup {x} : \E i \in 1..m : p[i] = y
  <2>1. p[m] = x
    BY <1>n
  <2>2. \A i \in 1..n : i \in 1..m /\ p[i] = q[i]
    BY <1>n
  <2> HIDE DEF p
  <2> QED
    BY <1>e, <1>n, <2>1, <2>2
<1>5. \A i, j \in 1..m : p[i] = p[j] => i = j
  <2> SUFFICES ASSUME NEW i \in 1..m, NEW j \in 1..m, p[i] = p[j]
               PROVE  i = j
    OBVIOUS
  <2>1. CASE i = m
    BY <1>e, <1>n, <2>1
  <2>2. CASE j = m
    BY <1>e, <1>n, <2>2
  <2>3. CASE i # m /\ j # m
    BY <1>e, <1>n, <2>3
  <2> QED
    BY <2>1, <2>2, <2>3
<1>6. \A i \in 1..m : u[i] = u[i - 1] + w[p[i]]
  <2> SUFFICES ASSUME NEW i \in 1..m
               PROVE  u[i] = u[i - 1] + w[p[i]]
    OBVIOUS
  <2>1. CASE i = m
    <3>1. u[i] = s + w[x] /\ p[i] = x
      BY <1>n, <2>1
    <3>2. u[i - 1] = s
      BY <1>1, <1>n, <2>1
    <3> QED
      BY <3>1, <3>2
  <2>2. CASE i # m
    <3>1. i \in 1..n /\ i \in 0..n /\ i - 1 \in 0..n
      BY <1>n, <2>2
    <3>2. u[i] = t[i] /\ u[i - 1] = t[i - 1] /\ p[i] = q[i]
      BY <1>n, <2>2, <3>1
    <3> QED
      BY <1>e, <3>1, <3>2
  <2> QED
    BY <2>1, <2>2
<1> HIDE DEF p, u
<1>7. Enumerates(W \cup {x}, w, m, p, u)
  BY <1>2, <1>3, <1>4, <1>5, <1>6 DEF Enumerates
<1> QED
  BY <1>3, <1>7, <1>n DEF SumsTo

LEMMA SumWithOneLess ==
  ASSUME NEW W, NEW w, NEW s, NEW x \in W, \A y \in W : w[y] \in Nat, SumsTo(W, w, s)
  PROVE  SumsTo(W \ {x}, w, s - w[x])
<1>0. PICK n \in Nat : \E q, t : Enumerates(W, w, n, q, t) /\ t[n] = s
  BY DEF SumsTo
<1>1. PICK q, t : Enumerates(W, w, n, q, t) /\ t[n] = s
  BY <1>0
<1>e. /\ q \in [1..n -> W]
      /\ \A y \in W : \E i \in 1..n : q[i] = y
      /\ \A i, j \in 1..n : q[i] = q[j] => i = j
      /\ t \in [0..n -> Nat]
      /\ t[0] = 0
      /\ \A i \in 1..n : t[i] = t[i - 1] + w[q[i]]
  BY <1>1 DEF Enumerates
<1>k. PICK k \in 1..n : q[k] = x
  BY <1>e
<1>w. w[x] \in Nat /\ \A i \in 1..n : w[q[i]] \in Nat
  BY <1>e
<1> DEFINE m == n - 1
           h == w[x]
           p == [i \in 1..m |-> IF i < k THEN q[i] ELSE q[i + 1]]
           u == [i \in 0..m |-> IF i < k THEN t[i] ELSE t[i + 1] - h]
<1>n. /\ m \in Nat /\ m + 1 = n /\ k \in Nat /\ 0 < k /\ 0 \in 0..m /\ m \in 0..m
      /\ \A i \in 1..m : i \in 1..n /\ i + 1 \in 1..n /\ i \in 0..m /\ i - 1 \in 0..m /\ i \in Nat
      /\ \A i \in 0..m : i \in 0..n /\ i + 1 \in 0..n /\ i \in Nat
      /\ k \in 0..n /\ k - 1 \in 0..n /\ n \in 0..n
  BY <1>k
<1> HIDE DEF m
<1>h. h \in Nat
  BY <1>w
<1>g. \A l \in 0..n : k <= l => t[l] >= h
  <2> DEFINE S == {l \in 0..n : k <= l => t[l] >= h}
  <2> HIDE DEF h
  <2>1. 0 \in S
    BY <1>n
  <2>2. ASSUME NEW l \in 0..(n - 1), l \in S
        PROVE  l + 1 \in S
    <3>1. l + 1 \in 1..n /\ l + 1 \in 0..n /\ (l + 1) - 1 = l /\ l \in 0..n /\ l \in Nat
      OBVIOUS
    <3>2. t[l + 1] = t[l] + w[q[l + 1]] /\ t[l] \in Nat /\ w[q[l + 1]] \in Nat
      BY <1>e, <1>w, <3>1
    <3>3. CASE k = l + 1
      <4>1. w[q[l + 1]] = h
        BY <1>k, <3>3 DEF h
      <4>2. t[l + 1] >= h
        BY <1>h, <3>2, <4>1
      <4> QED
        BY <3>1, <4>2
    <3>4. CASE k # l + 1
      <4>1. k <= l + 1 => k <= l
        BY <1>n, <3>1, <3>4
      <4>2. k <= l => t[l] >= h
        BY <2>2
      <4>3. k <= l + 1 => t[l + 1] >= h
        BY <1>h, <3>2, <4>1, <4>2
      <4> QED
        BY <3>1, <4>3
    <3> QED
      BY <3>3, <3>4
  <2>3. \A l \in 0..n : l \in S
    <3> HIDE DEF S
    <3> QED BY <2>1, <2>2, Induction
  <2> QED
    BY <2>3
<1> HIDE DEF h
<1>2. p \in [1..m -> W \ {x}]
  <2> SUFFICES ASSUME NEW i \in 1..m
               PROVE  (IF i < k THEN q[i] ELSE q[i + 1]) \in W \ {x}
    OBVIOUS
  <2>1. CASE i < k
    <3>1. i \in 1..n /\ i # k
      BY <1>n, <2>1
    <3> QED
      BY <1>e, <1>k, <2>1, <3>1
  <2>2. CASE ~ (i < k)
    <3>1. i + 1 \in 1..n /\ i + 1 # k
      BY <1>n, <2>2
    <3> QED
      BY <1>e, <1>k, <2>2, <3>1
  <2> QED
    BY <2>1, <2>2
<1>3. u \in [0..m -> Nat]
  <2> SUFFICES ASSUME NEW i \in 0..m
               PROVE  (IF i < k THEN t[i] ELSE t[i + 1] - h) \in Nat
    OBVIOUS
  <2>1. CASE i < k
    BY <1>e, <1>n, <2>1
  <2>2. CASE ~ (i < k)
    <3>1. i + 1 \in 0..n /\ k <= i + 1
      BY <1>n, <2>2
    <3>2. t[i + 1] \in Nat /\ t[i + 1] >= h
      BY <1>e, <1>g, <3>1
    <3> QED
      BY <1>h, <2>2, <3>2
  <2> QED
    BY <2>1, <2>2
<1>4. u[0] = 0
  BY <1>e, <1>n
<1>5. ASSUME NEW y \in W \ {x}
      PROVE  \E i \in 1..m : p[i] = y
  <2>1. PICK i \in 1..n : q[i] = y
    BY <1>e
  <2>2. i # k
    BY <1>k, <2>1
  <2>3. CASE i < k
    <3>1. i \in 1..m
      BY <1>n, <2>3
    <3>2. p[i] = y
      BY <2>1, <2>3, <3>1
    <3> QED
      BY <3>1, <3>2
  <2>4. CASE ~ (i < k)
    <3>1. i - 1 \in 1..m /\ (i - 1) + 1 = i /\ ~ (i - 1 < k)
      BY <1>n, <2>2, <2>4
    <3>2. p[i - 1] = y
      BY <2>1, <3>1
    <3> QED
      BY <3>1, <3>2
  <2> QED
    BY <2>3, <2>4
<1>6. ASSUME NEW i \in 1..m, NEW j \in 1..m, p[i] = p[j]
      PROVE  i = j
  <2>0. i \in 1..n /\ i + 1 \in 1..n /\ j \in 1..n /\ j + 1 \in 1..n /\ i \in Nat /\ j \in Nat
    BY <1>n
  <2>1. CASE i < k /\ j < k
    BY <1>6, <1>e, <2>0, <2>1
  <2>2. CASE ~ (i < k) /\ ~ (j < k)
    <3>1. q[i + 1] = q[j + 1]
      BY <1>6, <2>2
    <3>2. i + 1 = j + 1
      BY <1>e, <2>0, <3>1
    <3> QED
      BY <2>0, <3>2
  <2>3. CASE i < k /\ ~ (j < k)
    <3>1. q[i] = q[j + 1]
      BY <1>6, <2>3
    <3>2. i = j + 1
      BY <1>e, <2>0, <3>1
    <3> QED
      BY <1>n, <2>0, <2>3, <3>2
  <2>4. CASE ~ (i < k) /\ j < k
    <3>1. q[i + 1] = q[j]
      BY <1>6, <2>4
    <3>2. i + 1 = j
      BY <1>e, <2>0, <3>1
    <3> QED
      BY <1>n, <2>0, <2>4, <3>2
  <2> QED
    BY <2>1, <2>2, <2>3, <2>4
<1>7. ASSUME NEW i \in 1..m
      PROVE  u[i] = u[i - 1] + w[p[i]]
  <2>0. i \in 1..n /\ i + 1 \in 1..n /\ i \in 0..m /\ i - 1 \in 0..m /\ i \in Nat
        /\ (i + 1) - 1 = i /\ i - 1 \in 0..n /\ i \in 0..n /\ (i - 1) + 1 = i
    BY <1>n
  <2>1. /\ t[i] = t[i - 1] + w[q[i]] /\ t[i - 1] \in Nat /\ w[q[i]] \in Nat
        /\ t[i + 1] = t[i] + w[q[i + 1]] /\ w[q[i + 1]] \in Nat /\ t[i] \in Nat
    BY <1>e, <1>w, <2>0
  <2>2. CASE i < k
    <3>1. i - 1 < k
      BY <1>n, <2>0, <2>2
    <3>2. u[i] = t[i] /\ u[i - 1] = t[i - 1] /\ p[i] = q[i]
      BY <2>0, <2>2, <3>1
    <3> QED
      BY <2>1, <3>2
  <2>3. CASE i = k
    <3>1. i - 1 < k /\ ~ (i < k)
      BY <1>n, <2>0, <2>3
    <3>2. u[i] = t[i + 1] - h /\ u[i - 1] = t[i - 1] /\ p[i] = q[i + 1]
      BY <2>0, <3>1
    <3>3. w[q[i]] = h
      BY <1>k, <2>3 DEF h
    <3> QED
      BY <1>h, <2>1, <3>2, <3>3
  <2>4. CASE i > k
    <3>1. ~ (i - 1 < k) /\ ~ (i < k)
      BY <1>n, <2>0, <2>4
    <3>2. u[i] = t[i + 1] - h /\ u[i - 1] = t[i] - h /\ p[i] = q[i + 1]
      BY <2>0, <3>1
    <3> QED
      BY <1>h, <2>1, <3>2
  <2> QED
    BY <1>n, <2>0, <2>2, <2>3, <2>4
<1>8. s = u[m] + h
  <2>1. CASE m < k
    <3>1. k = n
      BY <1>n, <2>1
    <3>2. u[m] = t[m] /\ t[n] = t[n - 1] + w[q[n]] /\ w[q[n]] = h
      BY <1>e, <1>k, <1>n, <2>1, <3>1 DEF h
    <3>3. n - 1 = m
      BY <1>n
    <3> QED
      BY <1>1, <3>2, <3>3
  <2>2. CASE ~ (m < k)
    <3>1. u[m] = t[n] - h /\ t[n] \in Nat
      BY <1>e, <1>n, <2>2
    <3> QED
      BY <1>1, <1>h, <3>1
  <2> QED
    BY <2>1, <2>2
<1> HIDE DEF p, u
<1>9. Enumerates(W \ {x}, w, m, p, u)
  BY <1>2, <1>3, <1>4, <1>5, <1>6, <1>7 DEF Enumerates
<1>10. u[m] \in Nat
  BY <1>3, <1>n
<1>11. SumsTo(W \ {x}, w, u[m])
  BY <1>9, <1>n DEF SumsTo
<1>12. s - w[x] = u[m]
  BY <1>8, <1>10, <1>w DEF h
<1> QED
  BY <1>11, <1>12

\* The writes between their copy and their update of buffer_size, and the
\* bytes that each of them has copied.
InFlight(c) == pc[c] \in WritePC \ {"write_lock"}
Flying == {c \in Clients : InFlight(c)}
Retval == [c \in Clients |-> frame[c].retval]

\* Until the buffer is full: what SEEK_END uses and what the writes in flight
\* will still add to it make up no more than the device holds, whichever of
\* them has already loaded the old size.
SizeInv ==
  loaded /\ ~cb.full =>
    /\ Held \in Nat
    /\ \E s \in Nat :
         /\ SumsTo(Flying, Retval, s)
         /\ buffer_size + s <= Held
         /\ \A c \in Clients : pc[c] = "size_store" => frame[c].loaded_size + s <= Held

\* With one client: nothing is lost either.
ExactInv ==
  loaded /\ ~cb.full =>
    /\ Held \in Nat
    /\ Flying = {} => buffer_size = Held
    /\ \A c \in Clients :
         /\ InFlight(c) => buffer_size + frame[c].retval = Held
         /\ pc[c] = "size_store" => frame[c].loaded_size = buffer_size

LEMMA HeldIs == loaded => Held = TotalSize(Commands) + Pending
BY DEF Held, Commands, Pending

LEMMA HeldIsNext == loaded' => Held' = TotalSize(Commands') + Pending'
BY DEF Held, Commands, Pending

\* Only the copy of a write changes how many bytes the device holds.
LEMMA HeldKept ==
  ASSUME IInv, IInv', [Next]_vars, loaded, loaded', ~ \E c \in Clients : WriteCopy(c)
  PROVE  Held' = Held
<1>1. UNCHANGED <<Commands, Pending>>
  BY DeviceUnchanged, SettledByPhase, SettledNext
<1> QED
  BY <1>1, HeldIs, HeldIsNext

LEMMA HeldGrows ==
  ASSUME IInv, IInv', NEW c \in Clients, WriteCopy(c), loaded, loaded', ~cb.full
  PROVE  \E n \in Nat : /\ frame' = [frame EXCEPT ![c].retval = n]
                        /\ Held \in Nat /\ Held' = Held + n
<1>s. SettledIs /\ SettledIs'
  BY SettledByPhase, SettledNext
<1>1. /\ Commands \in Seq(Nat) /\ Pending \in Nat
      /\ Len(Commands) < N
  <2>1. /\ Commands \in Seq(Nat) /\ Pending \in Nat
        /\ Len(Commands) \in 0..N /\ (cb.full <=> Len(Commands) = N)
    BY <1>s, CopyEffect
  <2> QED
    BY <2>1, NAssumption
<1>2. PICK n \in Nat : Copied(n) /\ frame' = [frame EXCEPT ![c].retval = n]
  BY <1>s, CopyEffect
<1>3. TotalSize(Commands) \in Nat
  BY <1>1, TotalSizeAppend
<1>4. TotalSize(Commands') + Pending' = TotalSize(Commands) + Pending + n
  <2>1. CASE Commands' = Commands /\ Pending' = Pending + n
    BY <1>1, <1>2, <1>3, <2>1
  <2>2. CASE Commands' = Append(Commands, Pending + n) /\ Pending' = 0
    <3>1. Pending + n \in Nat
      BY <1>1, <1>2
    <3>2. TotalSize(Commands') = TotalSize(Commands) + (Pending + n)
      BY <1>1, <2>2, <3>1, TotalSizeAppend
    <3> QED
      BY <1>1, <1>2, <1>3, <2>2, <3>2
  <2>3. Len(Commands) # N
    BY <1>1, NAssumption
  <2> QED
    BY <1>2, <2>1, <2>2, <2>3 DEF Copied
<1>5. Held = TotalSize(Commands) + Pending /\ Held' = TotalSize(Commands') + Pending'
  BY HeldIs, HeldIsNext
<1>6. Held \in Nat /\ Held' = Held + n
  BY <1>1, <1>2, <1>3, <1>4, <1>5
<1> QED
  BY <1>2, <1>6

\* A step that leaves buffer_size and the writes in flight alone.
Steady ==
  /\ buffer_size' = buffer_size
  /\ \A c \in Clients :
       /\ InFlight(c)' <=> InFlight(c)
       /\ InFlight(c) => frame'[c].retval = frame[c].retval
       /\ pc'[c] = "size_store" => pc[c] = "size_store" /\ frame'[c].loaded_size = frame[c].loaded_size

SizeUpdate(c) == WriteCopy(c) \/ SizeLoad(c) \/ SizeStore(c)

LEMMA SteadyStep ==
  ASSUME TypeOK, [Next]_vars, loaded, loaded', ~ \E c \in Clients : SizeUpdate(c)
  PROVE  Steady
<1>t. pc \in [Clients -> Labels] /\ frame \in [Clients -> AnyFrame]
  BY DEF TypeOK, FileTypes
<1>1. CASE UNCHANGED vars
  BY <1>1 DEF vars, files, Steady, InFlight
<1>2. ASSUME NEW d \in Clients, Call(d) \/ Step(d) \/ Acquire(d) \/ Interrupted(d)
      PROVE  Steady
  <2>0. /\ \A c \in Clients : c # d => pc'[c] = pc[c] /\ frame'[c] = frame[c]
        /\ ~WriteCopy(d) /\ ~SizeLoad(d) /\ ~SizeStore(d)
    BY <1>2, OtherClient DEF SizeUpdate
  <2>1. buffer_size' = buffer_size
    BY <1>2, <2>0 DEF Call, aesd_open, aesd_release, aesd_read, aesd_write, aesd_llseek, aesd_ioctl,
       Step, ReadFind, ReadLength, ReadCopy, EvictFree, EvictClear, AddOut, AddStore, AddIn,
       WriteUnlock, IoctlLoop, IoctlEntry, Acquire, WriteAllocFails, IoctlLock, Interrupted
  <2>2. \/ InFlight(d) /\ InFlight(d)' /\ pc'[d] # "size_store" /\ frame'[d] = frame[d]
        \/ ~InFlight(d) /\ ~InFlight(d)'
    <3> USE DEF InFlight, WritePC, AddPC, EvictPC
    <3>1. CASE Call(d)
      BY <1>t, <3>1 DEF Call, aesd_open, aesd_release, aesd_read, aesd_write, aesd_llseek, aesd_ioctl,
         Return, Enter, Goto
    <3>2. CASE ReadFind(d) \/ ReadLength(d) \/ ReadCopy(d) \/ IoctlLoop(d) \/ IoctlEntry(d)
      BY <1>t, <3>2 DEF ReadFind, ReadLength, ReadCopy, IoctlLoop, IoctlEntry, Return, Goto
    <3>3. CASE EvictFree(d) \/ EvictClear(d) \/ AddOut(d) \/ AddStore(d) \/ AddIn(d) \/ WriteUnlock(d)
      BY <1>t, <3>3 DEF EvictFree, EvictClear, AddOut, AddStore, AddIn, WriteUnlock, Goto
    <3>4. CASE WriteAllocFails(d) \/ IoctlLock(d) \/ Interrupted(d)
      BY <1>t, <3>4 DEF WriteAllocFails, IoctlLock, Interrupted, Return, Goto
    <3> QED
      BY <1>2, <2>0, <3>1, <3>2, <3>3, <3>4 DEF Step, Acquire
  <2>3. ~InFlight(d)' => pc'[d] # "size_store"
    BY DEF InFlight, WritePC
  <2>4. \A c \in Clients : c # d => (InFlight(c)' <=> InFlight(c))
    BY <2>0 DEF InFlight
  <2> QED
    BY <2>0, <2>1, <2>2, <2>3, <2>4 DEF Steady
<1>3. CASE aesd_init_module \/ aesd_cleanup_module
  BY <1>3 DEF aesd_init_module, aesd_cleanup_module
<1> QED
  BY <1>1, <1>2, <1>3 DEF Next

\* The bytes of a write in flight, and the size that it has loaded.
LEMMA WriterTypes ==
  ASSUME TypeOK
  PROVE  /\ \A c \in Clients : InFlight(c) => frame[c].retval \in Nat /\ frame[c].loaded_size \in Nat
         /\ \A c \in Clients : pc[c] = "size_store" => InFlight(c)
         /\ buffer_size \in Nat
<1>1. \A c \in Clients : pc[c] \in WritePC => frame[c] \in WriteFrame
  BY FrameKinds DEF TypeOK, FileTypes
<1> QED
  BY <1>1 DEF TypeOK, DeviceTypes, InFlight, WriteFrame, WritePC

\* A module that has just been loaded holds nothing.
LEMMA HeldNothing ==
  ASSUME IInv, IInv', aesd_init_module, loaded'
  PROVE  Held' = 0 /\ buffer_size' = 0 /\ \A c \in Clients : pc'[c] = "closed"
<1>s. SettledIs'
  BY SettledNext
<1>1. ~Adding' /\ cb' = EmptyBuffer /\ tmp_size' = 0 /\ \A c \in Clients : pc'[c] = "closed"
  BY DEF aesd_init_module, files, Adding, IInv, LockInv, UnloadedClosed, EvictPC, AddPC
<1>2. Settled' = EmptyBuffer
  BY <1>1, <1>s DEF SettledIs, SettledBy, EvictPC
<1>3. Sizes' = << >>
  <2>1. Count(EmptyBuffer) = 0
    BY NAssumption DEF Count, EmptyBuffer
  <2>2. Sizes' = [k \in 1..0 |-> LogOf(Settled)'[k].size]
    BY <1>2, <2>1 DEF Sizes
  <2> QED
    BY <2>2
<1>4. Held' = TotalSize(<< >>) + 0
  BY <1>1, <1>3 DEF Held
<1> QED
  BY <1>1, <1>4, TotalSizeEmpty DEF aesd_init_module

\* How the three steps of a write that touch the sizes change what is in flight.
LEMMA UpdateStep ==
  ASSUME TypeOK, NEW c \in Clients, SizeUpdate(c)
  PROVE  /\ \A d \in Clients \ {c} : pc'[d] = pc[d] /\ frame'[d] = frame[d]
         /\ Flying' = IF SizeStore(c) THEN Flying \ {c} ELSE Flying \cup {c}
         /\ WriteCopy(c) => c \notin Flying /\ pc'[c] # "size_store"
         /\ SizeLoad(c) \/ SizeStore(c) => c \in Flying
<1>t. pc \in [Clients -> Labels] /\ frame \in [Clients -> AnyFrame]
  BY DEF TypeOK, FileTypes
<1> USE DEF InFlight, WritePC, AddPC, EvictPC
<1>1. \A d \in Clients \ {c} : pc'[d] = pc[d] /\ frame'[d] = frame[d]
  BY <1>t DEF SizeUpdate, WriteCopy, SizeLoad, SizeStore, Return, Goto
<1>2. CASE WriteCopy(c)
  <2>1. pc[c] = "write_lock" /\ pc'[c] \in {"evict_free", "add_out", "write_unlock"}
    BY <1>t, <1>2 DEF WriteCopy, Goto, AfterCopy
  <2>2. ~SizeStore(c) /\ ~SizeLoad(c)
    BY <2>1 DEF SizeStore, SizeLoad
  <2> QED
    BY <1>1, <1>2, <2>1, <2>2 DEF Flying
<1>3. CASE SizeLoad(c)
  <2>1. pc[c] = "size_load" /\ pc'[c] = "size_store"
    BY <1>t, <1>3 DEF SizeLoad, Goto
  <2>2. ~SizeStore(c) /\ ~WriteCopy(c)
    BY <2>1 DEF SizeStore, WriteCopy
  <2> QED
    BY <1>1, <1>3, <2>1, <2>2 DEF Flying
<1>4. CASE SizeStore(c)
  <2>1. pc[c] = "size_store" /\ pc'[c] = "idle"
    BY <1>t, <1>4 DEF SizeStore, Return, Goto
  <2>2. ~WriteCopy(c)
    BY <2>1 DEF WriteCopy
  <2> QED
    BY <1>1, <1>4, <2>1, <2>2 DEF Flying
<1> QED
  BY <1>2, <1>3, <1>4 DEF SizeUpdate

\* While the module stays loaded and the buffer does not fill.
LEMMA SizeKept ==
  ASSUME IInv, IInv', SizeInv, [Next]_vars, loaded, loaded', ~cb.full
  PROVE  SizeInv'
<1>t. TypeOK /\ TypeOK' /\ frame \in [Clients -> AnyFrame] /\ pc \in [Clients -> Labels]
  BY DEF IInv, TypeInv, TypeOK, FileTypes
<1>w. /\ \A c \in Clients : InFlight(c) => frame[c].retval \in Nat /\ frame[c].loaded_size \in Nat
      /\ \A c \in Clients : pc[c] = "size_store" => InFlight(c)
      /\ buffer_size \in Nat
  BY <1>t, WriterTypes
<1>h. Held \in Nat
  BY DEF SizeInv
<1>1. PICK s \in Nat :
        /\ SumsTo(Flying, Retval, s)
        /\ buffer_size + s <= Held
        /\ \A c \in Clients : pc[c] = "size_store" => frame[c].loaded_size + s <= Held
  BY DEF SizeInv
<1>2. SUFFICES /\ Held' \in Nat
               /\ \E r \in Nat :
                    /\ SumsTo(Flying', Retval', r)
                    /\ buffer_size' + r <= Held'
                    /\ \A c \in Clients : pc'[c] = "size_store" => frame'[c].loaded_size + r <= Held'
  BY DEF SizeInv
<1>3. CASE ~ \E c \in Clients : SizeUpdate(c)
  <2>1. Steady
    BY <1>3, <1>t, SteadyStep
  <2>2. Held' = Held
    BY <1>3, HeldKept DEF SizeUpdate
  <2>3. Flying' = Flying
    BY <2>1 DEF Steady, Flying
  <2>4. \A c \in Flying : Retval'[c] = Retval[c]
    BY <2>1 DEF Steady, Flying, Retval
  <2>5. SumsTo(Flying', Retval', s)
    BY <1>1, <2>3, <2>4, SumOfSame
  <2> QED
    BY <1>1, <1>h, <2>1, <2>2, <2>5 DEF Steady
<1>4. ASSUME NEW c \in Clients, WriteCopy(c)
      PROVE  /\ Held' \in Nat
             /\ \E r \in Nat :
                  /\ SumsTo(Flying', Retval', r)
                  /\ buffer_size' + r <= Held'
                  /\ \A d \in Clients : pc'[d] = "size_store" => frame'[d].loaded_size + r <= Held'
  <2>1. PICK n \in Nat : frame' = [frame EXCEPT ![c].retval = n] /\ Held' = Held + n
    BY <1>4, HeldGrows
  <2>2. /\ \A d \in Clients \ {c} : pc'[d] = pc[d] /\ frame'[d] = frame[d]
        /\ c \notin Flying /\ pc'[c] # "size_store" /\ Flying' = Flying \cup {c}
    <3>1. SizeUpdate(c) /\ ~SizeStore(c)
      BY <1>4 DEF SizeUpdate, WriteCopy, SizeStore
    <3> QED
      BY <1>t, <1>4, <3>1, UpdateStep
  <2>3. frame[c] \in WriteFrame
    BY <1>t, <1>4, FrameKinds DEF WriteCopy, TypeOK, FileTypes, WritePC
  <2>4. frame'[c].retval = n
    BY <1>t, <2>1, <2>3 DEF WriteFrame
  <2>5. Retval'[c] = n /\ \A d \in Flying : Retval'[d] = Retval[d]
    BY <2>2, <2>4 DEF Retval, Flying
  <2>6. SumsTo(Flying, Retval', s)
    BY <1>1, <2>5, SumOfSame
  <2>7. SumsTo(Flying', Retval', s + n)
    BY <2>2, <2>5, <2>6, SumWithOneMore
  <2>8. buffer_size' = buffer_size
    BY <1>4 DEF WriteCopy
  <2>9. s + n \in Nat /\ Held' \in Nat /\ buffer_size' + (s + n) <= Held'
    BY <1>1, <1>h, <1>w, <2>1, <2>8
  <2>10. ASSUME NEW d \in Clients, pc'[d] = "size_store"
         PROVE  frame'[d].loaded_size + (s + n) <= Held'
    <3>1. pc[d] = "size_store" /\ frame'[d] = frame[d]
      BY <2>2, <2>10
    <3> DEFINE l == frame[d].loaded_size
    <3>2. l \in Nat /\ l + s <= Held
      BY <1>1, <1>w, <3>1
    <3> HIDE DEF l
    <3>3. l + (s + n) <= Held'
      BY <1>h, <2>1, <3>2
    <3> QED
      BY <3>1, <3>3 DEF l
  <2> QED
    BY <2>7, <2>9, <2>10
<1>5. ASSUME NEW c \in Clients, SizeLoad(c)
      PROVE  /\ Held' \in Nat
             /\ \E r \in Nat :
                  /\ SumsTo(Flying', Retval', r)
                  /\ buffer_size' + r <= Held'
                  /\ \A d \in Clients : pc'[d] = "size_store" => frame'[d].loaded_size + r <= Held'
  <2>1. /\ \A d \in Clients \ {c} : pc'[d] = pc[d] /\ frame'[d] = frame[d]
        /\ c \in Flying /\ Flying' = Flying
    <3>1. SizeUpdate(c) /\ ~SizeStore(c)
      BY <1>5 DEF SizeUpdate, SizeLoad, SizeStore
    <3> QED
      BY <1>t, <1>5, <3>1, UpdateStep
  <2>2. frame[c] \in WriteFrame
    BY <1>t, <1>5, FrameKinds DEF SizeLoad, TypeOK, FileTypes, WritePC
  <2>3. /\ frame'[c].retval = frame[c].retval /\ frame'[c].loaded_size = buffer_size
        /\ buffer_size' = buffer_size
    BY <1>t, <1>5, <2>2 DEF SizeLoad, WriteFrame
  <2>4. ~ \E d \in Clients : WriteCopy(d)
    <3>1. pc[c] # "write_lock" /\ pc'[c] # pc[c]
      BY <1>5, <1>t DEF SizeLoad, Goto
    <3>2. \A d \in Clients : WriteCopy(d) => pc[d] = "write_lock" /\ \A e \in Clients \ {d} : pc'[e] = pc[e]
      BY <1>t DEF WriteCopy, Goto
    <3> QED
      BY <3>1, <3>2
  <2>5. Held' = Held
    BY <2>4, HeldKept
  <2>6. \A d \in Flying : Retval'[d] = Retval[d]
    BY <2>1, <2>3 DEF Retval, Flying
  <2>7. SumsTo(Flying', Retval', s)
    BY <1>1, <2>1, <2>6, SumOfSame
  <2>8. \A d \in Clients : pc'[d] = "size_store" => frame'[d].loaded_size + s <= Held'
    BY <1>1, <2>1, <2>3, <2>5
  <2> QED
    BY <1>1, <1>h, <2>3, <2>5, <2>7, <2>8
<1>6. ASSUME NEW c \in Clients, SizeStore(c)
      PROVE  /\ Held' \in Nat
             /\ \E r \in Nat :
                  /\ SumsTo(Flying', Retval', r)
                  /\ buffer_size' + r <= Held'
                  /\ \A d \in Clients : pc'[d] = "size_store" => frame'[d].loaded_size + r <= Held'
  <2>1. /\ \A d \in Clients \ {c} : pc'[d] = pc[d] /\ frame'[d] = frame[d]
        /\ c \in Flying /\ Flying' = Flying \ {c}
    BY <1>t, <1>6, UpdateStep DEF SizeUpdate
  <2>2. pc[c] = "size_store" /\ pc'[c] = "idle" /\ buffer_size' = frame[c].loaded_size + frame[c].retval
    BY <1>t, <1>6 DEF SizeStore, Return, Goto
  <2>3. ~ \E d \in Clients : WriteCopy(d)
    <3>1. pc[c] # "write_lock" /\ pc'[c] # pc[c]
      BY <2>2
    <3>2. \A d \in Clients : WriteCopy(d) => pc[d] = "write_lock" /\ \A e \in Clients \ {d} : pc'[e] = pc[e]
      BY <1>t DEF WriteCopy, Goto
    <3> QED
      BY <3>1, <3>2
  <2>4. Held' = Held
    BY <2>3, HeldKept
  <2>5. \A d \in Flying : Retval[d] \in Nat
    BY <1>w DEF Retval, Flying
  <2> DEFINE r == s - Retval[c]
  <2>6. SumsTo(Flying \ {c}, Retval, r)
    BY <1>1, <2>1, <2>5, SumWithOneLess
  <2>r. r \in Nat /\ Retval[c] \in Nat /\ s = r + Retval[c]
    <3>1. r \in Nat
      <4> HIDE DEF r
      <4> QED BY <2>6, SumIsNat
    <3> QED
      BY <1>1, <2>1, <2>5, <3>1
  <2> HIDE DEF r
  <2>7. \A d \in Flying \ {c} : Retval'[d] = Retval[d]
    BY <2>1 DEF Retval, Flying
  <2>8. SumsTo(Flying', Retval', r)
    BY <2>1, <2>6, <2>7, SumOfSame
  <2> DEFINE l == frame[c].loaded_size
             v == frame[c].retval
  <2>9. l \in Nat /\ v \in Nat /\ s = r + v /\ l + s <= Held /\ buffer_size' = l + v
    BY <1>1, <1>w, <2>2, <2>r DEF Retval
  <2> HIDE DEF l, v
  <2>10. buffer_size' + r <= Held'
    BY <1>h, <2>4, <2>9, <2>r
  <2>11. ASSUME NEW d \in Clients, pc'[d] = "size_store"
         PROVE  frame'[d].loaded_size + r <= Held'
    <3>1. pc[d] = "size_store" /\ frame'[d] = frame[d]
      BY <2>1, <2>2, <2>11
    <3> DEFINE m == frame[d].loaded_size
    <3>2. m \in Nat /\ m + s <= Held
      BY <1>1, <1>w, <3>1
    <3> HIDE DEF m
    <3>3. m + r <= Held'
      BY <1>h, <2>4, <2>9, <2>r, <3>2
    <3> QED
      BY <3>1, <3>3 DEF m
  <2> QED
    BY <1>h, <2>4, <2>8, <2>10, <2>11, <2>r
<1> QED
  BY <1>3, <1>4, <1>5, <1>6 DEF SizeUpdate

LEMMA SizeStep ==
  ASSUME IInv, IInv', SizeInv, [Next]_vars
  PROVE  SizeInv'
<1> SUFFICES ASSUME loaded', ~cb'.full
             PROVE  SizeInv'
  BY DEF SizeInv
<1>1. CASE loaded
  <2>1. ~cb.full
    BY <1>1, GrowStep
  <2> QED
    BY <1>1, <2>1, SizeKept
<1>2. CASE ~loaded
  <2>1. aesd_init_module
    <3>1. ASSUME NEW c \in Clients, LockedStep(c)
          PROVE  loaded
      BY <3>1, LockedAlone
    <3> QED
      BY <1>2, <3>1, StepKinds DEF aesd_cleanup_module, Quiet, IInv, TypeInv
  <2>2. Held' = 0 /\ buffer_size' = 0 /\ \A c \in Clients : pc'[c] = "closed"
    BY <2>1, HeldNothing
  <2>3. Flying' = {} /\ \A c \in Clients : pc'[c] # "size_store"
    BY <2>2 DEF Flying, InFlight, WritePC, AddPC, EvictPC
  <2>4. SumsTo(Flying', Retval', 0)
    BY <2>3, SumOfNone
  <2> QED
    BY <2>2, <2>3, <2>4 DEF SizeInv
<1> QED
  BY <1>1, <1>2

(***************************************************************************)
(* Until the buffer is full SEEK_END never lies past the bytes that the    *)
(* device holds, for any number of clients: the update of buffer_size      *)
(* after the unlock may lose a write that runs between its load and its    *)
(* store, but counts none twice.                                           *)
(***************************************************************************)
THEOREM DriverSeekEnd == Spec => []SeekEndWithinData
<1>1. Init => SizeInv
  BY DEF Init, SizeInv
<1>2. IInv /\ IInv' /\ SizeInv /\ [Next]_vars => SizeInv'
  BY SizeStep
<1>3. IInv /\ SizeInv => SeekEndWithinData
  <2> SUFFICES ASSUME IInv, SizeInv, loaded, ~cb.full
               PROVE  buffer_size <= Held
    BY DEF SeekEndWithinData
  <2>1. buffer_size \in Nat
    BY DEF IInv, TypeInv, TypeOK, DeviceTypes
  <2>2. PICK s \in Nat : buffer_size + s <= Held
    BY DEF SizeInv
  <2>3. Held \in Nat
    BY DEF SizeInv
  <2> QED
    BY <2>1, <2>2, <2>3
<1> QED
  BY <1>1, <1>2, <1>3, DriverInductive, PTL DEF Spec

\* One client: its own write is the only one in flight.
LEMMA ExactStep ==
  ASSUME Alone, IInv, IInv', ExactInv, [Next]_vars
  PROVE  ExactInv'
<1> SUFFICES ASSUME loaded', ~cb'.full
             PROVE  ExactInv'
  BY DEF ExactInv
<1>t. TypeOK /\ TypeOK' /\ frame \in [Clients -> AnyFrame] /\ pc \in [Clients -> Labels]
  BY DEF IInv, TypeInv, TypeOK, FileTypes
<1>w. /\ \A c \in Clients : InFlight(c) => frame[c].retval \in Nat /\ frame[c].loaded_size \in Nat
      /\ \A c \in Clients : pc[c] = "size_store" => InFlight(c)
      /\ buffer_size \in Nat
  BY <1>t, WriterTypes
<1>1. CASE ~loaded
  <2>1. aesd_init_module
    <3>1. ASSUME NEW c \in Clients, LockedStep(c)
          PROVE  loaded
      BY <3>1, LockedAlone
    <3> QED
      BY <1>1, <3>1, StepKinds DEF aesd_cleanup_module, Quiet, IInv, TypeInv
  <2>2. Held' = 0 /\ buffer_size' = 0 /\ \A c \in Clients : pc'[c] = "closed"
    BY <2>1, HeldNothing
  <2>3. \A c \in Clients : pc'[c] # "size_store" /\ ~InFlight(c)'
    BY <2>2 DEF InFlight, WritePC, AddPC, EvictPC
  <2> QED
    BY <2>2, <2>3 DEF ExactInv
<1>2. CASE loaded
  <2>0. ~cb.full
    BY <1>2, GrowStep
  <2>1. /\ Held \in Nat
        /\ Flying = {} => buffer_size = Held
        /\ \A c \in Clients :
             /\ InFlight(c) => buffer_size + frame[c].retval = Held
             /\ pc[c] = "size_store" => frame[c].loaded_size = buffer_size
    BY <1>2, <2>0 DEF ExactInv
  <2>2. CASE ~ \E c \in Clients : SizeUpdate(c)
    <3>1. Steady
      BY <1>t, <1>2, <2>2, SteadyStep
    <3>2. Held' = Held
      BY <1>2, <2>2, HeldKept DEF SizeUpdate
    <3>3. Flying' = Flying
      BY <3>1 DEF Steady, Flying
    <3> QED
      BY <2>1, <3>1, <3>2, <3>3 DEF Steady, ExactInv
  <2>3. ASSUME NEW c \in Clients, WriteCopy(c)
        PROVE  ExactInv'
    <3>1. PICK n \in Nat : frame' = [frame EXCEPT ![c].retval = n] /\ Held' = Held + n
      BY <1>2, <2>0, <2>3, HeldGrows
    <3>2. c \notin Flying /\ pc'[c] # "size_store" /\ c \in Flying'
      <4>1. SizeUpdate(c) /\ ~SizeStore(c)
        BY <2>3 DEF SizeUpdate, WriteCopy, SizeStore
      <4> QED
        BY <1>t, <2>3, <4>1, UpdateStep
    <3>3. Flying = {} /\ \A d \in Clients : d # c => pc'[d] = "closed"
      <4>1. pc[c] # "closed" /\ \A d \in Clients : d # c => pc'[d] = pc[d]
        BY <1>t, <2>3 DEF WriteCopy, Goto
      <4>2. \A d \in Clients : d # c => pc[d] = "closed"
        BY <4>1 DEF Alone
      <4> QED
        BY <3>2, <4>1, <4>2 DEF Flying, InFlight, WritePC, AddPC, EvictPC
    <3>c. \A d \in Clients : d # c => ~InFlight(d)' /\ pc'[d] # "size_store"
      BY <3>3 DEF InFlight, WritePC, AddPC, EvictPC
    <3>4. frame[c] \in WriteFrame
      BY <1>t, <2>3, FrameKinds DEF WriteCopy, TypeOK, FileTypes, WritePC
    <3>5. frame'[c].retval = n
      BY <1>t, <3>1, <3>4 DEF WriteFrame
    <3>6. buffer_size' = buffer_size
      BY <2>3 DEF WriteCopy
    <3>7. Held' \in Nat /\ buffer_size' + n = Held'
      BY <2>1, <3>1, <3>3, <3>6
    <3> QED
      BY <3>2, <3>c, <3>5, <3>7 DEF ExactInv
  <2>4. ASSUME NEW c \in Clients, SizeLoad(c) \/ SizeStore(c)
        PROVE  /\ Held' = Held /\ c \in Flying
               /\ \A d \in Clients : d # c => ~InFlight(d)' /\ pc'[d] # "size_store"
    <3>0. pc[c] # "closed" /\ \A d \in Clients : d # c => pc'[d] = pc[d]
      BY <1>t, <2>4 DEF SizeLoad, SizeStore, Return, Goto
    <3>c. \A d \in Clients : d # c => pc[d] = "closed"
      BY <3>0 DEF Alone
    <3>1. \A d \in Clients : d # c => ~InFlight(d)' /\ pc'[d] # "size_store"
      BY <3>0, <3>c DEF InFlight, WritePC, AddPC, EvictPC
    <3>2. ~ \E d \in Clients : WriteCopy(d)
      BY <2>4, <3>c DEF SizeLoad, SizeStore, WriteCopy
    <3>3. c \in Flying
      BY <1>t, <2>4, UpdateStep DEF SizeUpdate
    <3> QED
      BY <1>2, <3>1, <3>2, <3>3, HeldKept
  <2>5. ASSUME NEW c \in Clients, SizeLoad(c)
        PROVE  ExactInv'
    <3>1. /\ Held' = Held /\ c \in Flying
          /\ \A d \in Clients : d # c => ~InFlight(d)' /\ pc'[d] # "size_store"
      BY <2>4, <2>5
    <3>2. frame[c] \in WriteFrame
      BY <1>t, <2>5, FrameKinds DEF SizeLoad, TypeOK, FileTypes, WritePC
    <3>3. /\ frame'[c].retval = frame[c].retval /\ frame'[c].loaded_size = buffer_size
          /\ buffer_size' = buffer_size
      BY <1>t, <2>5, <3>2 DEF SizeLoad, WriteFrame
    <3>4. c \in Flying'
      <4>1. SizeUpdate(c) /\ ~SizeStore(c)
        BY <2>5 DEF SizeUpdate, SizeLoad, SizeStore
      <4> QED
        BY <1>t, <2>5, <4>1, UpdateStep
    <3>5. buffer_size + frame[c].retval = Held
      BY <2>1, <3>1 DEF Flying
    <3> QED
      BY <2>1, <3>1, <3>3, <3>4, <3>5 DEF ExactInv
  <2>6. ASSUME NEW c \in Clients, SizeStore(c)
        PROVE  ExactInv'
    <3>1. /\ Held' = Held /\ c \in Flying
          /\ \A d \in Clients : d # c => ~InFlight(d)' /\ pc'[d] # "size_store"
      BY <2>4, <2>6
    <3>2. pc[c] = "size_store" /\ pc'[c] = "idle" /\ buffer_size' = frame[c].loaded_size + frame[c].retval
      BY <1>t, <2>6 DEF SizeStore, Return, Goto
    <3>3. buffer_size' = Held'
      <4>1. frame[c].loaded_size = buffer_size /\ buffer_size + frame[c].retval = Held
        BY <2>1, <3>1, <3>2 DEF Flying
      <4> QED
        BY <3>1, <3>2, <4>1
    <3>4. ~InFlight(c)'
      BY <3>2 DEF InFlight, WritePC, AddPC, EvictPC
    <3> QED
      BY <2>1, <3>1, <3>2, <3>3, <3>4 DEF ExactInv
  <2> QED
    BY <2>2, <2>3, <2>5, <2>6 DEF SizeUpdate
<1> QED
  BY <1>1, <1>2

(***************************************************************************)
(* With one client SEEK_END is exactly the end of the bytes that the       *)
(* device holds, until the buffer is full, however its writes are cut into *)
(* commands and whichever of their copies stop early.                      *)
(***************************************************************************)
THEOREM DriverSeekEndAlone == Spec /\ []Alone => []SeekEndExact
<1>1. Init => ExactInv
  BY DEF Init, ExactInv
<1>2. Alone /\ IInv /\ IInv' /\ ExactInv /\ [Next]_vars => ExactInv'
  BY ExactStep
<1>3. ExactInv => SeekEndExact
  BY DEF ExactInv, SeekEndExact, Flying, InFlight, At
<1> QED
  BY <1>1, <1>2, <1>3, DriverInductive, PTL DEF Spec
=============================================================================
