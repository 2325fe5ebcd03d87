------------------------- MODULE CircularBufferLog --------------------------
(***************************************************************************)
(* The circular buffer as a component: a caller adds entries, initialises  *)
(* the buffer, and looks positions up.  Each call is atomic, as it is for  *)
(* a caller that holds the lock the comments ask for.                      *)
(***************************************************************************)
EXTENDS CircularBuffer, SequencesExt

CONSTANTS Ptr,    \* the allocations a caller may pass
          Sizes   \* the lengths they may have

ASSUME EntryAssumption ==
  /\ Sizes \subseteq Nat
  /\ NULL \notin Ptr

Entry == [buffptr : Ptr, size : Sizes]

VARIABLES buffer,  \* struct aesd_circular_buffer
          value    \* what the last add_entry returned

vars == <<buffer, value>>

Init ==
  /\ buffer = EmptyBuffer
  /\ value = NULL

aesd_circular_buffer_add_entry(add_entry_arg) ==
  /\ buffer' = add_entry(buffer, add_entry_arg)
  /\ value' = evicted_by_add(buffer)

aesd_circular_buffer_init ==
  /\ buffer' = EmptyBuffer
  /\ value' = NULL

Next ==
  \/ \E e \in Entry : aesd_circular_buffer_add_entry(e)
  \/ aesd_circular_buffer_init

Spec == Init /\ [][Next]_vars

-----------------------------------------------------------------------------
\* Every field has its type: the offsets always name a slot of the array.
TypeOK ==
  /\ buffer \in Buffers(Entry \cup {EmptyEntry})
  /\ value \in Ptr \cup {NULL}

(***************************************************************************)
(* The shape that the two offsets and the flag keep: until the buffer is   *)
(* full nothing is dropped and the entries fill the slots below in_offs    *)
(* and no others; from then on both offsets move together and every slot   *)
(* is in use.  in_offs = out_offs alone cannot tell empty from full.       *)
(***************************************************************************)
Shape ==
  /\ buffer.full => buffer.in_offs = buffer.out_offs
  /\ ~buffer.full => buffer.out_offs = 0
  /\ \A i \in Slots :
       buffer.entry[i] \in Entry <=> (buffer.full \/ i < buffer.in_offs)

Inv == TypeOK /\ Shape

\* The bytes of the log, oldest first, each named by its slot and index.
Concatenation ==
  FlattenSeq([k \in 1..Count(buffer) |->
                LET s == SlotOf(buffer, k - 1)
                IN  [i \in 1..buffer.entry[s].size |->
                       [slot |-> s, byte |-> i - 1]]])

(***************************************************************************)
(* The search agrees with its comment: it returns the entry and the byte   *)
(* at "the zero referenced character index if all buffer strings were      *)
(* concatenated end to end", and NULL exactly when that index is past the  *)
(* end (aesd-circular-buffer.c:21-27), in the empty, the partly filled and *)
(* the wrapped buffer.                                                     *)
(***************************************************************************)
FindMatchesConcatenation ==
  LET bytes == Concatenation
  IN  \A char_offset \in 0..(Len(bytes) + 1) :
        find_entry(buffer, char_offset) =
          IF char_offset < Len(bytes) THEN bytes[char_offset + 1] ELSE NULL

(***************************************************************************)
(* Refinement: the buffer is a log of its last N entries, and add_entry    *)
(* returns the memory of exactly the entry that leaves the log.            *)
(***************************************************************************)
Abstract == INSTANCE BoundedLog WITH log <- LogOf(buffer), value <- value

AbstractSpec == Abstract!Spec
=============================================================================
