--------------------------- MODULE CircularBuffer ---------------------------
(***************************************************************************)
(* The functions of aesd-char-driver/aesd-circular-buffer.c as operators   *)
(* on a record that stands for struct aesd_circular_buffer.  They take no  *)
(* lock: "any necessary locking must be performed by caller".              *)
(*                                                                         *)
(* Left out: the field `offset` of an entry and the field `size` of the    *)
(* buffer, which no function assigns or reads.                             *)
(***************************************************************************)
EXTENDS Naturals

CONSTANTS N,     \* AESDCHAR_MAX_WRITE_OPERATIONS_SUPPORTED, 10 in the header
          NULL   \* the null pointer

(***************************************************************************)
(* Offsets are uint8_t and are compared with N after an increment, so N    *)
(* must fit in a byte; add_entry refuses N = 0.                            *)
(***************************************************************************)
ASSUME NAssumption == N \in 1..255

Slots == 0..(N - 1)

EmptyEntry == [buffptr |-> NULL, size |-> 0]

\* struct aesd_circular_buffer, with its entries drawn from the set E.
Buffers(E) == [entry    : [Slots -> E],
               in_offs  : Slots,
               out_offs : Slots,
               full     : BOOLEAN]

\* aesd_circular_buffer_init: memset to zero.
EmptyBuffer ==
  [entry    |-> [i \in Slots |-> EmptyEntry],
   in_offs  |-> 0,
   out_offs |-> 0,
   full     |-> FALSE]

-----------------------------------------------------------------------------
(* aesd_circular_buffer_add_entry, in the order of its stores.             *)

\* Increment of a uint8_t.
Inc8(x) == (x + 1) % 256

\* Fault: the wrap-around test is off by one.
AdvanceLateWrap(x) == IF Inc8(x) = N + 1 THEN 0 ELSE Inc8(x)

\* The increment and wrap-around used for both offsets.
Advance(x) == IF Inc8(x) = N THEN 0 ELSE Inc8(x)

\* Fault: the oldest entry is overwritten but out_offs stays.
KeepOutOffs(b) == b

\* A full buffer gives up its oldest entry.
AdvanceOut(b) ==
  IF b.full THEN [b EXCEPT !.out_offs = Advance(@)] ELSE b

StoreEntry(b, e) == [b EXCEPT !.entry[b.in_offs] = e]

\* Fault: full is recomputed from the offsets before they move.
AdvanceInFullLate(b) ==
  [b EXCEPT !.in_offs = Advance(@), !.full = @ \/ b.in_offs = b.out_offs]

AdvanceIn(b) ==
  LET in == Advance(b.in_offs)
  IN  [b EXCEPT !.in_offs = in, !.full = @ \/ in = b.out_offs]

add_entry(b, e) == AdvanceIn(StoreEntry(AdvanceOut(b), e))

\* Fault: the returned pointer is looked up after the entry is replaced.
evicted_by_add_in(b) == IF b.full THEN b.entry[Advance(b.out_offs)].buffptr
                                  ELSE NULL

\* The value add_entry returns: the memory of the entry that it drops.
evicted_by_add(b) == IF b.full THEN b.entry[b.out_offs].buffptr ELSE NULL

-----------------------------------------------------------------------------
(* aesd_circular_buffer_find_entry_offset_for_fpos.                        *)

NextSlot(current_offset) == (current_offset + 1) % N

\* Fault: >= in place of >, so that an offset at the end of an entry hits it.
HitInclusive(b, current_offset, total_chars, char_offset) ==
  total_chars + b.entry[current_offset].size >= char_offset

\* The test of one iteration of the search.
Hit(b, current_offset, total_chars, char_offset) ==
  total_chars + b.entry[current_offset].size > char_offset

(***************************************************************************)
(* The do-while loop visits the slots from out_offs on.  Iteration k runs  *)
(* unless one of the tests that follow iterations 0..k-1 found the next    *)
(* slot equal to in_offs.  The result is the slot and the byte within it,  *)
(* or NULL when there is not enough data.                                  *)
(***************************************************************************)
find_entry(b, char_offset) ==
  LET slot[k \in 0..N] == IF k = 0 THEN b.out_offs ELSE NextSlot(slot[k - 1])
      total[k \in 0..N] ==
        IF k = 0 THEN 0 ELSE total[k - 1] + b.entry[slot[k - 1]].size
      visited == {k \in Slots : \A j \in 1..k : slot[j] # b.in_offs}
      hits == {k \in visited : Hit(b, slot[k], total[k], char_offset)}
      first == CHOOSE k \in hits : \A j \in hits : k <= j
  IN  IF hits = {} THEN NULL
      ELSE [slot |-> slot[first], byte |-> char_offset - total[first]]

-----------------------------------------------------------------------------
(* The log that a buffer stands for: what the proofs and the reference     *)
(* definitions are stated with.                                            *)

\* How many entries the buffer holds.
Count(b) ==
  IF b.full THEN N
  ELSE IF b.out_offs <= b.in_offs THEN b.in_offs - b.out_offs
  ELSE N + b.in_offs - b.out_offs

\* The slot of the k-th oldest entry, k counted from 0.
SlotOf(b, k) ==
  IF b.out_offs + k < N THEN b.out_offs + k ELSE b.out_offs + k - N

LogOf(b) == [k \in 1..Count(b) |-> b.entry[SlotOf(b, k - 1)]]
=============================================================================
