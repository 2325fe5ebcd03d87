------------------------ MODULE CircularBufferProofs ------------------------
(***************************************************************************)
(* Proofs about the circular buffer, for every number of slots N, every    *)
(* set of allocations and every set of entry sizes.                        *)
(***************************************************************************)
EXTENDS CircularBufferLog, CircularBufferLemmas

\* The type and the shape of the buffer are an inductive invariant.
LEMMA BufferInvariant == Spec => []Inv
<1>1. Init => Inv
  BY NAssumption, EntryAssumption
  DEF Init, Inv, TypeOK, Shape, Buffers, EmptyBuffer, EmptyEntry, Entry, Slots
<1>2. Inv /\ [Next]_vars => Inv'
  <2> SUFFICES ASSUME Inv, [Next]_vars
               PROVE  Inv'
    OBVIOUS
  <2>1. ASSUME NEW e \in Entry, aesd_circular_buffer_add_entry(e)
        PROVE  Inv'
    <3>1. /\ buffer' \in Buffers(Entry \cup {EmptyEntry})
          /\ buffer'.entry = [buffer.entry EXCEPT ![buffer.in_offs] = e]
          /\ buffer'.in_offs = Advance(buffer.in_offs)
          /\ buffer'.out_offs = IF buffer.full THEN Advance(buffer.out_offs)
                                               ELSE buffer.out_offs
          /\ buffer'.full =
               (buffer.full \/ Advance(buffer.in_offs) = buffer'.out_offs)
      BY <2>1, AddEntryFields DEF aesd_circular_buffer_add_entry, Inv, TypeOK
    <3>2. TypeOK'
      BY <2>1, <3>1
      DEF aesd_circular_buffer_add_entry, evicted_by_add, Inv, TypeOK, Shape,
          Buffers, EmptyEntry, Entry
    <3>3. Shape'
      BY <3>1, AdvanceInSlots, NAssumption, EntryAssumption
      DEF Inv, TypeOK, Shape, Buffers, Slots
    <3> QED
      BY <3>2, <3>3 DEF Inv
  <2>2. CASE aesd_circular_buffer_init
    BY <2>2, NAssumption, EntryAssumption
    DEF aesd_circular_buffer_init, Inv, TypeOK, Shape, Buffers, EmptyBuffer,
        EmptyEntry, Entry, Slots
  <2>3. CASE UNCHANGED vars
    BY <2>3 DEF vars, Inv, TypeOK, Shape
  <2> QED
    BY <2>1, <2>2, <2>3 DEF Next
<1> QED
  BY <1>1, <1>2, PTL DEF Spec

\* The buffer keeps its shape: add_entry never leaves a gap below in_offs, and
\* once the buffer is full both offsets move together.
THEOREM BufferShape == Spec => []Shape
<1>1. Inv => Shape
  BY DEF Inv
<1> QED
  BY <1>1, BufferInvariant, PTL

-----------------------------------------------------------------------------
(* Refinement: the circular buffer implements the bounded log.             *)

\* The circular buffer implements the log of the last N entries: add_entry
\* keeps them in order across every wrap-around, and the pointer it returns
\* is the memory of the one entry that is dropped.
THEOREM BufferImplementsLog == Spec => AbstractSpec
<1> DEFINE E == Entry \cup {EmptyEntry}
<1>1. Init => Abstract!Init
  BY LogOfEmpty DEF Init, Abstract!Init
<1>2. Inv /\ [Next]_vars => [Abstract!Next]_<<LogOf(buffer), value>>
  <2> SUFFICES ASSUME Inv, [Next]_vars
               PROVE  [Abstract!Next]_<<LogOf(buffer), value>>
    OBVIOUS
  <2>1. buffer \in Buffers(E) /\ OffsetsAgree(buffer)
    BY DEF Inv, TypeOK, Shape, OffsetsAgree
  <2>2. ASSUME NEW e \in Entry, aesd_circular_buffer_add_entry(e)
        PROVE  Abstract!Add(e)
    <3>1. LogOf(buffer)' = IF buffer.full THEN Append(Tail(LogOf(buffer)), e)
                                         ELSE Append(LogOf(buffer), e)
      BY <2>1, <2>2, LogOfAdd DEF aesd_circular_buffer_add_entry
    <3>2. /\ LogOf(buffer) \in Seq(E)
          /\ Len(LogOf(buffer)) \in 0..N
          /\ buffer.full <=> Len(LogOf(buffer)) = N
      BY <2>1, LogOfBuffer
    <3>3. ASSUME buffer.full
          PROVE  value' = Head(LogOf(buffer)).buffptr
      <4>1. value' = buffer.entry[buffer.out_offs].buffptr
        BY <2>2, <3>3 DEF aesd_circular_buffer_add_entry, evicted_by_add
      <4>2. 1 \in 1..Count(buffer) /\ SlotOf(buffer, 0) = buffer.out_offs
        BY <2>1, <3>3, NAssumption DEF Count, SlotOf, Buffers, Slots
      <4>3. Head(LogOf(buffer)) = buffer.entry[buffer.out_offs]
        BY <2>1, <3>2, <4>2, LogOfBuffer
      <4> QED
        BY <4>1, <4>3
    <3>4. ~buffer.full => value' = NULL
      BY <2>2 DEF aesd_circular_buffer_add_entry, evicted_by_add
    <3>5. CASE buffer.full
      BY <3>1, <3>2, <3>3, <3>5 DEF Abstract!Add
    <3>6. CASE ~buffer.full
      <4>1. Len(LogOf(buffer)) < N
        BY <3>2, <3>6, NAssumption
      <4> QED
        BY <3>1, <3>4, <3>6, <4>1 DEF Abstract!Add
    <3> QED
      BY <3>5, <3>6
  <2>3. ASSUME aesd_circular_buffer_init
        PROVE  Abstract!Clear
    BY <2>3, LogOfEmpty DEF aesd_circular_buffer_init, Abstract!Clear
  <2>4. CASE UNCHANGED vars
    BY <2>4 DEF vars
  <2> QED
    BY <2>2, <2>3, <2>4 DEF Next, Abstract!Next
<1> QED
  BY <1>1, <1>2, BufferInvariant, PTL
  DEF Spec, AbstractSpec, Abstract!Spec

-----------------------------------------------------------------------------
(* The search, against the concatenation of the entries.                   *)

\* What the search sees of a buffer of this shape: the entries that it holds,
\* in order, and beyond them nothing that has a byte.
LEMMA SearchedEntries ==
  ASSUME Inv
  PROVE  /\ buffer.out_offs \in Slots
         /\ \A s \in Slots : buffer.entry[s].size \in Nat
         /\ Count(buffer) \in 0..N
         /\ \A k \in Slots : k < Count(buffer) => Reaches(buffer, k)
         /\ \A k \in Slots : Reaches(buffer, k) /\ ~ (k < Count(buffer)) =>
              /\ Count(buffer) = 0
              /\ \A s \in Slots : buffer.entry[s].size = 0
<1> DEFINE E == Entry \cup {EmptyEntry}
<1>1. buffer \in Buffers(E)
  BY DEF Inv, TypeOK
<1>2. \A e \in E : e.size \in Nat
  <2>1. \A e \in Entry : e.size \in Nat
    BY EntryAssumption DEF Entry
  <2>2. EmptyEntry.size \in Nat
    BY DEF EmptyEntry
  <2> QED
    BY <2>1, <2>2
<1>3. \A s \in Slots : buffer.entry[s] \in E
  <2> HIDE DEF E
  <2> QED BY <1>1 DEF Buffers
<1>4. /\ buffer.in_offs \in Slots /\ buffer.out_offs \in Slots
      /\ buffer.full \in BOOLEAN
  <2> HIDE DEF E
  <2> QED BY <1>1 DEF Buffers
<1>5. \A s \in Slots : buffer.entry[s].size \in Nat
  <2> HIDE DEF E
  <2> QED BY <1>2, <1>3
<1>6. CASE buffer.full
  <2>1. Count(buffer) = N /\ buffer.in_offs = buffer.out_offs
    BY <1>6 DEF Count, Inv, Shape
  <2>2. ASSUME NEW k \in Slots, NEW i \in 1..k
        PROVE  SlotOf(buffer, i) # buffer.in_offs
    BY <1>4, <2>1, NAssumption DEF SlotOf, Slots
  <2>3. \A k \in Slots : k < N /\ N \in 0..N
    BY NAssumption DEF Slots
  <2>4. \A k \in Slots : Reaches(buffer, k)
    BY <2>2 DEF Reaches
  <2>5. N \in 0..N
    BY NAssumption
  <2> QED
    BY <1>4, <1>5, <2>1, <2>3, <2>4, <2>5
<1>7. CASE ~ buffer.full
  <2>1. buffer.out_offs = 0
    BY <1>7 DEF Inv, Shape
  <2>2. Count(buffer) = buffer.in_offs
    BY <1>4, <1>7, <2>1, NAssumption DEF Count, Slots
  <2>3. \A i \in Slots : SlotOf(buffer, i) = i
    BY <2>1, NAssumption DEF SlotOf, Slots
  <2>4. buffer.in_offs \in 0..N
    BY <1>4, NAssumption DEF Slots
  <2>5. ASSUME NEW k \in Slots, k < buffer.in_offs
        PROVE  Reaches(buffer, k)
    <3>1. \A i \in 1..k : i \in Slots /\ i # buffer.in_offs
      BY <1>4, <2>5, NAssumption DEF Slots
    <3> QED
      BY <2>3, <3>1 DEF Reaches
  <2>6. ASSUME NEW k \in Slots, Reaches(buffer, k), ~ (k < buffer.in_offs)
        PROVE  /\ buffer.in_offs = 0
               /\ \A s \in Slots : buffer.entry[s].size = 0
    <3>1. buffer.in_offs = 0
      <4> SUFFICES ASSUME buffer.in_offs # 0
                   PROVE  FALSE
        OBVIOUS
      <4>1. buffer.in_offs \in 1..k
        BY <1>4, <2>6, NAssumption DEF Slots
      <4>2. SlotOf(buffer, buffer.in_offs) = buffer.in_offs
        BY <1>4, <2>3
      <4> QED
        BY <2>6, <4>1, <4>2 DEF Reaches
    <3>2. ASSUME NEW s \in Slots
          PROVE  buffer.entry[s].size = 0
      <4>1. ~ (s < buffer.in_offs)
        BY <3>1, NAssumption DEF Slots
      <4>2. buffer.entry[s] \notin Entry
        BY <1>7, <4>1 DEF Inv, Shape
      <4>3. buffer.entry[s] = EmptyEntry
        BY <1>3, <4>2
      <4> QED
        BY <4>3 DEF EmptyEntry
    <3> QED
      BY <3>1, <3>2
  <2> QED
    BY <1>4, <1>5, <2>2, <2>4, <2>5, <2>6
<1> QED
  BY <1>4, <1>6, <1>7

\* The bytes of the log: where each entry's bytes lie.
LEMMA ConcatenationIs ==
  ASSUME Inv
  PROVE  /\ Len(Concatenation) = TotalFn(buffer)[Count(buffer)]
         /\ \A k \in 0..(Count(buffer) - 1), x \in Nat :
              TotalFn(buffer)[k] <= x /\ x < TotalFn(buffer)[k + 1] =>
                Concatenation[x + 1] =
                  [slot |-> SlotOf(buffer, k), byte |-> x - TotalFn(buffer)[k]]
<1> DEFINE c == Count(buffer)
           total == TotalFn(buffer)
           T == [slot : Slots, byte : Nat]
           bytes(v) == [i \in 1..buffer.entry[v].size |-> [slot |-> v, byte |-> i - 1]]
           s == [k \in 1..c |-> bytes(SlotOf(buffer, k - 1))]
           at == [k \in 0..c |-> total[k]]
<1>1. /\ buffer.out_offs \in Slots
      /\ \A v \in Slots : buffer.entry[v].size \in Nat
      /\ c \in 0..N
  BY SearchedEntries
<1>2. /\ total \in [0..N -> Nat]
      /\ total[0] = 0
      /\ \A k \in Slots : /\ total[k + 1] = total[k] + buffer.entry[SlotOf(buffer, k)].size
                          /\ SlotOf(buffer, k) \in Slots
  BY <1>1, TotalFnIs
<1>3. \A k \in 1..c : /\ k - 1 \in Slots /\ k \in 0..N /\ k - 1 \in 0..N
                      /\ (k - 1) + 1 = k /\ k \in 0..c /\ k - 1 \in 0..c
  BY <1>1, NAssumption DEF Slots
<1>4. ASSUME NEW v \in Slots
      PROVE  /\ bytes(v) \in Seq(T)
             /\ Len(bytes(v)) = buffer.entry[v].size
             /\ \A i \in 1..buffer.entry[v].size : bytes(v)[i] = [slot |-> v, byte |-> i - 1]
  <2> DEFINE z == buffer.entry[v].size
  <2>1. z \in Nat
    BY <1>1
  <2> HIDE DEF z
  <2>2. \A i \in 1..z : [slot |-> v, byte |-> i - 1] \in T
    BY <2>1
  <2> HIDE DEF T
  <2>3. /\ [i \in 1..z |-> [slot |-> v, byte |-> i - 1]] \in Seq(T)
        /\ Len([i \in 1..z |-> [slot |-> v, byte |-> i - 1]]) = z
    BY <2>1, <2>2
  <2> QED
    BY <2>3 DEF z
<1>5. Concatenation = FlattenSeq(s)
  BY Zenon DEF Concatenation
<1>6. ASSUME NEW k \in 1..c
      PROVE  s[k] = bytes(SlotOf(buffer, k - 1))
  OBVIOUS
<1> HIDE DEF total, T, bytes, c
<1>7. s \in Seq(Seq(T)) /\ Len(s) = c
  <2>1. \A k \in 1..c : bytes(SlotOf(buffer, k - 1)) \in Seq(T)
    BY <1>2, <1>3, <1>4
  <2>2. c \in Nat
    BY <1>1, NAssumption
  <2> QED
    BY <2>1, <2>2
<1> HIDE DEF s
<1>8. /\ at \in [0..c -> Nat]
      /\ \A k \in 0..c : at[k] = total[k]
  <2>1. \A k \in 0..c : k \in 0..N
    BY <1>1, NAssumption
  <2> QED
    BY <1>2, <2>1
<1>9. at[0] = 0 /\ 0 \in 0..c
  <2>1. 0 \in 0..c
    BY <1>1, NAssumption
  <2> QED
    BY <1>2, <1>8, <2>1
<1>10. \A k \in 1..c : at[k] = at[k - 1] + Len(s[k])
  <2> SUFFICES ASSUME NEW k \in 1..c
               PROVE  at[k] = at[k - 1] + Len(s[k])
    OBVIOUS
  <2>1. at[k] = total[k] /\ at[k - 1] = total[k - 1]
    BY <1>3, <1>8
  <2>2. total[(k - 1) + 1] = total[k - 1] + buffer.entry[SlotOf(buffer, k - 1)].size
        /\ SlotOf(buffer, k - 1) \in Slots
    BY <1>2, <1>3
  <2>3. Len(s[k]) = buffer.entry[SlotOf(buffer, k - 1)].size
    BY <1>4, <1>6, <2>2
  <2> QED
    BY <1>3, <2>1, <2>2, <2>3
<1> HIDE DEF at
<1>11. /\ Len(FlattenSeq(s)) = at[c]
       /\ \A k \in 1..c, i \in Nat :
            i \in 1..Len(s[k]) => FlattenSeq(s)[at[k - 1] + i] = s[k][i]
  <2>1. /\ at \in [0..Len(s) -> Nat]
        /\ at[0] = 0
        /\ \A k \in 1..Len(s) : at[k] = at[k - 1] + Len(s[k])
    BY <1>7, <1>8, <1>9, <1>10
  <2>2. /\ Len(FlattenSeq(s)) = at[Len(s)]
        /\ \A k \in 1..Len(s), i \in Nat :
             i \in 1..Len(s[k]) => FlattenSeq(s)[at[k - 1] + i] = s[k][i]
    BY <1>7, <2>1, FlattenIs
  <2> QED
    BY <1>7, <2>2
<1>12. Len(Concatenation) = total[c]
  <2>1. c \in 0..c
    BY <1>1, NAssumption
  <2> QED
    BY <1>5, <1>8, <1>11, <2>1
<1>13. ASSUME NEW k \in 0..(c - 1), NEW x \in Nat, total[k] <= x, x < total[k + 1]
       PROVE  Concatenation[x + 1] = [slot |-> SlotOf(buffer, k), byte |-> x - total[k]]
  <2> DEFINE v == SlotOf(buffer, k)
             i == x - total[k] + 1
  <2>1. k + 1 \in 1..c /\ (k + 1) - 1 = k /\ k \in Slots /\ k \in 0..c /\ k \in 0..N
    BY <1>1, NAssumption DEF Slots
  <2>2. total[k + 1] = total[k] + buffer.entry[v].size /\ v \in Slots /\ total[k] \in Nat
        /\ buffer.entry[v].size \in Nat
    BY <1>1, <1>2, <2>1
  <2>3. s[k + 1] = bytes(v) /\ Len(s[k + 1]) = buffer.entry[v].size
    BY <1>4, <1>6, <2>1, <2>2
  <2> HIDE DEF v
  <2>4. /\ i \in Nat /\ i \in 1..buffer.entry[v].size
        /\ total[k] + i = x + 1 /\ i - 1 = x - total[k]
    BY <1>13, <2>2
  <2> HIDE DEF i
  <2>5. FlattenSeq(s)[at[k] + i] = s[k + 1][i]
    BY <1>11, <2>1, <2>3, <2>4
  <2>6. at[k] = total[k]
    BY <1>8, <2>1
  <2>7. s[k + 1][i] = [slot |-> v, byte |-> i - 1]
    BY <1>4, <2>2, <2>3, <2>4
  <2> QED
    BY <1>5, <2>4, <2>5, <2>6, <2>7 DEF v
<1> QED
  BY <1>12, <1>13 DEF c, total

\* The search agrees with its comment in every reachable buffer, however
\* often it has wrapped, and whatever the sizes of the entries.
THEOREM BufferSearch == Spec => []FindMatchesConcatenation
<1>1. ASSUME Inv
      PROVE  FindMatchesConcatenation
  <2> DEFINE c == Count(buffer)
             total == TotalFn(buffer)
  <2>1. /\ buffer.out_offs \in Slots
        /\ \A v \in Slots : buffer.entry[v].size \in Nat
        /\ c \in 0..N
        /\ \A k \in Slots : k < c => Reaches(buffer, k)
        /\ \A k \in Slots : Reaches(buffer, k) /\ ~ (k < c) =>
             c = 0 /\ \A v \in Slots : buffer.entry[v].size = 0
    BY <1>1, SearchedEntries
  <2>2. /\ total \in [0..N -> Nat]
        /\ total[0] = 0
        /\ \A k \in Slots : /\ total[k + 1] = total[k] + buffer.entry[SlotOf(buffer, k)].size
                            /\ SlotOf(buffer, k) \in Slots
    BY <2>1, TotalFnIs
  <2>3. \A i, k \in 0..N : i <= k => total[i] <= total[k]
    BY <2>1, TotalFnGrows
  <2>4. /\ Len(Concatenation) = total[c]
        /\ \A k \in 0..(c - 1), x \in Nat :
             total[k] <= x /\ x < total[k + 1] =>
               Concatenation[x + 1] = [slot |-> SlotOf(buffer, k), byte |-> x - total[k]]
    BY <1>1, ConcatenationIs
  <2>5. total[c] \in Nat /\ N \in Nat /\ c \in Nat
    BY <2>1, <2>2, NAssumption
  <2>6. ASSUME NEW x \in Nat, x < total[c]
        PROVE  find_entry(buffer, x) = Concatenation[x + 1]
    <3> DEFINE S == {k \in 0..c : total[k] > x}
    <3> HIDE DEF c, total
    <3>1. S \in SUBSET Nat /\ c \in S
      BY <2>5, <2>6
    <3>2. PICK m \in S : \A k \in S : m <= k
      <4> HIDE DEF S
      <4> QED BY <3>1, Smallest
    <3>3. m \in 0..c /\ total[m] > x
      BY <3>2
    <3>4. m # 0
      BY <2>2, <3>3
    <3> DEFINE k == m - 1
    <3>5. /\ k \in 0..(c - 1) /\ k \in Slots /\ k + 1 = m /\ k < c /\ k \in 0..c
          /\ k \in 0..N /\ ~ (m <= k)
      BY <2>1, <3>3, <3>4, NAssumption DEF Slots
    <3> HIDE DEF k
    <3>6. k \notin S
      BY <3>2, <3>5
    <3>7. total[k] <= x /\ x < total[k + 1]
      <4>1. total[k] \in Nat /\ ~ (total[k] > x)
        BY <2>2, <3>5, <3>6
      <4> QED
        BY <3>3, <3>5, <4>1
    <3>8. Reaches(buffer, k)
      BY <2>1, <3>5
    <3>9. find_entry(buffer, x) = [slot |-> SlotOf(buffer, k), byte |-> x - total[k]]
      BY <2>1, <3>7, <3>8, FindFound DEF total
    <3> QED
      BY <2>4, <3>5, <3>7, <3>9
  <2>7. ASSUME NEW x \in Nat, ~ (x < total[c])
        PROVE  find_entry(buffer, x) = NULL
    <3>1. ASSUME NEW k \in Slots, Reaches(buffer, k)
          PROVE  total[k + 1] <= x
      <4> HIDE DEF c, total
      <4>1. k + 1 \in 0..N /\ k \in Nat
        BY NAssumption DEF Slots
      <4>2. CASE k < c
        <5>1. k + 1 <= c
          BY <2>5, <4>1, <4>2
        <5>2. total[k + 1] <= total[c] /\ total[k + 1] \in Nat
          BY <2>1, <2>2, <2>3, <4>1, <5>1
        <5> QED
          BY <2>5, <2>7, <5>2
      <4>3. CASE ~ (k < c)
        <5>1. \A v \in Slots : buffer.entry[v].size = 0
          BY <2>1, <3>1, <4>3
        <5> DEFINE S == {l \in 0..N : total[l] = 0}
        <5>2. 0 \in S
          BY <2>2, <2>5
        <5>3. ASSUME NEW l \in 0..(N - 1), l \in S
              PROVE  l + 1 \in S
          <6>1. l \in Slots /\ l + 1 \in 0..N
            BY <2>5 DEF Slots
          <6>2. total[l + 1] = total[l] + 0 /\ total[l] = 0
            BY <2>2, <5>1, <5>3, <6>1
          <6> QED
            BY <6>1, <6>2
        <5>4. \A l \in 0..N : l \in S
          <6> HIDE DEF S
          <6> QED BY <2>5, <5>2, <5>3, Induction
        <5> QED
          BY <4>1, <5>4
      <4> QED
        BY <4>2, <4>3
    <3> QED
      BY <2>1, <3>1, FindNone
  <2>8. \A x \in 0..(Len(Concatenation) + 1) :
          /\ x \in Nat
          /\ find_entry(buffer, x) =
               IF x < Len(Concatenation) THEN Concatenation[x + 1] ELSE NULL
    <3> HIDE DEF c, total
    <3>1. \A x \in 0..(total[c] + 1) : x \in Nat
      BY <2>5
    <3> QED
      BY <2>4, <2>6, <2>7, <3>1
  <2> QED
    BY <2>8 DEF FindMatchesConcatenation
<1> QED
  BY <1>1, BufferInvariant, PTL
=============================================================================
