------------------------ MODULE CircularBufferLemmas ------------------------
(***************************************************************************)
(* Facts about the operators of CircularBuffer, for every number of slots  *)
(* N: what the stores of add_entry leave in each field, and what they do   *)
(* to the log that the buffer stands for.                                  *)
(***************************************************************************)
EXTENDS CircularBuffer, SequencesExt, SequenceTheorems, WellFoundedInduction, TLAPS

\* The increment with wrap-around of the two uint8_t offsets stays within
\* the array and is the successor modulo N: no offset overflows its byte.
LEMMA AdvanceInSlots ==
  ASSUME NEW x \in Slots
  PROVE  /\ Advance(x) \in Slots
         /\ Advance(x) = IF x + 1 = N THEN 0 ELSE x + 1
BY NAssumption DEF Advance, Inc8, Slots

\* What each store of add_entry leaves in the fields of the buffer.
LEMMA AdvanceOutFields ==
  ASSUME NEW E, NEW b \in Buffers(E)
  PROVE  /\ AdvanceOut(b) \in Buffers(E)
         /\ AdvanceOut(b).entry = b.entry
         /\ AdvanceOut(b).in_offs = b.in_offs
         /\ AdvanceOut(b).out_offs = IF b.full THEN Advance(b.out_offs) ELSE b.out_offs
         /\ AdvanceOut(b).full = b.full
BY AdvanceInSlots DEF AdvanceOut, Buffers

LEMMA StoreEntryFields ==
  ASSUME NEW E, NEW b \in Buffers(E), NEW e \in E
  PROVE  /\ StoreEntry(b, e) \in Buffers(E)
         /\ StoreEntry(b, e).entry = [b.entry EXCEPT ![b.in_offs] = e]
         /\ StoreEntry(b, e).in_offs = b.in_offs
         /\ StoreEntry(b, e).out_offs = b.out_offs
         /\ StoreEntry(b, e).full = b.full
BY DEF StoreEntry, Buffers

LEMMA AdvanceInFields ==
  ASSUME NEW E, NEW b \in Buffers(E)
  PROVE  /\ AdvanceIn(b) \in Buffers(E)
         /\ AdvanceIn(b).entry = b.entry
         /\ AdvanceIn(b).in_offs = Advance(b.in_offs)
         /\ AdvanceIn(b).out_offs = b.out_offs
         /\ AdvanceIn(b).full = (b.full \/ Advance(b.in_offs) = b.out_offs)
BY AdvanceInSlots DEF AdvanceIn, Buffers

\* What add_entry as a whole leaves there.
LEMMA AddEntryFields ==
  ASSUME NEW E, NEW b \in Buffers(E), NEW e \in E
  PROVE  /\ add_entry(b, e) \in Buffers(E)
         /\ add_entry(b, e).entry = [b.entry EXCEPT ![b.in_offs] = e]
         /\ add_entry(b, e).in_offs = Advance(b.in_offs)
         /\ add_entry(b, e).out_offs =
              IF b.full THEN Advance(b.out_offs) ELSE b.out_offs
         /\ add_entry(b, e).full =
              (b.full \/ Advance(b.in_offs) = add_entry(b, e).out_offs)
<1>1. AdvanceOut(b) \in Buffers(E)
  BY AdvanceOutFields
<1>2. StoreEntry(AdvanceOut(b), e) \in Buffers(E)
  BY <1>1, StoreEntryFields
<1> QED
  BY <1>1, <1>2, AdvanceOutFields, StoreEntryFields, AdvanceInFields DEF add_entry

-----------------------------------------------------------------------------
\* The offsets and the flag agree: the part of Shape that concerns them.
OffsetsAgree(b) ==
  /\ b.full => b.in_offs = b.out_offs
  /\ ~b.full => b.out_offs = 0

\* The log of a buffer is a sequence of at most N of its entries, and the
\* buffer is marked full exactly when the log has N of them.
LEMMA LogOfBuffer ==
  ASSUME NEW E, NEW b \in Buffers(E), OffsetsAgree(b)
  PROVE  /\ LogOf(b) \in Seq(E)
         /\ Len(LogOf(b)) = Count(b)
         /\ Count(b) \in 0..N
         /\ b.full <=> Count(b) = N
         /\ ~b.full => Count(b) = b.in_offs
         /\ \A k \in 1..Count(b) : /\ SlotOf(b, k - 1) \in Slots
                                   /\ LogOf(b)[k] = b.entry[SlotOf(b, k - 1)]
<1>1. Count(b) \in 0..N /\ (b.full <=> Count(b) = N)
      /\ (~b.full => Count(b) = b.in_offs)
  BY NAssumption DEF Count, Buffers, Slots, OffsetsAgree
<1>2. \A k \in 1..Count(b) : SlotOf(b, k - 1) \in Slots
  BY <1>1, NAssumption DEF SlotOf, Buffers, Slots
<1>3. \A k \in 1..Count(b) : b.entry[SlotOf(b, k - 1)] \in E
  BY <1>2 DEF Buffers
<1>4. LogOf(b) \in [1..Count(b) -> E]
  BY <1>3 DEF LogOf
<1>5. LogOf(b) \in Seq(E) /\ Len(LogOf(b)) = Count(b)
  BY <1>1, <1>4, SeqDef, LenProperties
<1> QED
  BY <1>1, <1>2, <1>5 DEF LogOf

\* The zeroed buffer stands for the empty log.
LEMMA LogOfEmpty == LogOf(EmptyBuffer) = << >>
<1> DEFINE E == {EmptyEntry}
<1>1. EmptyBuffer \in Buffers(E) /\ OffsetsAgree(EmptyBuffer)
      /\ ~EmptyBuffer.full /\ EmptyBuffer.in_offs = 0
  BY NAssumption DEF EmptyBuffer, Buffers, Slots, OffsetsAgree
<1>2. LogOf(EmptyBuffer) \in Seq(E) /\ Len(LogOf(EmptyBuffer)) = 0
  BY <1>1, LogOfBuffer
<1> QED
  BY <1>2, EmptySeq

\* Adding an entry to a buffer adds it to its log, and drops the oldest
\* entry of the log when the buffer is full.
LEMMA LogOfAdd ==
  ASSUME NEW E, NEW b \in Buffers(E), OffsetsAgree(b), NEW e \in E
  PROVE  /\ OffsetsAgree(add_entry(b, e))
         /\ LogOf(add_entry(b, e)) =
              IF b.full THEN Append(Tail(LogOf(b)), e)
                        ELSE Append(LogOf(b), e)
<1> DEFINE c == add_entry(b, e)
           old == IF b.full THEN Tail(LogOf(b)) ELSE LogOf(b)
<1>1. /\ c \in Buffers(E)
      /\ c.entry = [b.entry EXCEPT ![b.in_offs] = e]
      /\ c.in_offs = Advance(b.in_offs)
      /\ c.out_offs = IF b.full THEN Advance(b.out_offs) ELSE b.out_offs
      /\ c.full = (b.full \/ Advance(b.in_offs) = c.out_offs)
  BY AddEntryFields
<1>2. b.in_offs \in Slots /\ b.out_offs \in Slots /\ b.full \in BOOLEAN
      /\ b.entry \in [Slots -> E]
  BY DEF Buffers
<1>3. OffsetsAgree(c)
  BY <1>1, <1>2, AdvanceInSlots, NAssumption DEF OffsetsAgree, Slots
<1>4. LogOf(b) \in Seq(E) /\ Len(LogOf(b)) = Count(b) /\ Count(b) \in 0..N
      /\ (b.full <=> Count(b) = N) /\ (~b.full => Count(b) = b.in_offs)
  BY LogOfBuffer
<1>5. b.full => LogOf(b) # << >>
  BY <1>4, NAssumption, EmptySeq
<1>6. old \in Seq(E) /\ Len(old) = IF b.full THEN N - 1 ELSE b.in_offs
  BY <1>4, <1>5, HeadTailProperties, NAssumption
<1>7. \A k \in 1..Len(old) :
        old[k] = IF b.full THEN LogOf(b)[k + 1] ELSE LogOf(b)[k]
  BY <1>4, <1>5, <1>6, HeadTailProperties
<1>8. LogOf(c) \in Seq(E) /\ Len(LogOf(c)) = Count(c)
      /\ \A k \in 1..Count(c) : LogOf(c)[k] = c.entry[SlotOf(c, k - 1)]
  BY <1>1, <1>3, LogOfBuffer
<1> HIDE DEF c, old
<1>o. /\ b.full => b.in_offs = b.out_offs
      /\ ~b.full => b.out_offs = 0
      /\ c.in_offs = IF b.in_offs + 1 = N THEN 0 ELSE b.in_offs + 1
      /\ c.out_offs = IF b.full THEN c.in_offs ELSE 0
      /\ c.full = (b.full \/ b.in_offs + 1 = N)
  BY <1>1, <1>2, AdvanceInSlots, NAssumption DEF OffsetsAgree, Slots
<1>9. Count(c) = Len(old) + 1
  <2>1. CASE b.full \/ b.in_offs + 1 = N
    <3>1. c.full
      BY <2>1, <1>o
    <3>2. Count(c) = N
      BY <3>1 DEF Count
    <3>3. Len(old) = N - 1
      BY <2>1, <1>2, <1>6, NAssumption DEF Slots
    <3> QED
      BY <3>2, <3>3, NAssumption
  <2>2. CASE ~(b.full \/ b.in_offs + 1 = N)
    <3>1. ~c.full /\ c.out_offs = 0 /\ c.in_offs = b.in_offs + 1
      BY <2>2, <1>o
    <3>2. Count(c) = c.in_offs
      BY <3>1, <1>2 DEF Count, Slots
    <3> QED
      BY <2>2, <3>1, <3>2, <1>6
  <2> QED
    BY <2>1, <2>2
<1>10. ASSUME NEW k \in 1..Len(old)
       PROVE  LogOf(c)[k] = old[k]
  <2>1. LogOf(c)[k] = c.entry[SlotOf(c, k - 1)]
    BY <1>6, <1>8, <1>9
  <2>2. CASE b.full
    <3>1. /\ SlotOf(c, k - 1) = SlotOf(b, k)
          /\ SlotOf(b, k) \in Slots
          /\ SlotOf(b, k) # b.in_offs
      <4>1. N \in Nat /\ k \in 1..(N - 1) /\ b.in_offs \in 0..(N - 1)
        BY <2>2, <1>2, <1>6, NAssumption DEF Slots
      <4>2. b.out_offs = b.in_offs
        BY <2>2, <1>o
      <4>3. CASE b.in_offs + 1 = N
        <5>1. c.out_offs = 0
          BY <2>2, <4>3, <1>o
        <5> QED
          BY <4>1, <4>2, <4>3, <5>1 DEF SlotOf, Slots
      <4>4. CASE b.in_offs + 1 # N
        <5>1. c.out_offs = b.in_offs + 1
          BY <2>2, <4>4, <1>o
        <5> QED
          BY <4>1, <4>2, <4>4, <5>1 DEF SlotOf, Slots
      <4> QED
        BY <4>3, <4>4
    <3>2. k + 1 \in 1..Count(b) /\ (k + 1) - 1 = k
      BY <2>2, <1>4, <1>6, NAssumption
    <3>3. LogOf(b)[k + 1] = b.entry[SlotOf(b, k)]
      BY <3>2, LogOfBuffer
    <3> QED
      BY <2>1, <2>2, <3>1, <3>3, <1>1, <1>2, <1>7
  <2>3. CASE ~b.full
    <3>1. /\ SlotOf(c, k - 1) = SlotOf(b, k - 1)
          /\ SlotOf(b, k - 1) \in Slots
          /\ SlotOf(b, k - 1) # b.in_offs
      BY <2>3, <1>o, <1>2, <1>6, NAssumption DEF SlotOf, Slots
    <3>2. LogOf(b)[k] = b.entry[SlotOf(b, k - 1)]
      BY <2>3, <1>4, <1>6, LogOfBuffer
    <3> QED
      BY <2>1, <2>3, <3>1, <3>2, <1>1, <1>2, <1>7
  <2> QED
    BY <2>2, <2>3
<1>11. LogOf(c)[Len(old) + 1] = e
  <2>1. Len(old) + 1 \in 1..Count(c) /\ (Len(old) + 1) - 1 = Len(old)
    BY <1>2, <1>6, <1>9, NAssumption DEF Slots
  <2>2. LogOf(c)[Len(old) + 1] = c.entry[SlotOf(c, Len(old))]
    BY <2>1, <1>8
  <2>3. SlotOf(c, Len(old)) = b.in_offs
    BY <1>o, <1>2, <1>6, NAssumption DEF SlotOf, Slots
  <2> QED
    BY <2>2, <2>3, <1>1, <1>2
<1>12. /\ Append(old, e) \in Seq(E)
       /\ Len(Append(old, e)) = Len(old) + 1
       /\ \A k \in 1..Len(old) : Append(old, e)[k] = old[k]
       /\ Append(old, e)[Len(old) + 1] = e
  BY <1>6, AppendProperties
<1>13. LogOf(c) = Append(old, e)
  <2>1. \A k \in 1..Len(LogOf(c)) : LogOf(c)[k] = Append(old, e)[k]
    BY <1>6, <1>8, <1>9, <1>10, <1>11, <1>12, LenProperties
  <2> QED
    BY <2>1, <1>8, <1>9, <1>12, SeqEqual
<1> QED
  BY <1>3, <1>13 DEF c, old

-----------------------------------------------------------------------------
(* Induction.                                                              *)

\* A set of natural numbers that is not empty has a least element.
LEMMA Smallest ==
  ASSUME NEW S \in SUBSET Nat, S # {}
  PROVE  \E i \in S : \A k \in S : i <= k
<1> DEFINE R == OpToRel(<, Nat)
<1>1. IsWellFoundedOn(R, Nat)
  BY NatLessThanWellFounded, Zenon
<1>2. \A x, y \in Nat : <<y, x>> \in R <=> y < x
  BY DEF OpToRel
<1> HIDE DEF R
<1>3. PICK x \in S : \A y \in S : ~ (<<y, x>> \in R)
  BY <1>1, WFMin
<1>4. \A y \in S : x \in Nat /\ y \in Nat /\ ~ (y < x)
  BY <1>2, <1>3
<1>5. \A y \in S : x <= y
  BY <1>4
<1> QED
  BY <1>5

\* A set that holds 0 and with every number below n the next one reaches n.
LEMMA Induction ==
  ASSUME NEW n \in Nat, NEW S, 0 \in S, \A k \in 0..(n - 1) : k \in S => k + 1 \in S
  PROVE  \A k \in 0..n : k \in S
<1> DEFINE T == {k \in 0..n : k \notin S}
<1> SUFFICES ASSUME T # {}
             PROVE  FALSE
  OBVIOUS
<1>1. T \in SUBSET Nat
  OBVIOUS
<1>2. PICK m \in T : \A k \in T : m <= k
  <2> HIDE DEF T
  <2> QED BY <1>1, Smallest
<1>3. m \in 0..n /\ m \notin S /\ m # 0
  BY <1>2
<1>4. m - 1 \in 0..(n - 1) /\ m - 1 \in 0..n /\ (m - 1) + 1 = m /\ ~ (m <= m - 1)
  BY <1>3
<1>5. m - 1 \in S
  BY <1>2, <1>4
<1> QED
  BY <1>3, <1>4, <1>5

\* A function of sums: it exists for every sequence of sizes.
LEMMA SumsExist ==
  ASSUME NEW n \in Nat, NEW z, \A k \in 0..(n - 1) : z[k] \in Nat
  PROVE  \E f \in [0..n -> Nat] :
           f = [k \in 0..n |-> IF k = 0 THEN 0 ELSE f[k - 1] + z[k - 1]]
<1> DEFINE Sums(m, f) == /\ f \in [0..m -> Nat]
                         /\ f[0] = 0
                         /\ \A k \in 1..m : f[k] = f[k - 1] + z[k - 1]
           S == {m \in 0..n : \E f : Sums(m, f)}
<1>1. 0 \in S
  <2> DEFINE f == [k \in 0..0 |-> 0]
  <2>1. f \in [0..0 -> Nat] /\ f[0] = 0 /\ \A k \in 1..0 : FALSE
    OBVIOUS
  <2> HIDE DEF f
  <2>2. Sums(0, f)
    BY <2>1
  <2> QED
    BY <2>2
<1>2. ASSUME NEW m \in 0..(n - 1), m \in S
      PROVE  m + 1 \in S
  <2>1. PICK f : Sums(m, f)
    BY <1>2
  <2> DEFINE g == [k \in 0..(m + 1) |-> IF k = m + 1 THEN f[m] + z[m] ELSE f[k]]
  <2>2. m \in Nat /\ z[m] \in Nat /\ m + 1 \in 0..n
    OBVIOUS
  <2>3. f[m] + z[m] \in Nat
    BY <2>1, <2>2
  <2>4. \A k \in 0..m : f[k] \in Nat
    BY <2>1
  <2>5. g \in [0..(m + 1) -> Nat]
    <3>1. \A k \in 0..(m + 1) : k # m + 1 => k \in 0..m
      BY <2>2
    <3> QED
      BY <2>3, <2>4, <3>1
  <2>6. g[0] = 0
    BY <2>1, <2>2
  <2>7. ASSUME NEW k \in 1..(m + 1)
        PROVE  g[k] = g[k - 1] + z[k - 1]
    <3>1. CASE k = m + 1
      <4>1. k - 1 = m /\ m \in 0..(m + 1) /\ m # m + 1 /\ k \in 0..(m + 1)
        BY <2>2, <3>1
      <4>2. g[m] = f[m] /\ g[k] = f[m] + z[m]
        BY <3>1, <4>1
      <4> QED
        BY <4>1, <4>2
    <3>2. CASE k # m + 1
      <4>1. k \in 1..m /\ k \in 0..(m + 1) /\ k - 1 \in 0..(m + 1) /\ k - 1 # m + 1
        BY <2>2, <3>2
      <4>2. g[k] = f[k] /\ g[k - 1] = f[k - 1]
        BY <3>2, <4>1
      <4> QED
        BY <2>1, <4>1, <4>2
    <3> QED
      BY <3>1, <3>2
  <2> HIDE DEF g
  <2>8. Sums(m + 1, g)
    BY <2>5, <2>6, <2>7
  <2> QED
    BY <2>2, <2>8
<1>3. n \in S
  <2> HIDE DEF S
  <2>1. \A k \in 0..n : k \in S
    BY <1>1, <1>2, Induction
  <2> QED
    BY <2>1
<1>4. PICK f : Sums(n, f)
  BY <1>3
<1>5. f = [k \in 0..n |-> IF k = 0 THEN 0 ELSE f[k - 1] + z[k - 1]]
  <2> DEFINE g == [k \in 0..n |-> IF k = 0 THEN 0 ELSE f[k - 1] + z[k - 1]]
  <2>1. \A k \in 0..n : g[k] = f[k]
    BY <1>4
  <2> QED
    BY <1>4, <2>1
<1> QED
  BY <1>4, <1>5

-----------------------------------------------------------------------------
(* The search.                                                             *)

LEMMA NextSlotIs ==
  ASSUME NEW x \in Slots
  PROVE  NextSlot(x) = IF x + 1 = N THEN 0 ELSE x + 1
BY NAssumption DEF NextSlot, Slots

LEMMA SlotsWalked ==
  ASSUME NEW b, b.out_offs \in Slots
  PROVE  [k \in 0..N |-> SlotOf(b, k)] =
           [k \in 0..N |-> IF k = 0 THEN b.out_offs
                           ELSE NextSlot([j \in 0..N |-> SlotOf(b, j)][k - 1])]
<1>1. ASSUME NEW k \in 1..N
      PROVE  SlotOf(b, k) = NextSlot(SlotOf(b, k - 1)) /\ k - 1 \in 0..N
  <2>1. SlotOf(b, k - 1) \in Slots
    BY NAssumption DEF SlotOf, Slots
  <2> QED
    BY <2>1, NAssumption, NextSlotIs DEF SlotOf, Slots
<1>2. SlotOf(b, 0) = b.out_offs
  BY NAssumption DEF SlotOf, Slots
<1> DEFINE w == [k \in 0..N |-> SlotOf(b, k)]
<1>3. ASSUME NEW k \in 0..N
      PROVE  SlotOf(b, k) = IF k = 0 THEN b.out_offs ELSE NextSlot(w[k - 1])
  <2>1. CASE k = 0
    BY <1>2, <2>1
  <2>2. CASE k # 0
    <3>1. k \in 1..N
      BY <2>2, NAssumption
    <3>2. w[k - 1] = SlotOf(b, k - 1)
      BY <1>1, <3>1
    <3> HIDE DEF w
    <3> QED
      BY <1>1, <2>2, <3>1, <3>2
  <2> QED
    BY <2>1, <2>2
<1> QED
  BY <1>3

\* The two functions that the search is defined with.
SlotFn(b) ==
  CHOOSE slot : slot = [k \in 0..N |-> IF k = 0 THEN b.out_offs ELSE NextSlot(slot[k - 1])]
TotalFn(b) ==
  CHOOSE total : total = [k \in 0..N |->
                   IF k = 0 THEN 0 ELSE total[k - 1] + b.entry[SlotFn(b)[k - 1]].size]

FindGen(b, slot, total, x) ==
  LET visited == {k \in Slots : \A j \in 1..k : slot[j] # b.in_offs}
      hits == {k \in visited : Hit(b, slot[k], total[k], x)}
      first == CHOOSE k \in hits : \A j \in hits : k <= j
  IN  IF hits = {} THEN NULL
      ELSE [slot |-> slot[first], byte |-> x - total[first]]

LEMMA FindWalks ==
  ASSUME NEW b, NEW x
  PROVE  find_entry(b, x) = FindGen(b, SlotFn(b), TotalFn(b), x)
BY Zenon DEF find_entry, FindGen, SlotFn, TotalFn

LEMMA SlotFnIs ==
  ASSUME NEW b, b.out_offs \in Slots
  PROVE  \A k \in 0..N : SlotFn(b)[k] = SlotOf(b, k)
<1> DEFINE f == SlotFn(b)
           S == {k \in 0..N : f[k] = SlotOf(b, k)}
<1>1. f = [k \in 0..N |-> IF k = 0 THEN b.out_offs ELSE NextSlot(f[k - 1])]
  <2>1. \E w : w = [k \in 0..N |-> IF k = 0 THEN b.out_offs ELSE NextSlot(w[k - 1])]
    BY SlotsWalked, Zenon
  <2> QED
    BY <2>1, Zenon DEF SlotFn
<1>2. [k \in 0..N |-> SlotOf(b, k)] =
           [k \in 0..N |-> IF k = 0 THEN b.out_offs
                           ELSE NextSlot([j \in 0..N |-> SlotOf(b, j)][k - 1])]
  BY SlotsWalked
<1> HIDE DEF f
<1>n. N \in Nat
  BY NAssumption
<1>3. ASSUME NEW k \in 1..N
      PROVE  SlotOf(b, k) = NextSlot(SlotOf(b, k - 1))
  <2>1. SlotOf(b, k - 1) \in Slots
    BY NAssumption DEF SlotOf, Slots
  <2> QED
    BY <2>1, NAssumption, NextSlotIs DEF SlotOf, Slots
<1>4. 0 \in S
  <2>1. SlotOf(b, 0) = b.out_offs
    BY NAssumption DEF SlotOf, Slots
  <2>2. f[0] = b.out_offs /\ 0 \in 0..N
    BY <1>1, <1>n
  <2> QED
    BY <2>1, <2>2
<1>5. ASSUME NEW k \in 0..(N - 1), k \in S
      PROVE  k + 1 \in S
  <2>1. k + 1 \in 1..N /\ k + 1 \in 0..N /\ (k + 1) - 1 = k /\ k + 1 # 0
    BY <1>n
  <2>2. f[k + 1] = NextSlot(f[(k + 1) - 1])
    BY <1>1, <2>1
  <2>3. SlotOf(b, k + 1) = NextSlot(SlotOf(b, (k + 1) - 1))
    BY <1>3, <2>1
  <2>4. f[k] = SlotOf(b, k)
    BY <1>5
  <2>5. f[k + 1] = SlotOf(b, k + 1)
    BY <2>1, <2>2, <2>3, <2>4
  <2> QED
    BY <2>1, <2>5
<1>6. \A k \in 0..N : k \in S
  <2> HIDE DEF S
  <2> QED BY <1>n, <1>4, <1>5, Induction
<1> QED
  BY <1>6 DEF f

\* Where the search is, and how many bytes lie before.
LEMMA TotalFnIs ==
  ASSUME NEW b, b.out_offs \in Slots, \A s \in Slots : b.entry[s].size \in Nat
  PROVE  /\ TotalFn(b) \in [0..N -> Nat]
         /\ TotalFn(b)[0] = 0
         /\ \A k \in Slots : TotalFn(b)[k + 1] = TotalFn(b)[k] + b.entry[SlotOf(b, k)].size
         /\ \A k \in Slots : SlotOf(b, k) \in Slots
<1> DEFINE z == [k \in 0..N |-> b.entry[SlotFn(b)[k]].size]
           f == TotalFn(b)
<1>n. N \in Nat
  BY NAssumption
<1>0. \A k \in Slots : SlotOf(b, k) \in Slots /\ k \in 0..N /\ k + 1 \in 0..N /\ (k + 1) - 1 = k /\ k + 1 # 0
  BY NAssumption DEF SlotOf, Slots
<1>1. \A k \in Slots : z[k] = b.entry[SlotOf(b, k)].size /\ z[k] \in Nat
  <2>1. \A k \in Slots : SlotFn(b)[k] = SlotOf(b, k)
    BY <1>0, SlotFnIs
  <2> QED
    BY <1>0, <2>1
<1>2. \E w \in [0..N -> Nat] : w = [k \in 0..N |-> IF k = 0 THEN 0 ELSE w[k - 1] + z[k - 1]]
  <2>1. \A k \in 0..(N - 1) : z[k] \in Nat
    BY <1>1 DEF Slots
  <2> HIDE DEF z
  <2> QED BY <1>n, <2>1, SumsExist
<1>3. \E w : w = [k \in 0..N |->
                IF k = 0 THEN 0 ELSE w[k - 1] + b.entry[SlotFn(b)[k - 1]].size]
  <2>1. PICK w \in [0..N -> Nat] : w = [k \in 0..N |-> IF k = 0 THEN 0 ELSE w[k - 1] + z[k - 1]]
    BY <1>2
  <2>2. \A k \in 0..N : k # 0 => k - 1 \in 0..N
    BY <1>n
  <2>3. \A k \in 0..N : k # 0 => z[k - 1] = b.entry[SlotFn(b)[k - 1]].size
    BY <2>2
  <2> HIDE DEF z
  <2>4. w = [k \in 0..N |-> IF k = 0 THEN 0 ELSE w[k - 1] + b.entry[SlotFn(b)[k - 1]].size]
    BY <2>1, <2>3
  <2> QED
    BY <2>4
<1>4. f = [k \in 0..N |-> IF k = 0 THEN 0 ELSE f[k - 1] + b.entry[SlotFn(b)[k - 1]].size]
  BY <1>3, Zenon DEF TotalFn
<1> HIDE DEF f
<1>5. f[0] = 0
  BY <1>4, <1>n
<1>6. \A k \in Slots : f[k + 1] = f[k] + b.entry[SlotOf(b, k)].size
  <2> SUFFICES ASSUME NEW k \in Slots
               PROVE  f[k + 1] = f[k] + b.entry[SlotOf(b, k)].size
    OBVIOUS
  <2>1. f[k + 1] = f[(k + 1) - 1] + b.entry[SlotFn(b)[(k + 1) - 1]].size
    BY <1>0, <1>4
  <2>2. SlotFn(b)[k] = SlotOf(b, k)
    BY <1>0, SlotFnIs
  <2> QED
    BY <1>0, <2>1, <2>2
<1>7. \A k \in 0..N : f[k] \in Nat
  <2> DEFINE S == {k \in 0..N : f[k] \in Nat}
  <2>1. 0 \in S
    BY <1>5, <1>n
  <2>2. ASSUME NEW k \in 0..(N - 1), k \in S
        PROVE  k + 1 \in S
    <3>1. k \in Slots
      BY DEF Slots
    <3>2. f[k + 1] = f[k] + b.entry[SlotOf(b, k)].size /\ k + 1 \in 0..N
      BY <1>0, <1>6, <3>1
    <3>3. f[k] \in Nat /\ b.entry[SlotOf(b, k)].size \in Nat
      BY <1>0, <2>2, <3>1
    <3> QED
      BY <3>2, <3>3
  <2>3. \A k \in 0..N : k \in S
    <3> HIDE DEF S
    <3> QED BY <1>n, <2>1, <2>2, Induction
  <2> QED
    BY <2>3
<1>8. f \in [0..N -> Nat]
  <2>1. f = [k \in 0..N |-> f[k]]
    BY <1>4
  <2> QED
    BY <1>7, <2>1
<1> QED
  BY <1>0, <1>5, <1>6, <1>8 DEF f

\* The totals grow along the search.
LEMMA TotalFnGrows ==
  ASSUME NEW b, b.out_offs \in Slots, \A s \in Slots : b.entry[s].size \in Nat,
         NEW i \in 0..N, NEW k \in 0..N, i <= k
  PROVE  TotalFn(b)[i] <= TotalFn(b)[k]
<1> DEFINE f == TotalFn(b)
           S == {m \in 0..N : i <= m => f[i] <= f[m]}
<1>n. N \in Nat /\ i \in Nat
  BY NAssumption
<1>1. f \in [0..N -> Nat] /\ \A m \in Slots : /\ f[m + 1] = f[m] + b.entry[SlotOf(b, m)].size
                                              /\ SlotOf(b, m) \in Slots
  BY TotalFnIs
<1> HIDE DEF f
<1>2. 0 \in S
  <2>1. CASE i = 0
    BY <1>n, <1>1, <2>1
  <2>2. CASE i # 0
    BY <1>n, <2>2
  <2> QED
    BY <2>1, <2>2
<1>3. ASSUME NEW m \in 0..(N - 1), m \in S
      PROVE  m + 1 \in S
  <2>1. m \in Slots /\ m \in 0..N /\ m + 1 \in 0..N
    BY <1>n DEF Slots
  <2>2. f[m + 1] = f[m] + b.entry[SlotOf(b, m)].size /\ f[m] \in Nat /\ f[m + 1] \in Nat
        /\ b.entry[SlotOf(b, m)].size \in Nat /\ f[i] \in Nat
    BY <1>1, <2>1
  <2>3. CASE i = m + 1
    BY <2>1, <2>2, <2>3
  <2>4. CASE i # m + 1
    <3>1. i <= m + 1 => i <= m
      BY <1>n, <2>4
    <3>2. i <= m => f[i] <= f[m]
      BY <1>3
    <3>3. i <= m + 1 => f[i] <= f[m + 1]
      BY <2>2, <3>1, <3>2
    <3> QED
      BY <2>1, <3>3
  <2> QED
    BY <2>3, <2>4
<1>4. \A m \in 0..N : m \in S
  <2> HIDE DEF S
  <2> QED BY <1>n, <1>2, <1>3, Induction
<1> QED
  BY <1>4 DEF f

\* The search gets to the k-th slot: no test before has met in_offs.
Reaches(b, k) == k \in Slots /\ \A i \in 1..k : SlotOf(b, i) # b.in_offs

LEMMA FindHits ==
  ASSUME NEW b, b.out_offs \in Slots, \A s \in Slots : b.entry[s].size \in Nat, NEW x
  PROVE  LET hits == {k \in Slots : Reaches(b, k) /\ TotalFn(b)[k + 1] > x}
             first == CHOOSE k \in hits : \A i \in hits : k <= i
         IN  find_entry(b, x) =
               IF hits = {} THEN NULL
               ELSE [slot |-> SlotFn(b)[first], byte |-> x - TotalFn(b)[first]]
<1> DEFINE f == TotalFn(b)
           hits == {k \in Slots : Reaches(b, k) /\ f[k + 1] > x}
           visited == {k \in Slots : \A j \in 1..k : SlotFn(b)[j] # b.in_offs}
           found == {k \in visited : Hit(b, SlotFn(b)[k], f[k], x)}
<1>1. \A k \in Slots : k \in visited <=> Reaches(b, k)
  <2>1. \A k \in Slots : \A j \in 1..k : j \in 0..N
    BY NAssumption DEF Slots
  <2>2. \A k \in Slots : \A j \in 1..k : SlotFn(b)[j] = SlotOf(b, j)
    BY <2>1, SlotFnIs
  <2> QED
    BY <2>2 DEF Reaches
<1>2. \A k \in Slots : Hit(b, SlotFn(b)[k], f[k], x) <=> f[k + 1] > x
  <2>1. \A k \in Slots : SlotFn(b)[k] = SlotOf(b, k)
    BY SlotFnIs, NAssumption DEF Slots
  <2>2. \A k \in Slots : f[k + 1] = f[k] + b.entry[SlotOf(b, k)].size
    BY TotalFnIs
  <2> QED
    BY <2>1, <2>2 DEF Hit
<1>3. found = hits
  <2> HIDE DEF f
  <2>1. \A k \in Slots : k \in found <=> k \in hits
    <3> HIDE DEF visited
    <3> QED BY <1>1, <1>2
  <2>2. found \subseteq Slots /\ hits \subseteq Slots
    OBVIOUS
  <2> HIDE DEF found, hits
  <2> QED
    BY <2>1, <2>2
<1>4. find_entry(b, x) =
        IF found = {} THEN NULL
        ELSE [slot |-> SlotFn(b)[CHOOSE k \in found : \A j \in found : k <= j],
              byte |-> x - f[CHOOSE k \in found : \A j \in found : k <= j]]
  BY FindWalks, Zenon DEF FindGen
<1> QED
  BY <1>3, <1>4, Zenon

\* The search finds the entry that holds the byte.
LEMMA FindFound ==
  ASSUME NEW b, b.out_offs \in Slots, \A s \in Slots : b.entry[s].size \in Nat,
         NEW x \in Nat, NEW k, Reaches(b, k), TotalFn(b)[k] <= x, x < TotalFn(b)[k + 1]
  PROVE  find_entry(b, x) = [slot |-> SlotOf(b, k), byte |-> x - TotalFn(b)[k]]
<1> DEFINE f == TotalFn(b)
           hits == {i \in Slots : Reaches(b, i) /\ f[i + 1] > x}
           first == CHOOSE i \in hits : \A m \in hits : i <= m
<1>1. k \in Slots /\ \A i \in Slots : i \in Nat /\ i \in 0..N /\ i + 1 \in 0..N
  BY NAssumption DEF Reaches, Slots
<1>2. f \in [0..N -> Nat]
  BY TotalFnIs
<1>3. \A i, m \in 0..N : i <= m => f[i] <= f[m]
  BY TotalFnGrows
<1>4. find_entry(b, x) = IF hits = {} THEN NULL
                         ELSE [slot |-> SlotFn(b)[first], byte |-> x - f[first]]
  BY FindHits
<1> HIDE DEF f
<1>5. k \in hits
  BY <1>1, <1>2 DEF f
<1>6. \A i \in hits : k <= i
  <2> SUFFICES ASSUME NEW i \in hits, ~ (k <= i)
               PROVE  FALSE
    OBVIOUS
  <2>1. i \in Slots /\ f[i + 1] > x
    OBVIOUS
  <2>2. i + 1 <= k
    BY <1>1, <2>1
  <2>3. f[i + 1] <= f[k] /\ f[k] <= x
    BY <1>1, <1>3, <2>1, <2>2 DEF f
  <2>4. f[i + 1] \in Nat /\ f[k] \in Nat
    BY <1>1, <1>2, <2>1
  <2> QED
    BY <2>1, <2>3, <2>4
<1>7. \A i \in hits : i \in Nat
  BY <1>1
<1> HIDE DEF hits
<1>8. first \in hits /\ \A m \in hits : first <= m
  BY <1>5, <1>6
<1> HIDE DEF first
<1>9. first = k
  <2>1. first <= k /\ k <= first /\ first \in Nat /\ k \in Nat
    BY <1>5, <1>6, <1>7, <1>8
  <2> QED
    BY <2>1
<1>10. SlotFn(b)[k] = SlotOf(b, k)
  BY <1>1, SlotFnIs
<1>11. find_entry(b, x) = [slot |-> SlotFn(b)[first], byte |-> x - f[first]]
  BY <1>4, <1>5
<1> QED
  BY <1>9, <1>10, <1>11 DEF f

\* The search fails when every slot that it gets to ends before the byte.
LEMMA FindNone ==
  ASSUME NEW b, b.out_offs \in Slots, \A s \in Slots : b.entry[s].size \in Nat,
         NEW x \in Nat, \A k \in Slots : Reaches(b, k) => TotalFn(b)[k + 1] <= x
  PROVE  find_entry(b, x) = NULL
<1> DEFINE f == TotalFn(b)
           hits == {i \in Slots : Reaches(b, i) /\ f[i + 1] > x}
<1>1. \A i \in Slots : i + 1 \in 0..N
  BY NAssumption DEF Slots
<1>2. f \in [0..N -> Nat]
  BY TotalFnIs
<1>3. hits = {}
  <2>1. \A i \in Slots : f[i + 1] \in Nat
    BY <1>1, <1>2
  <2> HIDE DEF f
  <2>2. \A i \in Slots : Reaches(b, i) => ~ (f[i + 1] > x)
    BY <2>1 DEF f
  <2> QED
    BY <2>2
<1> QED
  BY <1>3, FindHits

\* Before anything is dropped the totals run over the slots in order.
LEMMA PrefixTotals ==
  ASSUME NEW b, b.out_offs = 0, \A s \in Slots : b.entry[s].size \in Nat
  PROVE  /\ TotalFn(b) \in [0..N -> Nat]
         /\ TotalFn(b)[0] = 0
         /\ \A k \in Slots : TotalFn(b)[k + 1] = TotalFn(b)[k] + b.entry[k].size
         /\ \A k \in Slots : SlotOf(b, k) = k
<1>1. b.out_offs \in Slots
  BY NAssumption DEF Slots
<1>2. \A k \in Slots : SlotOf(b, k) = k
  BY NAssumption DEF SlotOf, Slots
<1>3. /\ TotalFn(b) \in [0..N -> Nat]
      /\ TotalFn(b)[0] = 0
      /\ \A k \in Slots : TotalFn(b)[k + 1] = TotalFn(b)[k] + b.entry[SlotOf(b, k)].size
  BY <1>1, TotalFnIs
<1> QED
  BY <1>2, <1>3

\* Two buffers with the same first entries have the same first totals.
LEMMA TotalsAgree ==
  ASSUME NEW b, b.out_offs = 0, \A s \in Slots : b.entry[s].size \in Nat,
         NEW d, d.out_offs = 0, \A s \in Slots : d.entry[s].size \in Nat,
         NEW n \in 0..N, \A s \in Slots : s < n => d.entry[s].size = b.entry[s].size
  PROVE  \A k \in 0..N : k <= n => TotalFn(d)[k] = TotalFn(b)[k]
<1> DEFINE f == TotalFn(b)
           g == TotalFn(d)
           S == {k \in 0..N : k <= n => g[k] = f[k]}
<1>1. f[0] = 0 /\ \A k \in Slots : f[k + 1] = f[k] + b.entry[k].size
  BY PrefixTotals
<1>2. g[0] = 0 /\ \A k \in Slots : g[k + 1] = g[k] + d.entry[k].size
  BY PrefixTotals
<1> HIDE DEF f, g
<1>n. N \in Nat /\ n \in Nat
  BY NAssumption
<1>3. 0 \in S
  BY <1>1, <1>2, <1>n
<1>4. ASSUME NEW k \in 0..(N - 1), k \in S
      PROVE  k + 1 \in S
  <2>1. k \in Slots /\ k + 1 \in 0..N
    BY <1>n DEF Slots
  <2>2. ASSUME k + 1 <= n
        PROVE  g[k + 1] = f[k + 1]
    <3>1. k < n /\ k <= n
      BY <1>n, <2>2
    <3>2. g[k] = f[k] /\ d.entry[k].size = b.entry[k].size
      BY <1>4, <2>1, <3>1
    <3> QED
      BY <1>1, <1>2, <2>1, <3>2
  <2> QED
    BY <2>1, <2>2
<1>5. \A k \in 0..N : k \in S
  <2> HIDE DEF S
  <2> QED BY <1>n, <1>3, <1>4, Induction
<1> QED
  BY <1>5 DEF f, g

\* A slot that holds a command is one that the search gets to.
LEMMA ReachesUntilFull ==
  ASSUME NEW b, b.out_offs = 0, b.in_offs \in Slots, NEW k \in Slots, k < b.in_offs
  PROVE  Reaches(b, k)
<1>1. \A i \in 1..k : SlotOf(b, i) = i /\ i # b.in_offs
  BY NAssumption DEF SlotOf, Slots
<1> QED
  BY <1>1 DEF Reaches

\* A search that has gone on from slot k has got to the next one.
LEMMA NextReached ==
  ASSUME NEW b, b.out_offs \in Slots, b.in_offs \in Slots,
         b.full => b.in_offs = b.out_offs, ~b.full => b.out_offs = 0,
         NEW k \in Slots, Reaches(b, k), NextSlot(SlotOf(b, k)) # b.in_offs
  PROVE  k + 1 \in Slots /\ Reaches(b, k + 1) /\ SlotOf(b, k + 1) = NextSlot(SlotOf(b, k))
<1>1. SlotOf(b, k) \in Slots
  BY NAssumption DEF SlotOf, Slots
<1>2. NextSlot(SlotOf(b, k)) = IF SlotOf(b, k) + 1 = N THEN 0 ELSE SlotOf(b, k) + 1
  BY <1>1, NextSlotIs
<1>3. k + 1 \in Slots
  <2> SUFFICES ASSUME k = N - 1
               PROVE  FALSE
    BY NAssumption DEF Slots
  <2>1. NextSlot(SlotOf(b, k)) = b.out_offs
    BY <1>2, NAssumption DEF SlotOf, Slots
  <2>2. b.out_offs = 0 /\ b.in_offs # 0
    BY <2>1
  <2>3. b.in_offs \in 1..k /\ SlotOf(b, b.in_offs) = b.in_offs
    BY <2>2, NAssumption DEF SlotOf, Slots
  <2> QED
    BY <2>3 DEF Reaches
<1>4. SlotOf(b, k + 1) = NextSlot(SlotOf(b, k))
  BY <1>2, <1>3, NAssumption DEF SlotOf, Slots
<1>5. \A i \in 1..(k + 1) : i \in 1..k \/ i = k + 1
  BY NAssumption DEF Slots
<1> QED
  BY <1>3, <1>4, <1>5 DEF Reaches

-----------------------------------------------------------------------------
(* The concatenation of sequences.                                        *)

\* The function that FlattenSeq is defined with.
FlattenFn(s) ==
  CHOOSE flatten : flatten = [i \in 1..Len(s) |->
                     IF i = 1 THEN s[i] ELSE flatten[i - 1] \o s[i]]

LEMMA FlattenSeqIs ==
  ASSUME NEW s
  PROVE  FlattenSeq(s) = IF Len(s) = 0 THEN s ELSE FlattenFn(s)[Len(s)]
BY Zenon DEF FlattenSeq, FlattenFn

LEMMA FlattenExists ==
  ASSUME NEW T, NEW s \in Seq(Seq(T))
  PROVE  \E f : f = [i \in 1..Len(s) |-> IF i = 1 THEN s[i] ELSE f[i - 1] \o s[i]]
<1> DEFINE n == Len(s)
           Flat(m, f) == /\ f \in [1..m -> Seq(T)]
                         /\ \A i \in 1..m : f[i] = IF i = 1 THEN s[i] ELSE f[i - 1] \o s[i]
           S == {m \in 0..n : \E f : Flat(m, f)}
<1>n. n \in Nat
  OBVIOUS
<1>s. \A i \in 1..n : s[i] \in Seq(T)
  OBVIOUS
<1> HIDE DEF n
<1>1. 0 \in S
  <2> DEFINE f == [i \in 1..0 |-> << >>]
  <2>0. \A i \in 1..0 : FALSE
    OBVIOUS
  <2>1. f \in [1..0 -> Seq(T)]
    BY <2>0
  <2> HIDE DEF f
  <2>2. Flat(0, f)
    BY <2>0, <2>1
  <2> HIDE DEF Flat
  <2>3. 0 \in 0..n /\ \E h : Flat(0, h)
    BY <1>n, <2>2
  <2> QED
    BY <2>3
<1>2. ASSUME NEW m \in 0..(n - 1), m \in S
      PROVE  m + 1 \in S
  <2>1. PICK f : Flat(m, f)
    BY <1>2
  <2>2. m \in Nat /\ m + 1 \in 1..n /\ m + 1 \in 0..n
    BY <1>n
  <2> DEFINE next == IF m = 0 THEN s[m + 1] ELSE f[m] \o s[m + 1]
             g == [i \in 1..(m + 1) |-> IF i = m + 1 THEN next ELSE f[i]]
  <2>3. next \in Seq(T)
    <3>1. s[m + 1] \in Seq(T)
      BY <1>s, <2>2
    <3>2. CASE m = 0
      BY <3>1, <3>2
    <3>3. CASE m # 0
      <4>1. m \in 1..m
        BY <2>2, <3>3
      <4>2. f[m] \in Seq(T)
        BY <2>1, <4>1
      <4>3. f[m] \o s[m + 1] \in Seq(T)
        BY <3>1, <4>2
      <4> QED
        BY <3>3, <4>3
    <3> QED
      BY <3>2, <3>3
  <2>4. \A i \in 1..(m + 1) : i # m + 1 => i \in 1..m
    BY <2>2
  <2>5. g \in [1..(m + 1) -> Seq(T)]
    <3> HIDE DEF next
    <3>1. \A i \in 1..m : f[i] \in Seq(T)
      BY <2>1
    <3> QED
      BY <2>3, <2>4, <3>1
  <2>6. ASSUME NEW i \in 1..(m + 1)
        PROVE  g[i] = IF i = 1 THEN s[i] ELSE g[i - 1] \o s[i]
    <3>1. CASE i = m + 1
      <4>1. g[i] = next
        BY <3>1
      <4>2. CASE m = 0
        BY <3>1, <4>1, <4>2
      <4>3. CASE m # 0
        <5>1. i # 1 /\ i - 1 = m /\ m \in 1..(m + 1) /\ m # m + 1
          BY <2>2, <3>1, <4>3
        <5>2. g[m] = f[m]
          BY <5>1
        <5> QED
          BY <3>1, <4>1, <4>3, <5>1, <5>2
      <4> QED
        BY <4>2, <4>3
    <3>2. CASE i # m + 1
      <4>1. i \in 1..m
        BY <2>4, <3>2
      <4>2. g[i] = f[i]
        BY <3>2
      <4>3. f[i] = IF i = 1 THEN s[i] ELSE f[i - 1] \o s[i]
        BY <2>1, <4>1
      <4>4. i # 1 => i - 1 \in 1..(m + 1) /\ i - 1 # m + 1
        BY <2>2, <4>1
      <4>5. i # 1 => g[i - 1] = f[i - 1]
        BY <4>4
      <4> HIDE DEF g
      <4> QED
        BY <4>2, <4>3, <4>5
    <3> QED
      BY <3>1, <3>2
  <2> HIDE DEF g
  <2>7. Flat(m + 1, g)
    BY <2>5, <2>6
  <2> QED
    BY <2>2, <2>7
<1>3. n \in S
  <2> HIDE DEF S
  <2>1. \A k \in 0..n : k \in S
    BY <1>n, <1>1, <1>2, Induction
  <2> QED
    BY <1>n, <2>1
<1>4. PICK f : Flat(n, f)
  BY <1>3
<1>5. f = [i \in 1..n |-> IF i = 1 THEN s[i] ELSE f[i - 1] \o s[i]]
  <2> DEFINE g == [i \in 1..n |-> IF i = 1 THEN s[i] ELSE f[i - 1] \o s[i]]
  <2>1. \A i \in 1..n : g[i] = f[i]
    BY <1>4
  <2>2. f = [i \in 1..n |-> f[i]]
    BY <1>4
  <2>3. g = [i \in 1..n |-> g[i]]
    OBVIOUS
  <2> HIDE DEF g
  <2>4. g = f
    BY <2>1, <2>2, <2>3
  <2> QED
    BY <2>4 DEF g
<1> QED
  BY <1>5 DEF n

\* The concatenation of sequences: how long it is, and where each byte lies.
\* at[k] is where the k-th sequence ends.
LEMMA FlattenIs ==
  ASSUME NEW T, NEW s \in Seq(Seq(T)), NEW at \in [0..Len(s) -> Nat], at[0] = 0,
         \A k \in 1..Len(s) : at[k] = at[k - 1] + Len(s[k])
  PROVE  /\ FlattenSeq(s) \in Seq(T)
         /\ Len(FlattenSeq(s)) = at[Len(s)]
         /\ \A k \in 1..Len(s), i \in Nat :
              i \in 1..Len(s[k]) => FlattenSeq(s)[at[k - 1] + i] = s[k][i]
<1> DEFINE n == Len(s)
           f == FlattenFn(s)
<1>n. n \in Nat
  OBVIOUS
<1>s. \A k \in 1..n : s[k] \in Seq(T) /\ Len(s[k]) \in Nat
  OBVIOUS
<1>0. \A k \in 0..n : at[k] \in Nat
  OBVIOUS
<1>1. f = [i \in 1..n |-> IF i = 1 THEN s[i] ELSE f[i - 1] \o s[i]]
  BY FlattenExists, Zenon DEF FlattenFn
<1>2. FlattenSeq(s) = IF n = 0 THEN s ELSE f[n]
  BY FlattenSeqIs
<1>a. \A k \in 1..n : at[k] = at[k - 1] + Len(s[k])
  OBVIOUS
<1> HIDE DEF f, n
<1>3. CASE n = 0
  <2>1. s = << >>
    BY <1>3 DEF n
  <2>2. FlattenSeq(s) = << >>
    BY <1>2, <1>3, <2>1
  <2>3. Len(s) = 0
    BY <1>3 DEF n
  <2> QED
    BY <2>2, <2>3
<1>4. CASE n # 0
  <2> DEFINE Whole(m) == /\ f[m] \in Seq(T)
                         /\ Len(f[m]) = at[m]
                         /\ \A k \in 1..m, i \in Nat :
                              i \in 1..Len(s[k]) => f[m][at[k - 1] + i] = s[k][i]
             S == {m \in 0..n : m = 0 \/ Whole(m)}
  <2>1. 0 \in S
    BY <1>n
  <2>2. ASSUME NEW m \in 0..(n - 1), m \in S
        PROVE  m + 1 \in S
    <3>1. m \in Nat /\ m + 1 \in 1..n /\ m + 1 \in 0..n /\ m \in 0..n /\ (m + 1) - 1 = m
      BY <1>n
    <3>2. at[m + 1] = at[m] + Len(s[m + 1]) /\ at[m] \in Nat
      BY <1>0, <1>a, <3>1
    <3>3. s[m + 1] \in Seq(T) /\ Len(s[m + 1]) \in Nat
      BY <1>s, <3>1
    <3>4. CASE m = 0
      <4>0. m + 1 = 1 /\ 1 \in 1..n
        BY <3>1, <3>4
      <4>1. f[m + 1] = s[m + 1]
        <5>1. f[1] = s[1]
          BY <1>1, <4>0
        <5> QED
          BY <4>0, <5>1
      <4>2. at[m] = 0 /\ at[m + 1] = Len(s[m + 1])
        <5>1. at[m] = 0
          BY <3>4
        <5> QED
          BY <3>2, <3>3, <5>1
      <4>3. ASSUME NEW k \in 1..(m + 1), NEW i \in Nat, i \in 1..Len(s[k])
            PROVE  f[m + 1][at[k - 1] + i] = s[k][i]
        <5>0. k = m + 1 /\ k - 1 = m
          BY <3>1, <3>4
        <5>1. k = m + 1 /\ at[k - 1] = 0 /\ 0 + i = i
          BY <5>0, <4>2
        <5> QED
          BY <4>1, <5>1
      <4>4. Whole(m + 1)
        BY <3>3, <4>1, <4>2, <4>3
      <4> QED
        BY <3>1, <4>4
    <3>5. CASE m # 0
      <4>0. m + 1 # 1
        BY <3>1, <3>5
      <4>1. f[m + 1] = f[m] \o s[m + 1]
        <5>1. f[m + 1] = IF m + 1 = 1 THEN s[m + 1] ELSE f[(m + 1) - 1] \o s[m + 1]
          BY <1>1, <3>1
        <5> QED
          BY <3>1, <4>0, <5>1
      <4>2. Whole(m)
        BY <2>2, <3>5
      <4>r. f[m] \in Seq(T) /\ Len(f[m]) = at[m]
        BY <4>2
      <4>3. f[m + 1] \in Seq(T) /\ Len(f[m + 1]) = at[m + 1]
        <5> DEFINE u == f[m]
                   v == s[m + 1]
        <5>1. u \in Seq(T) /\ v \in Seq(T)
          BY <3>3, <4>r
        <5> HIDE DEF u, v
        <5>2. u \o v \in Seq(T) /\ Len(u \o v) = Len(u) + Len(v)
          BY <5>1
        <5> QED
          BY <3>2, <4>1, <4>r, <5>2 DEF u, v
      <4>4. ASSUME NEW k \in 1..(m + 1), NEW i \in Nat, i \in 1..Len(s[k])
            PROVE  f[m + 1][at[k - 1] + i] = s[k][i]
        <5>1. CASE k = m + 1
          <6>1. k - 1 = m
            BY <3>1, <5>1
          <6>2. f[m + 1][at[m] + i] = s[m + 1][i]
            <7>1. i \in 1..Len(s[m + 1])
              BY <4>4, <5>1
            <7>2. (f[m] \o s[m + 1])[Len(f[m]) + i] = s[m + 1][i]
              <8> DEFINE u == f[m]
                         v == s[m + 1]
              <8>1. u \in Seq(T) /\ v \in Seq(T) /\ i \in 1..Len(v)
                BY <3>3, <4>r, <7>1
              <8> HIDE DEF u, v
              <8>2. (u \o v)[Len(u) + i] = v[i]
                BY <8>1
              <8> QED
                BY <8>2 DEF u, v
            <7> QED
              BY <4>1, <4>r, <7>2
          <6> QED
            BY <5>1, <6>1, <6>2
        <5>2. CASE k # m + 1
          <6>1. k \in 1..m /\ k \in 1..n /\ k - 1 \in 0..n /\ k \in 0..n
            BY <1>n, <3>1, <5>2
          <6>2. f[m][at[k - 1] + i] = s[k][i]
            BY <4>2, <4>4, <6>1
          <6>3. at[k] = at[k - 1] + Len(s[k]) /\ at[k - 1] \in Nat /\ at[k] \in Nat /\ Len(s[k]) \in Nat
            BY <1>0, <1>a, <1>s, <6>1
          <6>4. at[k] <= at[m]
            <7> DEFINE R == {l \in 0..n : k <= l => at[k] <= at[l]}
            <7>0. k \in Nat /\ ~ (k <= 0)
              BY <6>1, <1>n
            <7>1. 0 \in R
              BY <1>n, <7>0
            <7>2. ASSUME NEW l \in 0..(n - 1), l \in R
                  PROVE  l + 1 \in R
              <8>1. l + 1 \in 1..n /\ l + 1 \in 0..n /\ (l + 1) - 1 = l /\ l \in 0..n /\ l \in Nat /\ k \in Nat
                BY <1>n, <6>1
              <8>2. at[l + 1] = at[l] + Len(s[l + 1]) /\ Len(s[l + 1]) \in Nat /\ at[l] \in Nat
                    /\ at[l + 1] \in Nat
                BY <1>0, <1>a, <1>s, <8>1
              <8>3. CASE k = l + 1
                <9>1. at[k] <= at[l + 1]
                  BY <8>2, <8>3
                <9> QED
                  BY <8>1, <9>1
              <8>4. CASE k # l + 1
                <9>1. k <= l + 1 => k <= l
                  BY <8>1, <8>4
                <9>2. k <= l => at[k] <= at[l]
                  BY <7>2
                <9>3. k <= l + 1 => at[k] <= at[l + 1]
                  <10> DEFINE a == at[k]
                              c == at[l]
                              d == at[l + 1]
                              z == Len(s[l + 1])
                  <10>1. d = c + z /\ z \in Nat /\ a \in Nat /\ c \in Nat
                    BY <6>3, <8>2
                  <10>2. k <= l + 1 => a <= c
                    BY <9>1, <9>2
                  <10> HIDE DEF a, c, d, z
                  <10>3. k <= l + 1 => a <= d
                    BY <10>1, <10>2
                  <10> QED
                    BY <10>3 DEF a, d
                <9> QED
                  BY <8>1, <9>3
              <8> QED
                BY <8>3, <8>4
            <7>3. \A l \in 0..n : l \in R
              <8> HIDE DEF R
              <8> QED BY <1>n, <7>1, <7>2, Induction
            <7> QED
              BY <3>1, <6>1, <7>3
          <6>5. at[k - 1] + i \in 1..at[m]
            <7> DEFINE a == at[k - 1]
                       z == Len(s[k])
                       d == at[m]
            <7>1. a \in Nat /\ z \in Nat /\ d \in Nat /\ i \in 1..z /\ a + z <= d
              BY <3>2, <4>4, <6>3, <6>4
            <7> HIDE DEF a, z, d
            <7>2. a + i \in 1..d
              BY <7>1
            <7> QED
              BY <7>2 DEF a, d
          <6>6. f[m + 1][at[k - 1] + i] = f[m][at[k - 1] + i]
            <7> DEFINE u == f[m]
                       v == s[m + 1]
                       j == at[k - 1] + i
            <7>1. u \in Seq(T) /\ v \in Seq(T) /\ j \in 1..Len(u)
              BY <3>3, <4>r, <6>5
            <7> HIDE DEF u, v, j
            <7>2. (u \o v)[j] = u[j]
              BY <7>1
            <7> QED
              BY <4>1, <7>2 DEF u, v, j
          <6> QED
            BY <6>2, <6>6
        <5> QED
          BY <5>1, <5>2
      <4>5. Whole(m + 1)
        BY <4>3, <4>4
      <4> QED
        BY <3>1, <4>5
    <3> QED
      BY <3>4, <3>5
  <2>3. \A m \in 0..n : m \in S
    <3> HIDE DEF S
    <3> QED BY <1>n, <2>1, <2>2, Induction
  <2>4. Whole(n)
    BY <1>4, <1>n, <2>3
  <2>5. FlattenSeq(s) = f[n]
    BY <1>2, <1>4
  <2> QED
    BY <2>4, <2>5 DEF n
<1> QED
  BY <1>3, <1>4
=============================================================================
