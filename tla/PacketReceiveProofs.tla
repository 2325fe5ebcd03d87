------------------------ MODULE PacketReceiveProofs -------------------------
(***************************************************************************)
(* Proofs about PacketReceive, for any size of the buffer and any bytes of *)
(* the client.                                                             *)
(***************************************************************************)
EXTENDS PacketReceive, SequenceTheorems, WellFoundedInduction, TLAPS

NoNul == \A i \in 1..Len(sent) : sent[i] # "NUL"

\* How many of the client's bytes recv has returned.
Consumed == Len(sent) - Len(rest)

\* rest is the end of what the client has sent.
Position ==
  /\ Consumed \in 0..Len(sent)
  /\ rest = SubSeq(sent, Consumed + 1, Len(sent))

\* In the loop: no newline so far, and j counts at least what was received and kept.
Receiving ==
  pc = "recv" =>
    /\ \A i \in 1..Consumed : sent[i] # "newline"
    /\ Consumed <= j
    /\ ~overread => Len(outputBuffer) <= j
    /\ NoNul /\ ~overread => outputBuffer = SubSeq(sent, 1, Consumed)

\* The block was too small for the byte behind a newline only.
Fits ==
  overrun /\ ~overread => pc = "packet" /\ Len(outputBuffer) > PacketEnd

\* Behind the loop.
Behind ==
  pc = "packet" /\ ~overread /\ NoNul =>
    /\ Len(outputBuffer) <= Len(sent)
    /\ outputBuffer = SubSeq(sent, 1, Len(outputBuffer))
    /\ Len(outputBuffer) \in {PacketEnd, PacketEnd + 1}

\* The inductive invariant.
IInv == TypeOK /\ Position /\ Receiving /\ Fits /\ Behind

-----------------------------------------------------------------------------
(* The operators.                                                          *)

\* A set of natural numbers that is not empty has a least element.
LEMMA Smallest ==
  ASSUME NEW S \in SUBSET Nat, S # {}
  PROVE  \E i \in S : \A k \in S : i <= k
<1> DEFINE R == OpToRel(<, Nat)
<1>1. IsWellFoundedOn(R, Nat)
  BY NatLessThanWellFounded, Zenon
<1>2. \A x, y \in Nat : <<y, x>> \in R <=> y < x
  BY DEF OpToRel
<1> HIDE DEF R
<1>3. PICK x \in S : \A y \in S : ~ (<<y, x>> \in R)
  BY <1>1, WFMin
<1>4. \A y \in S : x \in Nat /\ y \in Nat /\ ~ (y < x)
  BY <1>2, <1>3
<1>5. \A y \in S : x <= y
  BY <1>4
<1> QED
  BY <1>5

\* What the searches of the model choose.
LEMMA LeastIsLeast ==
  ASSUME NEW S \in SUBSET Nat, S # {}
  PROVE  LET least == CHOOSE i \in S : \A k \in S : i <= k
         IN  least \in S /\ \A k \in S : least <= k
BY Smallest

\* The scan stops at the first newline of the chunk, or behind the buffer.
LEMMA ScanIs ==
  ASSUME NEW chunk \in Seq(Bytes)
  PROVE  \/ /\ Scan(chunk) = BUFFER_SIZE
            /\ \A k \in 1..Len(chunk) : chunk[k] # "newline"
         \/ /\ Scan(chunk) \in 1..Len(chunk)
            /\ chunk[Scan(chunk)] = "newline"
            /\ \A k \in 1..Len(chunk) : chunk[k] = "newline" => Scan(chunk) <= k
<1> DEFINE newlines == {i \in 1..Len(chunk) : chunk[i] = "newline"}
<1>1. newlines \in SUBSET Nat
  OBVIOUS
<1>2. CASE newlines = {}
  BY <1>2 DEF Scan
<1>3. CASE newlines # {}
  <2>1. Scan(chunk) = CHOOSE i \in newlines : \A k \in newlines : i <= k
    BY <1>3 DEF Scan
  <2> HIDE DEF newlines
  <2>2. Scan(chunk) \in newlines /\ \A k \in newlines : Scan(chunk) <= k
    BY <1>1, <1>3, <2>1, LeastIsLeast
  <2> QED
    BY <2>2 DEF newlines
<1> QED
  BY <1>2, <1>3

\* Where the packet ends.
LEMMA PacketEndIs ==
  ASSUME sent \in Seq(Bytes)
  PROVE  /\ (\A k \in 1..Len(sent) : sent[k] # "newline") => PacketEnd = Len(sent)
         /\ \A p \in 1..Len(sent) :
              sent[p] = "newline" /\ (\A k \in 1..(p - 1) : sent[k] # "newline")
                => PacketEnd = p
<1> DEFINE newlines == {i \in 1..Len(sent) : sent[i] = "newline"}
<1>1. newlines \in SUBSET Nat
  OBVIOUS
<1>2. ASSUME \A k \in 1..Len(sent) : sent[k] # "newline"
      PROVE  PacketEnd = Len(sent)
  BY <1>2 DEF PacketEnd
<1>3. ASSUME NEW p \in 1..Len(sent), sent[p] = "newline",
             \A k \in 1..(p - 1) : sent[k] # "newline"
      PROVE  PacketEnd = p
  <2>1. newlines # {} /\ p \in newlines
    BY <1>3
  <2>2. PacketEnd = CHOOSE i \in newlines : \A k \in newlines : i <= k
    BY <2>1 DEF PacketEnd
  <2> HIDE DEF newlines
  <2>3. PacketEnd \in newlines /\ \A k \in newlines : PacketEnd <= k
    BY <1>1, <2>1, <2>2, LeastIsLeast
  <2>4. PacketEnd \in 1..Len(sent) /\ sent[PacketEnd] = "newline"
    BY <2>3 DEF newlines
  <2>5. PacketEnd <= p
    BY <2>1, <2>3
  <2>6. ~ (PacketEnd < p)
    BY <1>3, <2>4
  <2> QED
    BY <2>4, <2>5, <2>6
<1> QED
  BY <1>2, <1>3

\* strncat copies the bytes before a NUL, all of them or as many as it may.
LEMMA BeforeNulIs ==
  ASSUME NEW s \in Seq(Bytes), NEW n \in Nat
  PROVE  \E m \in 0..n :
           /\ m <= Len(s)
           /\ BeforeNul(s, n) = SubSeq(s, 1, m)
           /\ \A k \in 1..m : s[k] # "NUL"
           /\ m = n \/ m = Len(s) \/ s[m + 1] = "NUL"
<1> DEFINE ends == {i \in 1..n : i > Len(s) \/ s[i] = "NUL"}
           first == CHOOSE i \in ends : \A k \in ends : i <= k
<1>1. ends \in SUBSET Nat
  OBVIOUS
<1>2. BeforeNul(s, n) = SubSeq(s, 1, IF ends = {} THEN n ELSE first - 1)
  BY DEF BeforeNul
<1>3. CASE ends = {}
  <2>1. BeforeNul(s, n) = SubSeq(s, 1, n)
    BY <1>2, <1>3
  <2>2. \A k \in 1..n : k <= Len(s) /\ s[k] # "NUL"
    <3> SUFFICES ASSUME NEW k \in 1..n
                 PROVE  k <= Len(s) /\ s[k] # "NUL"
      OBVIOUS
    <3>1. k \notin ends
      BY <1>3, Zenon
    <3>2. ~ (k > Len(s)) /\ s[k] # "NUL"
      BY <3>1
    <3> QED
      BY <3>2
  <2>3. n <= Len(s)
    <3>1. CASE n = 0
      BY <3>1
    <3>2. CASE n # 0
      <4>1. n \in 1..n
        BY <3>2
      <4> QED
        BY <2>2, <4>1
    <3> QED
      BY <3>1, <3>2
  <2> QED
    BY <2>1, <2>2, <2>3
<1>4. CASE ends # {}
  <2>1. first \in ends /\ \A k \in ends : first <= k
    <3> HIDE DEF ends
    <3> QED BY <1>1, <1>4, LeastIsLeast
  <2>2. BeforeNul(s, n) = SubSeq(s, 1, first - 1)
    BY <1>2, <1>4
  <2> HIDE DEF first
  <2>3. first \in 1..n /\ (first > Len(s) \/ s[first] = "NUL")
    BY <2>1
  <2>4. \A k \in 1..(first - 1) : k \notin ends
    BY <2>1, <2>3
  <2>5. \A k \in 1..(first - 1) : k <= Len(s) /\ s[k] # "NUL"
    BY <2>3, <2>4
  <2>6. first - 1 <= Len(s)
    BY <2>3, <2>5
  <2>7. first - 1 \in 0..n
    BY <2>3
  <2>8. first - 1 = Len(s) \/ s[(first - 1) + 1] = "NUL"
    BY <2>3, <2>6
  <2> QED
    BY <2>2, <2>5, <2>6, <2>7, <2>8
<1> QED
  BY <1>3, <1>4

-----------------------------------------------------------------------------
(* A chunk of the client, and what strncat takes of it.                    *)

\* buffer and the byte behind it.
LEMMA BufferIs ==
  ASSUME NEW chunk \in Seq(Bytes), Len(chunk) <= BUFFER_SIZE, NEW behind \in Bytes
  PROVE  LET b == Filled(chunk) \o <<behind>>
         IN  /\ b \in Seq(Bytes)
             /\ Len(b) = BUFFER_SIZE + 1
             /\ \A k \in 1..Len(chunk) : b[k] = chunk[k]
             /\ \A k \in (Len(chunk) + 1)..BUFFER_SIZE : b[k] = "NUL"
<1>1. BUFFER_SIZE \in Nat /\ Len(chunk) \in Nat
  BY StreamAssumption
<1>2. Filled(chunk) \in [1..BUFFER_SIZE -> Bytes]
  BY <1>1 DEF Filled, Bytes
<1>3. Filled(chunk) \in Seq(Bytes) /\ Len(Filled(chunk)) = BUFFER_SIZE
  BY <1>1, <1>2
<1>4. \A k \in 1..BUFFER_SIZE :
        (Filled(chunk) \o <<behind>>)[k] = Filled(chunk)[k]
  BY <1>1, <1>3
<1>5. \A k \in 1..Len(chunk) : Filled(chunk)[k] = chunk[k]
  BY <1>1 DEF Filled
<1>6. \A k \in (Len(chunk) + 1)..BUFFER_SIZE : Filled(chunk)[k] = "NUL"
  BY <1>1 DEF Filled
<1>7. \A k \in 1..Len(chunk) : k \in 1..BUFFER_SIZE
  BY <1>1
<1>8. \A k \in (Len(chunk) + 1)..BUFFER_SIZE : k \in 1..BUFFER_SIZE
  BY <1>1
<1> QED
  BY <1>1, <1>3, <1>4, <1>5, <1>6, <1>7, <1>8

\* strncat takes the first m bytes, and reads behind the array when there are
\* more than BUFFER_SIZE of them.
LEMMA TakenIs ==
  ASSUME NEW chunk \in Seq(Bytes), Len(chunk) <= BUFFER_SIZE, NEW behind \in Bytes
  PROVE  LET i == Scan(chunk)
             taken == BeforeNul(Filled(chunk) \o <<behind>>, Limit(i))
         IN  /\ i \in Nat
             /\ taken \in Seq({"newline", "text"})
             /\ Len(taken) <= i + 1
             /\ Len(taken) <= BUFFER_SIZE => \A k \in 1..Len(taken) : k <= Len(chunk) /\ taken[k] = chunk[k]
             /\ (\A k \in 1..Len(chunk) : chunk[k] # "NUL")
                  => Len(taken) >= i \/ Len(taken) >= Len(chunk)
<1> DEFINE i == Scan(chunk)
           b == Filled(chunk) \o <<behind>>
           taken == BeforeNul(b, Limit(i))
<1>0. BUFFER_SIZE \in Nat /\ Len(chunk) \in Nat
  BY StreamAssumption
<1>1. i \in Nat /\ i <= BUFFER_SIZE
  BY <1>0, ScanIs
<1>2. /\ b \in Seq(Bytes)
      /\ Len(b) = BUFFER_SIZE + 1
      /\ \A k \in 1..Len(chunk) : b[k] = chunk[k]
      /\ \A k \in (Len(chunk) + 1)..BUFFER_SIZE : b[k] = "NUL"
  BY BufferIs
<1> HIDE DEF b, i
<1>3. PICK m \in 0..(i + 1) :
        /\ m <= Len(b)
        /\ taken = SubSeq(b, 1, m)
        /\ \A k \in 1..m : b[k] # "NUL"
        /\ m = i + 1 \/ m = Len(b) \/ b[m + 1] = "NUL"
  <2>1. i + 1 \in Nat /\ Limit(i) = i + 1
    BY <1>1 DEF Limit
  <2> QED
    BY <1>2, <2>1, BeforeNulIs
<1> HIDE DEF taken
<1>4. taken \in Seq(Bytes) /\ Len(taken) = m /\ \A k \in 1..m : taken[k] = b[k]
  BY <1>0, <1>1, <1>2, <1>3
<1>5. \A k \in 1..m : taken[k] \in {"newline", "text"}
  <2>1. \A k \in 1..m : taken[k] \in Bytes
    BY <1>4
  <2> QED
    BY <1>3, <1>4, <2>1 DEF Bytes
<1>6. taken \in Seq({"newline", "text"})
  <2>1. m \in Nat /\ taken = [k \in 1..m |-> taken[k]]
    BY <1>1, <1>3, <1>4
  <2>2. [k \in 1..m |-> taken[k]] \in [1..m -> {"newline", "text"}]
    BY <1>5
  <2> QED
    BY <2>1, <2>2
<1>7. ASSUME m <= BUFFER_SIZE, NEW k \in 1..m
      PROVE  k <= Len(chunk) /\ taken[k] = chunk[k]
  <2>1. b[k] # "NUL" /\ k \in 1..BUFFER_SIZE
    BY <1>0, <1>1, <1>3, <1>7
  <2>2. k <= Len(chunk)
    BY <1>0, <1>2, <2>1
  <2> QED
    BY <1>2, <1>4, <2>1, <2>2, <1>0
<1>8. ASSUME \A k \in 1..Len(chunk) : chunk[k] # "NUL"
      PROVE  m >= i \/ m >= Len(chunk)
  <2>1. CASE m = i + 1 \/ m = Len(b)
    BY <1>0, <1>1, <1>2, <2>1
  <2>2. CASE b[m + 1] = "NUL"
    <3>1. m + 1 \notin 1..Len(chunk)
      BY <1>2, <1>8, <2>2
    <3> QED
      BY <1>0, <1>1, <3>1
  <2> QED
    BY <1>3, <2>1, <2>2
<1> QED
  BY <1>0, <1>1, <1>3, <1>4, <1>6, <1>7, <1>8 DEF i, b, taken

-----------------------------------------------------------------------------
(* The invariant is inductive.                                             *)

LEMMA Initially == Init => IInv
<1> SUFFICES ASSUME Init
             PROVE  IInv
  OBVIOUS
<1>1. sent \in Seq(Bytes) /\ rest = sent /\ Len(sent) \in Nat
  BY StreamAssumption DEF Init
<1>2. TypeOK
  <2>1. << >> \in Seq({"newline", "text"}) /\ BUFFER_SIZE \in Nat
    BY StreamAssumption
  <2> QED
    BY <1>1, <2>1 DEF Init, TypeOK
<1>3. Consumed = 0
  BY <1>1 DEF Consumed
<1>4. Position
  <2>1. SubSeq(sent, 1, Len(sent)) = sent
    BY <1>1
  <2> QED
    BY <1>1, <1>3, <2>1 DEF Position
<1>5. Receiving
  <2>1. SubSeq(sent, 1, 0) = << >>
    BY <1>1
  <2> QED
    BY <1>3, <2>1 DEF Init, Receiving
<1>6. Fits /\ Behind
  BY DEF Init, Fits, Behind
<1> QED
  BY <1>2, <1>4, <1>5, <1>6 DEF IInv

\* A chunk of n bytes lies behind those that were received before.
LEMMA ChunkIs ==
  ASSUME sent \in Seq(Bytes), rest \in Seq(Bytes), Position,
         NEW n \in 1..Len(rest)
  PROVE  LET chunk == SubSeq(rest, 1, n)
             others == SubSeq(rest, n + 1, Len(rest))
         IN  /\ chunk \in Seq(Bytes)
             /\ Len(chunk) = n
             /\ \A k \in 1..n : chunk[k] = sent[Consumed + k]
             /\ Consumed + n <= Len(sent)
             /\ others \in Seq(Bytes)
             /\ Len(sent) - Len(others) = Consumed + n
             /\ others = SubSeq(sent, Consumed + n + 1, Len(sent))
<1> DEFINE c == Consumed
           chunk == SubSeq(rest, 1, n)
           others == SubSeq(rest, n + 1, Len(rest))
<1>1. c \in Nat /\ Len(sent) \in Nat /\ Len(rest) \in Nat /\ c <= Len(sent)
      /\ Len(rest) = Len(sent) - c /\ n \in Nat /\ n <= Len(rest)
  BY DEF Position, Consumed
<1>2. rest = SubSeq(sent, c + 1, Len(sent))
  BY DEF Position
<1> HIDE DEF c
<1>3. \A k \in 1..Len(rest) : rest[k] = sent[c + k]
  BY <1>1, <1>2
<1>4. /\ chunk \in Seq(Bytes) /\ Len(chunk) = n
      /\ \A k \in 1..n : chunk[k] = rest[k]
  BY <1>1
<1>5. \A k \in 1..n : chunk[k] = sent[c + k]
  BY <1>1, <1>3, <1>4
<1>6. /\ others \in Seq(Bytes) /\ Len(others) = Len(rest) - n
      /\ \A k \in 1..(Len(rest) - n) : others[k] = rest[n + k]
  BY <1>1
<1>7. others = SubSeq(sent, c + n + 1, Len(sent))
  <2> DEFINE end == SubSeq(sent, c + n + 1, Len(sent))
  <2>1. /\ end \in Seq(Bytes) /\ Len(end) = Len(rest) - n
        /\ \A k \in 1..(Len(rest) - n) : end[k] = sent[c + n + k]
    BY <1>1
  <2>2. \A k \in 1..(Len(rest) - n) : others[k] = sent[c + n + k]
    <3> SUFFICES ASSUME NEW k \in 1..(Len(rest) - n)
                 PROVE  others[k] = sent[c + n + k]
      OBVIOUS
    <3>1. others[k] = rest[n + k] /\ n + k \in 1..Len(rest)
      BY <1>1, <1>6
    <3>2. rest[n + k] = sent[c + (n + k)]
      BY <1>3, <3>1
    <3>3. c + (n + k) = c + n + k
      BY <1>1
    <3> QED
      BY <3>1, <3>2, <3>3
  <2> HIDE DEF others, end
  <2>3. others = end
    BY <1>6, <2>1, <2>2, SeqEqual
  <2> QED
    BY <2>3 DEF end, others
<1>8. c + n <= Len(sent) /\ Len(sent) - Len(others) = c + n
  BY <1>1, <1>6
<1> HIDE DEF chunk, others
<1> QED
  BY <1>4, <1>5, <1>6, <1>7, <1>8 DEF c, chunk, others

LEMMA RecvStep ==
  ASSUME IInv, Recv
  PROVE  IInv'
<1> USE DEF IInv
<1>1. PICK n \in 1..BUFFER_SIZE, behind \in Bytes :
       /\ n <= Len(rest)
       /\ LET chunk == SubSeq(rest, 1, n)
              buffer == Filled(chunk)
              i == Scan(chunk)
              taken == BeforeNul(buffer \o <<behind>>, Limit(i))
          IN  /\ rest' = SubSeq(rest, n + 1, Len(rest))
              /\ packetComplete' = (\E k \in 1..n : chunk[k] = "newline")
              /\ j' = j + i
              /\ size' = Room(i)
              /\ outputBuffer' = Joined(taken)
              /\ overread' = (overread \/ Len(taken) > BUFFER_SIZE)
              /\ overrun' = (overrun \/ Len(outputBuffer') + 1 > size')
  BY DEF Recv
<1> DEFINE c == Consumed
           chunk == SubSeq(rest, 1, n)
           i == Scan(chunk)
           taken == BeforeNul(Filled(chunk) \o <<behind>>, Limit(i))
           others == SubSeq(rest, n + 1, Len(rest))
<1>2. /\ pc = "recv" /\ sent' = sent
      /\ pc' = IF packetComplete' THEN "packet" ELSE "recv"
  BY DEF Recv
<1>3. /\ sent \in Seq(Bytes) /\ rest \in Seq(Bytes) /\ Len(sent) \in Nat /\ Len(rest) \in Nat
      /\ outputBuffer \in Seq({"newline", "text"}) /\ Len(outputBuffer) \in Nat
      /\ j \in Nat /\ overread \in BOOLEAN /\ overrun \in BOOLEAN
  BY DEF TypeOK
<1>4. BUFFER_SIZE \in Nat /\ n \in Nat /\ 1 <= n /\ n <= BUFFER_SIZE /\ n \in 1..Len(rest)
  BY <1>1, <1>3, StreamAssumption
<1>5. /\ chunk \in Seq(Bytes)
      /\ Len(chunk) = n
      /\ \A k \in 1..n : chunk[k] = sent[c + k]
      /\ c + n <= Len(sent)
      /\ others \in Seq(Bytes)
      /\ Len(sent) - Len(others) = c + n
      /\ others = SubSeq(sent, c + n + 1, Len(sent))
  BY <1>3, <1>4, ChunkIs
<1>6. /\ rest' = others
      /\ packetComplete' = (\E k \in 1..n : chunk[k] = "newline")
      /\ j' = j + i
      /\ size' = j + i + 1
      /\ outputBuffer' = outputBuffer \o taken
      /\ overread' = (overread \/ Len(taken) > BUFFER_SIZE)
      /\ overrun' = (overrun \/ Len(outputBuffer') + 1 > size')
  BY <1>1 DEF Joined, Room
<1>7. c \in Nat /\ c <= Len(sent) /\ c <= j
      /\ (\A k \in 1..c : sent[k] # "newline")
      /\ (~overread => Len(outputBuffer) <= j)
      /\ (NoNul /\ ~overread => outputBuffer = SubSeq(sent, 1, c))
      /\ (overrun => overread)
  BY <1>2, <1>3 DEF Position, Receiving, Fits
<1> HIDE DEF chunk, c, others
<1>8. /\ i \in Nat
      /\ taken \in Seq({"newline", "text"})
      /\ Len(taken) <= i + 1
      /\ Len(taken) <= BUFFER_SIZE
           => \A k \in 1..Len(taken) : k <= Len(chunk) /\ taken[k] = chunk[k]
      /\ (\A k \in 1..Len(chunk) : chunk[k] # "NUL")
           => Len(taken) >= i \/ Len(taken) >= Len(chunk)
  BY <1>4, <1>5, TakenIs
<1>9. \/ i = BUFFER_SIZE /\ (\A k \in 1..n : chunk[k] # "newline")
      \/ /\ i \in 1..n /\ chunk[i] = "newline"
         /\ \A k \in 1..n : chunk[k] = "newline" => i <= k
  BY <1>5, ScanIs
<1> HIDE DEF taken, i
<1>10. Len(taken) \in Nat /\ Len(outputBuffer') = Len(outputBuffer) + Len(taken)
  BY <1>3, <1>6, <1>8
<1>11. TypeOK'
  <2>1. outputBuffer' \in Seq({"newline", "text"})
    BY <1>3, <1>6, <1>8
  <2>2. j' \in Nat /\ size' \in Nat
    BY <1>3, <1>6, <1>8
  <2>3. packetComplete' \in BOOLEAN /\ overread' \in BOOLEAN /\ overrun' \in BOOLEAN
    BY <1>6, Zenon
  <2> QED
    BY <1>2, <1>3, <1>5, <1>6, <2>1, <2>2, <2>3 DEF TypeOK
<1>12. Consumed' = c + n
  BY <1>2, <1>5, <1>6 DEF Consumed
<1>13. Position'
  BY <1>2, <1>3, <1>4, <1>5, <1>6, <1>7, <1>12 DEF Position
<1>14. /\ ~overread' => ~overread /\ Len(taken) <= BUFFER_SIZE
       /\ overread => overread'
       /\ overrun' => overrun \/ Len(outputBuffer') + 1 > j + i + 1
  <2>1. /\ ~overread' => ~overread /\ ~ (Len(taken) > BUFFER_SIZE)
        /\ overread => overread'
        /\ overrun' => overrun \/ Len(outputBuffer') + 1 > size'
    BY <1>6, Zenon
  <2> QED
    BY <1>4, <1>6, <1>10, <2>1
\* What was received is not torn: the string goes on where it was.
<1>15. ASSUME NoNul, ~overread'
       PROVE  /\ Len(taken) <= n
              /\ Len(taken) >= i \/ Len(taken) >= n
              /\ outputBuffer' = SubSeq(sent, 1, c + Len(taken))
  <2>1. ~overread /\ Len(taken) <= BUFFER_SIZE
    BY <1>15, <1>14
  <2>2. \A k \in 1..Len(taken) : k <= n /\ taken[k] = chunk[k]
    BY <1>5, <1>8, <2>1
  <2>3. Len(taken) <= n
    <3>1. CASE Len(taken) = 0
      BY <1>4, <3>1
    <3>2. CASE Len(taken) # 0
      <4>1. Len(taken) \in 1..Len(taken)
        BY <1>10, <3>2
      <4> QED
        BY <2>2, <4>1
    <3> QED
      BY <3>1, <3>2
  <2>4. \A k \in 1..n : chunk[k] # "NUL"
    <3> SUFFICES ASSUME NEW k \in 1..n
                 PROVE  chunk[k] # "NUL"
      OBVIOUS
    <3>1. c + k \in 1..Len(sent)
      BY <1>3, <1>4, <1>5, <1>7
    <3> QED
      BY <1>5, <1>15, <3>1 DEF NoNul
  <2>5. Len(taken) >= i \/ Len(taken) >= n
    BY <1>5, <1>8, <2>4
  <2>6. outputBuffer = SubSeq(sent, 1, c)
    BY <1>7, <1>15, <2>1
  <2> DEFINE m == Len(taken)
             whole == SubSeq(sent, 1, c + m)
  <2>7. m \in Nat /\ c + m <= Len(sent)
    BY <1>3, <1>4, <1>5, <1>7, <1>10, <2>3
  <2>8. \A k \in 1..m : taken[k] = sent[c + k]
    BY <1>5, <2>2
  <2>9. Len(outputBuffer) = c /\ \A k \in 1..c : outputBuffer[k] = sent[k]
    BY <1>3, <1>7, <2>6
  <2>10. /\ whole \in Seq(Bytes) /\ Len(whole) = c + m
         /\ \A k \in 1..(c + m) : whole[k] = sent[k]
    BY <1>3, <1>7, <2>7
  <2> HIDE DEF m, whole
  <2>11. outputBuffer' \in Seq({"newline", "text"}) /\ Len(outputBuffer') = c + m
    BY <1>3, <1>6, <1>8, <1>10, <2>9 DEF m
  <2>12. \A k \in 1..(c + m) : outputBuffer'[k] = sent[k]
    <3> SUFFICES ASSUME NEW k \in 1..(c + m)
                 PROVE  outputBuffer'[k] = sent[k]
      OBVIOUS
    <3>1. CASE k <= c
      <4>1. k \in 1..Len(outputBuffer)
        BY <1>7, <2>7, <2>9, <3>1
      <4>2. outputBuffer'[k] = outputBuffer[k]
        BY <1>3, <1>6, <1>8, <4>1
      <4> QED
        BY <2>9, <4>1, <4>2
    <3>2. CASE k > c
      <4>1. k - c \in 1..m /\ k \in Nat /\ c + (k - c) = k
        BY <1>7, <2>7, <3>2
      <4>2. outputBuffer'[k] = taken[k - c]
        BY <1>3, <1>6, <1>7, <1>8, <2>7, <2>9, <3>2, <4>1 DEF m
      <4> QED
        BY <2>8, <4>1, <4>2
    <3> QED
      BY <1>7, <2>7, <3>1, <3>2
  <2>13. outputBuffer' = whole
    BY <2>7, <1>7, <2>10, <2>11, <2>12
  <2> QED
    BY <2>3, <2>5, <2>13 DEF m, whole
<1>16. CASE i = BUFFER_SIZE /\ (\A k \in 1..n : chunk[k] # "newline")
  <2>1. pc' = "recv"
    BY <1>2, <1>6, <1>16
  <2>2. \A k \in 1..(c + n) : sent[k] # "newline"
    <3> SUFFICES ASSUME NEW k \in 1..(c + n)
                 PROVE  sent[k] # "newline"
      OBVIOUS
    <3>1. CASE k <= c
      BY <1>4, <1>7, <3>1
    <3>2. CASE k > c
      <4>1. k - c \in 1..n /\ c + (k - c) = k
        BY <1>4, <1>7, <3>2
      <4> QED
        BY <1>5, <1>16, <4>1
    <3> QED
      BY <1>4, <1>7, <3>1, <3>2
  <2>3. c + n <= j'
    BY <1>3, <1>4, <1>6, <1>7, <1>16
  <2>4. ~overread' => Len(outputBuffer') <= j'
    BY <1>3, <1>4, <1>6, <1>7, <1>10, <1>16, <1>14
  <2>5. NoNul /\ ~overread' => outputBuffer' = SubSeq(sent, 1, c + n)
    <3> SUFFICES ASSUME NoNul, ~overread'
                 PROVE  outputBuffer' = SubSeq(sent, 1, c + n)
      OBVIOUS
    <3>1. Len(taken) <= n /\ Len(taken) >= n
      BY <1>4, <1>10, <1>15, <1>16
    <3>2. Len(taken) = n
      BY <1>4, <1>10, <3>1
    <3> QED
      BY <1>15, <3>2
  <2>6. Receiving'
    BY <1>2, <1>12, <2>2, <2>3, <2>4, <2>5 DEF Receiving, NoNul
  <2>7. overrun' => overread'
    <3>1. overrun' => overrun \/ Len(outputBuffer') > j'
      BY <1>3, <1>6, <1>8, <1>10, <1>14
    <3>2. Len(outputBuffer') \in Nat /\ j' \in Nat
      BY <1>11 DEF TypeOK
    <3> QED
      BY <1>7, <1>14, <2>4, <3>1, <3>2
  <2> QED
    BY <1>11, <1>13, <2>1, <2>6, <2>7 DEF Fits, Behind
<1>17. CASE /\ i \in 1..n /\ chunk[i] = "newline"
            /\ \A k \in 1..n : chunk[k] = "newline" => i <= k
  <2>1. pc' = "packet"
    BY <1>2, <1>6, <1>17
  <2>2. c + i \in 1..Len(sent) /\ sent[c + i] = "newline"
    <3>1. c + i \in 1..Len(sent)
      BY <1>3, <1>4, <1>5, <1>7, <1>17
    <3>2. chunk[i] = sent[c + i]
      BY <1>5, <1>17
    <3> QED
      BY <1>17, <3>1, <3>2
  <2>3. \A k \in 1..((c + i) - 1) : sent[k] # "newline"
    <3> SUFFICES ASSUME NEW k \in 1..((c + i) - 1)
                 PROVE  sent[k] # "newline"
      OBVIOUS
    <3>1. CASE k <= c
      BY <1>4, <1>7, <3>1
    <3>2. CASE k > c
      <4>1. k - c \in 1..n /\ c + (k - c) = k /\ ~ (i <= k - c)
        BY <1>4, <1>7, <1>17, <3>2
      <4> QED
        BY <1>5, <1>17, <4>1
    <3> QED
      BY <1>4, <1>7, <1>8, <3>1, <3>2
  <2>4. PacketEnd = c + i
    <3> DEFINE p == c + i
    <3>1. /\ p \in 1..Len(sent) /\ sent[p] = "newline"
          /\ \A k \in 1..(p - 1) : sent[k] # "newline"
      BY <2>2, <2>3, Zenon
    <3> HIDE DEF p
    <3>2. PacketEnd = p
      BY <1>3, <3>1, PacketEndIs
    <3> QED
      BY <3>2 DEF p
  <2>5. PacketEnd' = c + i
    BY <1>2, <2>4 DEF PacketEnd
  <2>6. Fits'
    <3> SUFFICES ASSUME overrun', ~overread'
                 PROVE  Len(outputBuffer') > c + i
      BY <2>1, <2>5 DEF Fits
    <3>1. ~overread /\ ~overrun
      BY <1>7, <1>14
    <3>2. Len(outputBuffer') + 1 > j + i + 1
      BY <1>14, <3>1
    <3> QED
      BY <1>3, <1>7, <1>8, <1>10, <3>2
  <2>7. Behind'
    <3> SUFFICES ASSUME NoNul, ~overread'
                 PROVE  /\ Len(outputBuffer') <= Len(sent)
                        /\ outputBuffer' = SubSeq(sent, 1, Len(outputBuffer'))
                        /\ Len(outputBuffer') \in {c + i, c + i + 1}
      BY <1>2, <2>1, <2>5 DEF Behind, NoNul
    <3>1. /\ Len(taken) <= n /\ Len(taken) >= i /\ Len(taken) <= i + 1
          /\ outputBuffer' = SubSeq(sent, 1, c + Len(taken))
      BY <1>4, <1>8, <1>10, <1>15, <1>17
    <3>2. Len(outputBuffer') = c + Len(taken) /\ c + Len(taken) <= Len(sent)
      BY <1>3, <1>4, <1>5, <1>7, <1>10, <3>1
    <3>3. Len(taken) \in {i, i + 1}
      BY <1>8, <1>10, <3>1
    <3> QED
      BY <1>7, <1>8, <3>1, <3>2, <3>3
  <2> QED
    BY <1>11, <1>13, <2>1, <2>6, <2>7 DEF Receiving
<1> QED
  BY <1>9, <1>16, <1>17

LEMMA RecvEndStep ==
  ASSUME IInv, RecvEnd
  PROVE  IInv'
<1> USE DEF IInv, RecvEnd
<1>1. TypeOK' /\ Position' /\ Receiving' /\ Fits'
  BY DEF TypeOK, Position, Consumed, Receiving, Fits, PacketEnd
<1>2. Consumed = Len(sent) /\ sent \in Seq(Bytes)
  BY DEF TypeOK, Position, Consumed
<1>3. PacketEnd = Len(sent)
  BY <1>2, PacketEndIs DEF Receiving
<1>4. PacketEnd' = Len(sent)
  BY <1>3 DEF PacketEnd
<1>5. NoNul /\ ~overread => outputBuffer = sent
  <2>1. SubSeq(sent, 1, Len(sent)) = sent
    BY <1>2
  <2> QED
    BY <1>2, <2>1 DEF Receiving
<1>6. Behind'
  <2> SUFFICES ASSUME NoNul, ~overread
               PROVE  /\ Len(outputBuffer) <= Len(sent)
                      /\ outputBuffer = SubSeq(sent, 1, Len(outputBuffer))
                      /\ Len(outputBuffer) = Len(sent)
    BY <1>4 DEF Behind, NoNul
  <2>1. outputBuffer = sent
    BY <1>5
  <2> QED
    BY <1>2, <2>1
<1> QED
  BY <1>1, <1>6

LEMMA InductiveStep == IInv /\ [Next]_vars => IInv'
<1> SUFFICES ASSUME IInv, [Next]_vars
             PROVE  IInv'
  OBVIOUS
<1>1. CASE Recv
  BY <1>1, RecvStep
<1>2. CASE RecvEnd
  BY <1>2, RecvEndStep
<1>3. CASE RecvFails
  BY <1>3 DEF RecvFails, IInv, TypeOK, Position, Consumed, Receiving, Fits, Behind
<1>4. CASE UNCHANGED vars
  BY <1>4 DEF vars, IInv, TypeOK, Position, Consumed, Receiving, Fits, Behind,
     NoNul, PacketEnd
<1> QED
  BY <1>1, <1>2, <1>3, <1>4 DEF Next

LEMMA Invariance == Spec => []IInv
BY Initially, InductiveStep, PTL DEF Spec

-----------------------------------------------------------------------------
(* The results.                                                            *)

(***************************************************************************)
(* Whatever the size of the buffer and however recv cuts the bytes of one  *)
(* packet of text, the string behind the loop is that packet, unless a     *)
(* chunk has filled the buffer to its last byte.                           *)
(***************************************************************************)
THEOREM PacketIsWhole == Spec => []PacketWhole
<1>1. IInv => PacketWhole
  <2> SUFFICES ASSUME IInv, pc = "packet", OnePacket, ~overread
               PROVE  outputBuffer = sent
    BY DEF PacketWhole
  <2>1. sent \in Seq(Bytes) /\ Len(sent) \in Nat /\ Len(outputBuffer) \in Nat
    BY DEF IInv, TypeOK
  <2>2. /\ Len(outputBuffer) <= Len(sent)
        /\ outputBuffer = SubSeq(sent, 1, Len(outputBuffer))
        /\ Len(outputBuffer) \in {Len(sent), Len(sent) + 1}
    <3>1. PacketEnd = Len(sent) /\ NoNul
      BY DEF OnePacket, NoNul
    <3>2. /\ Len(outputBuffer) <= Len(sent)
          /\ outputBuffer = SubSeq(sent, 1, Len(outputBuffer))
          /\ Len(outputBuffer) \in {PacketEnd, PacketEnd + 1}
      BY <3>1 DEF IInv, Behind
    <3> QED
      BY <3>1, <3>2
  <2>3. Len(outputBuffer) = Len(sent)
    <3> DEFINE m == Len(outputBuffer)
               l == Len(sent)
    <3>1. m \in Nat /\ l \in Nat /\ m <= l /\ m \in {l, l + 1}
      BY <2>1, <2>2, Zenon
    <3> HIDE DEF m, l
    <3>2. m = l
      BY <3>1
    <3> QED
      BY <3>2 DEF m, l
  <2>4. SubSeq(sent, 1, Len(sent)) = sent
    BY <2>1
  <2> QED
    BY <2>2, <2>3, <2>4
<1> QED
  BY <1>1, Invariance, PTL

(***************************************************************************)
(* The block that realloc was asked for is too small only for a string     *)
(* that holds a byte behind its newline or behind the array.               *)
(***************************************************************************)
THEOREM PacketRoom == Spec => []RoomForString
<1>1. IInv => RoomForString
  BY DEF IInv, Fits, RoomForString, TypeOK
<1> QED
  BY <1>1, Invariance, PTL

(***************************************************************************)
(* The packet is what the client sent up to its newline and at most one    *)
(* byte more, for every stream of bytes without a NUL.                     *)
(***************************************************************************)
THEOREM PacketIsPrefix == Spec => []OneByteMore
<1>1. IInv => OneByteMore
  BY DEF IInv, Behind, NoNul, OneByteMore
<1> QED
  BY <1>1, Invariance, PTL
=============================================================================
