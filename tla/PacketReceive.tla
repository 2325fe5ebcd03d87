--------------------------- MODULE PacketReceive ----------------------------
(***************************************************************************)
(* The receive loop of threadHandler in server/aesdsocket.c, with its      *)
(* bytes: how what recv returns becomes the packet that is written to the  *)
(* device.  The thread has everything here to itself; AesdSocket has the   *)
(* threads, and takes the packet from here as a whole.                     *)
(*                                                                         *)
(* A client's bytes are a stream that recv cuts where it likes, into       *)
(* chunks of at most BUFFER_SIZE bytes.  outputBuffer is a C string: a     *)
(* block of memory and the bytes before its first NUL.                     *)
(***************************************************************************)
EXTENDS Naturals, Sequences

CONSTANTS
  BUFFER_SIZE,  \* 100 in the code
  Streams       \* what a client may send before it closes: Seq(Bytes)

\* A newline, the NUL byte, and any other byte.
Bytes == {"newline", "NUL", "text"}

ASSUME StreamAssumption ==
  /\ BUFFER_SIZE \in Nat \ {0}
  /\ Streams \subseteq Seq(Bytes)

VARIABLES
  sent,            \* history: the bytes of the client
  rest,            \* those that recv has not returned yet
  packetComplete,
  outputBuffer,    \* the bytes before its NUL
  size,            \* the size of its block
  j,
  pc,              \* "recv", "packet" behind the loop, "failed" when the process has ended
  overread,        \* history: a byte behind buffer was copied
  overrun          \* history: strncat wrote behind the block

vars == <<sent, rest, packetComplete, outputBuffer, size, j, pc, overread, overrun>>

\* malloc of BUFFER_SIZE bytes, all NUL.
Init ==
  /\ sent \in Streams
  /\ rest = sent
  /\ packetComplete = FALSE
  /\ outputBuffer = << >>
  /\ size = BUFFER_SIZE
  /\ j = 0
  /\ pc = "recv"
  /\ overread = FALSE /\ overrun = FALSE

\* Fault: the index stays on the newline.
ScanBefore(chunk) ==
  LET newlines == {i \in 1..Len(chunk) : chunk[i] = "newline"}
  IN  IF newlines = {} THEN BUFFER_SIZE
      ELSE (CHOOSE i \in newlines : \A k \in newlines : i <= k) - 1

(***************************************************************************)
(* The scan for a newline, which looks at the whole of buffer: the value   *)
(* of i behind the loop.  It is BUFFER_SIZE when there is none, however    *)
(* few bytes recv has returned.                                            *)
(***************************************************************************)
Scan(chunk) ==
  LET newlines == {i \in 1..Len(chunk) : chunk[i] = "newline"}
  IN  IF newlines = {} THEN BUFFER_SIZE
      ELSE CHOOSE i \in newlines : \A k \in newlines : i <= k

\* The bytes of s before its first NUL, n at most: what strncat copies.
BeforeNul(s, n) ==
  LET ends == {i \in 1..n : i > Len(s) \/ s[i] = "NUL"}
      first == CHOOSE i \in ends : \A k \in ends : i <= k
  IN  SubSeq(s, 1, IF ends = {} THEN n ELSE first - 1)

\* buffer after recv: memset has cleared what lies behind the chunk.
Filled(chunk) ==
  [i \in 1..BUFFER_SIZE |-> IF i <= Len(chunk) THEN chunk[i] ELSE "NUL"]

\* What realloc asks for.
Room(i) == j + i + 1

\* Fault: everything that recv has returned is copied.
LimitAll(i) == BUFFER_SIZE

\* How many bytes strncat may copy.
Limit(i) == i + 1

\* Fault: strncpy in place of strncat.
JoinedCopy(taken) == taken

Joined(taken) == outputBuffer \o taken

(***************************************************************************)
(* One iteration that receives a chunk.  strncat may take i + 1 bytes: one *)
(* behind the newline, or, of a buffer without a NUL and without an        *)
(* earlier newline, the byte that lies behind the array, whatever it is.   *)
(***************************************************************************)
Recv ==
  /\ pc = "recv"
  /\ \E n \in 1..BUFFER_SIZE, behind \in Bytes :
       /\ n <= Len(rest)
       /\ LET chunk == SubSeq(rest, 1, n)
              buffer == Filled(chunk)
              i == Scan(chunk)
              taken == BeforeNul(buffer \o <<behind>>, Limit(i))
          IN  /\ rest' = SubSeq(rest, n + 1, Len(rest))
              /\ packetComplete' = (\E k \in 1..n : chunk[k] = "newline")
              /\ j' = j + i
              /\ size' = Room(i)
              /\ outputBuffer' = Joined(taken)
              /\ overread' = (overread \/ Len(taken) > BUFFER_SIZE)
              /\ overrun' = (overrun \/ Len(outputBuffer') + 1 > size')
  /\ pc' = IF packetComplete' THEN "packet" ELSE "recv"
  /\ UNCHANGED sent

\* recv returns 0: the client has sent everything and closed.
RecvEnd ==
  /\ pc = "recv"
  /\ rest = << >>
  /\ pc' = "packet"
  /\ UNCHANGED <<sent, rest, packetComplete, outputBuffer, size, j, overread, overrun>>

\* recv fails, and exit ends the process.
RecvFails ==
  /\ pc = "recv"
  /\ pc' = "failed"
  /\ UNCHANGED <<sent, rest, packetComplete, outputBuffer, size, j, overread, overrun>>

Next == Recv \/ RecvEnd \/ RecvFails

Spec == Init /\ [][Next]_vars

-----------------------------------------------------------------------------
(* Properties.                                                             *)

\* Every variable has its type; outputBuffer is a string, without a NUL in it.
TypeOK ==
  /\ sent \in Seq(Bytes) /\ rest \in Seq(Bytes)
  /\ packetComplete \in BOOLEAN
  /\ outputBuffer \in Seq({"newline", "text"})
  /\ size \in Nat /\ j \in Nat
  /\ pc \in {"recv", "packet", "failed"}
  /\ overread \in BOOLEAN /\ overrun \in BOOLEAN

\* Where the first newline of the client is, or its last byte without one.
PacketEnd ==
  LET newlines == {i \in 1..Len(sent) : sent[i] = "newline"}
  IN  IF newlines = {} THEN Len(sent)
      ELSE CHOOSE i \in newlines : \A k \in newlines : i <= k

\* The client keeps to the protocol: one packet of text, nothing behind it.
OnePacket == PacketEnd = Len(sent) /\ \A i \in 1..Len(sent) : sent[i] # "NUL"

(***************************************************************************)
(* However recv cuts the bytes of one packet, the loop puts them together  *)
(* again: nothing is lost, doubled or out of place, also across many       *)
(* chunks and in a packet longer than the buffer.  What spoils it is only  *)
(* a chunk that fills the buffer to its last byte.                         *)
(***************************************************************************)
PacketWhole ==
  pc = "packet" /\ OnePacket /\ ~overread => outputBuffer = sent

(***************************************************************************)
(* The block that realloc returns is large enough: j counts BUFFER_SIZE    *)
(* for a chunk without a newline, so j + 1 covers every string but one     *)
(* that was given a byte behind its newline or behind the array.           *)
(***************************************************************************)
RoomForString ==
  overrun => overread \/ Len(outputBuffer) > PacketEnd

(***************************************************************************)
(* "Accept till '\n'" (aesdsocket.c:221), as far as the code keeps it: the *)
(* packet is what the client sent up to its newline, and at most one byte  *)
(* of what follows.  The rest of that chunk is dropped.                    *)
(***************************************************************************)
OneByteMore ==
  pc = "packet" /\ ~overread /\ (\A i \in 1..Len(sent) : sent[i] # "NUL") =>
    /\ outputBuffer = SubSeq(sent, 1, Len(outputBuffer))
    /\ Len(outputBuffer) \in {PacketEnd, PacketEnd + 1}
=============================================================================
