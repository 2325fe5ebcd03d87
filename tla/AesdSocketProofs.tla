-------------------------- MODULE AesdSocketProofs --------------------------
(***************************************************************************)
(* Proofs about AesdSocket, for any connections, any nodes, any limit on   *)
(* descriptors, any number of commands that the device keeps and any       *)
(* number of starts.                                                       *)
(***************************************************************************)
EXTENDS AesdSocket, FiniteSetTheorems, SequenceTheorems, TLAPS

Labels == {"none", "recv", "lock", "open", "send", "unlock", "returned"}

ListTypes ==
  /\ status \in {"off", "running", "failed", "stopped"}
  /\ limit \in Nat
  /\ main \in {"accept", "create", "reap", "join"}
  /\ dataPointer \in Nodes \cup {NULL}
  /\ list \in Seq(Nodes)
  /\ heap \in SUBSET Nodes
  /\ isDone \in [Nodes -> BOOLEAN]
  /\ threadFD \in [Nodes -> Conns \cup {NULL}]
  /\ fds \in SUBSET Conns
  /\ peak \in Nat

ThreadTypes ==
  /\ pc \in [Nodes -> Labels]
  /\ got \in [Nodes -> {"none", "part", "line"}]
  /\ pos \in [Nodes -> Nat]
  /\ reply \in [Nodes -> Seq(Seq(Conns))]
  /\ mutexLock \in Nodes \cup {NULL}

DataTypes ==
  /\ dataFile \in {"device", "regular", "absent"}
  /\ store \in [commands : Seq(Seq(Conns)), pending : Seq(Conns)]
  /\ history \in Seq(Seq(Conns))

NetworkTypes ==
  /\ backlog \in Seq(Conns)
  /\ peer \in [Conns -> {"none", "open", "fin", "stalled", "reset"}]
  /\ request \in [Conns -> [chunks : Seq({"part", "line"}), seek : BOOLEAN]]
  /\ inbox \in [Conns -> Seq({"part", "line"})]

Types == ListTypes /\ ThreadTypes /\ DataTypes /\ NetworkTypes

\* A process that does not run has no threads and no nodes.
Idle ==
  status # "running" => heap = {} /\ fds = {} /\ \A n \in Nodes : pc[n] = "none"

\* The list holds every allocated node once.
ListIsHeap ==
  /\ heap = {list[i] : i \in 1..Len(list)}
  /\ \A i, j \in 1..Len(list) : list[i] = list[j] => i = j
  /\ IsFiniteSet(heap)
  /\ Cardinality(heap) = Len(list)

\* Threads have their nodes, and main knows what it points to.
PointersLive ==
  /\ \A n \in Nodes : Running(n) => n \in heap
  /\ \A n \in Nodes : isDone[n] => pc[n] \in {"unlock", "returned"}
  /\ main = "create" => /\ list # << >> /\ dataPointer = list[1]
                        /\ pc[dataPointer] = "none"
  /\ main = "reap" => dataPointer \in heap \cup {NULL}
  /\ main = "join" => dataPointer \in heap /\ isDone[dataPointer]

\* A finished node lies ahead of the reaping loop.
DoneAhead ==
  \E i, k \in 1..Len(list) :
    /\ k <= i /\ isDone[list[i]]
    /\ main = "reap" => list[k] = dataPointer

\* The list is longer than it should be only until the loop has reaped.
ReapPays ==
  /\ main = "accept" => Len(list) <= peak
  /\ main # "accept" => Len(list) <= peak + 1
  /\ main \in {"create", "reap"} => Len(list) <= peak \/ DoneAhead

\* A thread between lock and unlock holds the lock.
Locked == \A n \in Nodes : pc[n] \in {"open", "send", "unlock"} => mutexLock = n

\* Descriptors stay open, so that a node without one says that they are used up.
Descriptors ==
  /\ IsFiniteSet(fds)
  /\ \A n \in Nodes : n \in heap \/ pc[n] # "none" => threadFD[n] \in fds \cup {NULL}
  /\ \A n \in Nodes : pc[n] \notin {"none", "recv"} => threadFD[n] # NULL
  /\ \A n \in heap : threadFD[n] = NULL => Cardinality(fds) + 1 >= limit
  /\ \A c \in fds : peer[c] # "none"
  /\ \A i \in 1..Len(backlog) : peer[backlog[i]] # "none"

\* What dataFile holds is the end of the history that it keeps.
StoreIsWindow == dataFile # "absent" => store.commands = Window(Len(history))

\* A connection whose packet is a line to be written.
Writes(n) == got[n] = "line" /\ ~request[threadFD[n]].seek

\* A reply grows with the position, over what the lock keeps as it is.
ReplyGrows ==
  \A n \in Nodes :
    /\ pc[n] \in {"none", "recv", "lock", "open"} => reply[n] = << >>
    /\ pc[n] = "send" /\ Writes(n) =>
         /\ store.pending = << >>
         /\ Len(history) \in Own(threadFD[n])
         /\ pos[n] <= Len(store.commands)
         /\ reply[n] = SubSeq(store.commands, 1, pos[n])

DataThere == status = "running" => dataFile # "absent"

NodesInv == Idle /\ ListIsHeap /\ PointersLive
LogInv == DataThere /\ StoreIsWindow /\ ReplyGrows /\ ReplyIsLog

IInv == Types /\ NodesInv /\ ReapPays /\ Locked /\ Descriptors /\ LogInv

-----------------------------------------------------------------------------
(* The steps that end the process, together.                               *)

\* A signal, or a failure that ends the process.
EndStep ==
  /\ \E how \in {"failed", "stopped"} : Ends(how)
  /\ dataFile' \in {dataFile, "absent"}
  /\ UNCHANGED <<store, history>>

\* The steps of a thread that do not end the process.
ThreadStep(n) ==
  \/ Recv(n) \/ RecvEnd(n) \/ Lock(n) \/ WritePacket(n) \/ SeekPacket(n)
  \/ Send(n) \/ Finish(n) \/ Unlock(n)

\* Every step is one of these.
LEMMA NextCases ==
  ASSUME Next
  PROVE  \/ Start \/ EndStep
         \/ \E n \in Nodes : Accept(n) \/ AcceptFails(n)
         \/ Create \/ Reap \/ Join
         \/ \E n \in Nodes : ThreadStep(n)
         \/ \E c \in Conns : Client(c)
BY DEF Next, Main, threadHandler, signalHandler, RecvFails, OpenFails, SendKills,
   EndStep, ThreadStep, data

-----------------------------------------------------------------------------
(* Types.                                                                  *)

LEMMA TypesInit == Init => Types
BY ServerAssumption DEF Init, Types, ListTypes, ThreadTypes, DataTypes, NetworkTypes,
   Labels, EmptyStore

LEMMA TypesEnd ==
  ASSUME Types, EndStep
  PROVE  Types'
BY ServerAssumption DEF EndStep, Ends, Types, ListTypes, ThreadTypes, DataTypes,
   NetworkTypes, Labels

LEMMA TypesStart ==
  ASSUME Types, Start
  PROVE  Types'
<1> USE DEF Types
<1>1. ListTypes'
  BY ServerAssumption DEF Start, lists, ListTypes
<1>2. ThreadTypes' /\ NetworkTypes'
  BY DEF Start, threads, network, ThreadTypes, NetworkTypes
<1>3. EmptyStore \in [commands : Seq(Seq(Conns)), pending : Seq(Conns)]
  BY DEF EmptyStore
<1>4. DataTypes'
  <2>1. CASE dataFile = "device"
    BY <2>1 DEF Start, data, DataTypes
  <2>2. CASE dataFile # "device"
    BY <1>3, <2>2 DEF Start, DataTypes
  <2> QED
    BY <2>1, <2>2
<1> QED
  BY <1>1, <1>2, <1>4

\* The unfinished nodes of a finite heap can be counted, and are at most its nodes.
LEMMA Unfinished ==
  ASSUME IsFiniteSet(heap)
  PROVE  /\ Cardinality({m \in heap : ~isDone[m]}) \in Nat
         /\ Cardinality({m \in heap : ~isDone[m]}) <= Cardinality(heap)
<1>1. {m \in heap : ~isDone[m]} \in SUBSET heap
  OBVIOUS
<1> QED
  BY <1>1, FS_Subset, FS_CardinalityType

LEMMA TypesNewNode ==
  ASSUME Types, IsFiniteSet(heap),
         NEW n \in Nodes, NEW fd \in Conns \cup {NULL}, NewNode(n, fd), fds' \in SUBSET Conns
  PROVE  ListTypes' /\ ThreadTypes' /\ DataTypes'
<1> USE DEF Types, NewNode
<1>1. peak' \in Nat
  BY Unfinished DEF ListTypes
<1>2. list' \in Seq(Nodes)
  BY DEF ListTypes
<1>3. ListTypes'
  BY <1>1, <1>2 DEF ListTypes, process
<1>4. ThreadTypes' /\ DataTypes'
  BY DEF ThreadTypes, DataTypes, Labels, data
<1> QED
  BY <1>3, <1>4

\* Where a node of the list is on it.
LEMMA IndexOfNode ==
  ASSUME list \in Seq(Nodes), ListIsHeap, NEW n \in heap
  PROVE  /\ IndexOf(n) \in 1..Len(list) /\ list[IndexOf(n)] = n
         /\ \A i \in 1..Len(list) : list[i] = n => i = IndexOf(n)
<1>1. PICK i \in 1..Len(list) : list[i] = n
  BY DEF ListIsHeap
<1>2. IndexOf(n) \in 1..Len(list) /\ list[IndexOf(n)] = n
  BY <1>1 DEF IndexOf
<1> QED
  BY <1>2 DEF ListIsHeap

\* SLIST_REMOVE: one node less, and the others stay in their order.
LEMMA WithoutNode ==
  ASSUME list \in Seq(Nodes), ListIsHeap, NEW n \in heap
  PROVE  /\ Without(n) \in Seq(Nodes)
         /\ Len(Without(n)) = Len(list) - 1
         /\ \A i \in 1..(Len(list) - 1) :
              Without(n)[i] = IF i < IndexOf(n) THEN list[i] ELSE list[i + 1]
<1> DEFINE k == IndexOf(n)
           before == SubSeq(list, 1, k - 1)
           behind == SubSeq(list, k + 1, Len(list))
<1>1. k \in 1..Len(list)
  BY IndexOfNode
<1>2. /\ before \in Seq(Nodes) /\ Len(before) = k - 1
      /\ \A i \in 1..(k - 1) : before[i] = list[i]
  <2> HIDE DEF k
  <2> QED
    BY <1>1
<1>3. /\ behind \in Seq(Nodes) /\ Len(behind) = Len(list) - k
      /\ \A i \in 1..(Len(list) - k) : behind[i] = list[k + i]
  <2> HIDE DEF k
  <2> QED
    BY <1>1
<1>4. Without(n) = before \o behind
  BY DEF Without
<1> HIDE DEF k, before, behind
<1>5. /\ Without(n) \in Seq(Nodes)
      /\ Len(Without(n)) = Len(list) - 1
  BY <1>1, <1>2, <1>3, <1>4
<1>6. ASSUME NEW i \in 1..(Len(list) - 1)
      PROVE  Without(n)[i] = IF i < k THEN list[i] ELSE list[i + 1]
  <2>1. CASE i < k
    BY <1>1, <1>2, <1>3, <1>4, <2>1
  <2>2. CASE i >= k
    <3>1. Without(n)[i] = behind[i - (k - 1)]
      BY <1>1, <1>2, <1>3, <1>4, <2>2
    <3>2. behind[i - (k - 1)] = list[i + 1]
      BY <1>1, <1>3, <2>2
    <3> QED
      BY <1>1, <2>2, <3>1, <3>2
  <2> QED
    BY <1>1, <2>1, <2>2
<1> QED
  BY <1>5, <1>6 DEF k

LEMMA TypesMain ==
  ASSUME Types, ListIsHeap, PointersLive,
         \/ \E n \in Nodes : Accept(n) \/ AcceptFails(n)
         \/ Create \/ Reap \/ Join
  PROVE  Types'
<1>1. ASSUME NEW n \in Nodes, Accept(n)
      PROVE  Types'
  <2>1. Head(backlog) \in Conns /\ Tail(backlog) \in Seq(Conns)
    BY <1>1 DEF Accept, Types, NetworkTypes
  <2>2. NetworkTypes'
    BY <1>1, <2>1 DEF Accept, Types, NetworkTypes
  <2>3. fds' \in SUBSET Conns
    BY <1>1, <2>1 DEF Accept, Types, ListTypes
  <2> QED
    BY <1>1, <2>1, <2>2, <2>3, TypesNewNode DEF Accept, Types, ListIsHeap
<1>2. ASSUME NEW n \in Nodes, AcceptFails(n)
      PROVE  Types'
  <2>1. NetworkTypes' /\ fds' \in SUBSET Conns
    BY <1>2 DEF AcceptFails, network, Types, NetworkTypes, ListTypes
  <2> QED
    BY <1>2, <2>1, TypesNewNode DEF AcceptFails, Types, ListIsHeap
<1>3. CASE Create
  <2>1. list # << >> /\ Head(list) \in Nodes
    BY <1>3 DEF Create, PointersLive, Types, ListTypes
  <2> QED
    BY <1>3, <2>1 DEF Create, process, data, network, Types, ListTypes, ThreadTypes,
       DataTypes, NetworkTypes, Labels
<1>4. CASE Reap
  <2>1. ASSUME dataPointer # NULL
        PROVE  NodeBehind(dataPointer) \in Nodes \cup {NULL}
    <3>1. dataPointer \in heap
      BY <1>4, <2>1 DEF Reap, PointersLive
    <3> QED
      BY <3>1, IndexOfNode DEF NodeBehind, Types, ListTypes
  <2>2. dataPointer' \in Nodes \cup {NULL} /\ main' \in {"accept", "reap", "join"}
    BY <1>4, <2>1 DEF Reap, Types, ListTypes
  <2> QED
    BY <1>4, <2>2 DEF Reap, process, threads, data, network, Types, ListTypes,
       ThreadTypes, DataTypes, NetworkTypes
<1>5. CASE Join
  <2>1. Without(dataPointer) \in Seq(Nodes)
    BY <1>5, WithoutNode DEF Join, PointersLive, Types, ListTypes
  <2> QED
    BY <1>5, <2>1 DEF Join, process, threads, data, network, Types, ListTypes,
       ThreadTypes, DataTypes, NetworkTypes
<1> QED
  BY <1>1, <1>2, <1>3, <1>4, <1>5

\* What a write leaves in dataFile.
LEMMA TypesStoreWrite ==
  ASSUME DataTypes, UNCHANGED dataFile, NEW c \in Conns, NEW line \in BOOLEAN,
         StoreWrite(c, line)
  PROVE  DataTypes'
<1> DEFINE bytes == Append(store.pending, c)
           all == Append(store.commands, bytes)
           kept == IF dataFile = "device" /\ Len(all) > N THEN Tail(all) ELSE all
<1>1. bytes \in Seq(Conns)
  BY DEF DataTypes
<1>2. all \in Seq(Seq(Conns)) /\ all # << >>
  BY <1>1 DEF DataTypes
<1>3. kept \in Seq(Seq(Conns))
  <2> HIDE DEF all
  <2> QED
    BY <1>2
<1>4. Append(history, bytes) \in Seq(Seq(Conns))
  BY <1>1 DEF DataTypes
<1>5. CASE line
  <2>1. store' = [commands |-> kept, pending |-> << >>] /\ history' = Append(history, bytes)
    BY <1>5 DEF StoreWrite
  <2> QED
    BY <2>1, <1>3, <1>4 DEF DataTypes
<1>6. CASE ~line
  <2>1. store' = [store EXCEPT !.pending = bytes] /\ history' = history
    BY <1>6 DEF StoreWrite
  <2> QED
    BY <2>1, <1>1 DEF DataTypes
<1> QED
  BY <1>5, <1>6

\* What a read of dataFile returns.
LEMMA TypesContents ==
  ASSUME DataTypes
  PROVE  Contents \in Seq(Seq(Conns))
BY DEF DataTypes, Contents

\* A thread that is past recv has a connection.
LEMMA ConnKnown ==
  ASSUME Types, Descriptors, NEW n \in Nodes, pc[n] \notin {"none", "recv"}
  PROVE  threadFD[n] \in Conns
BY DEF Types, ListTypes, Descriptors

LEMMA TypesThread ==
  ASSUME Types, Descriptors, NEW n \in Nodes, ThreadStep(n)
  PROVE  Types'
<1> USE DEF Types, Goto
<1>1. CASE Recv(n)
  <2>1. threadFD[n] \in Conns /\ inbox[threadFD[n]] \in Seq({"part", "line"})
    BY <1>1 DEF Recv, ListTypes, NetworkTypes
  <2>2. /\ Head(inbox[threadFD[n]]) \in {"part", "line"}
        /\ Tail(inbox[threadFD[n]]) \in Seq({"part", "line"})
    BY <1>1, <2>1 DEF Recv
  <2>3. ListTypes' /\ DataTypes'
    BY <1>1 DEF Recv, process, lists, data, ListTypes, DataTypes
  <2>4. ThreadTypes'
    BY <1>1, <2>2 DEF Recv, ThreadTypes, Labels
  <2>5. NetworkTypes'
    BY <1>1, <2>1, <2>2 DEF Recv, NetworkTypes
  <2> QED
    BY <2>3, <2>4, <2>5
<1>2. CASE RecvEnd(n) \/ Lock(n)
  BY <1>2 DEF RecvEnd, Lock, process, lists, data, network, ListTypes, ThreadTypes,
     DataTypes, NetworkTypes, Labels
<1>3. CASE WritePacket(n)
  <2>1. ListTypes' /\ ThreadTypes' /\ NetworkTypes'
    BY <1>3 DEF WritePacket, process, lists, network, ListTypes, ThreadTypes,
       NetworkTypes, Labels
  <2>2. threadFD[n] \in Conns
    BY <1>3, ConnKnown DEF WritePacket
  <2>3. DataTypes'
    <3>1. CASE got[n] = "none"
      BY <1>3, <3>1 DEF WritePacket, DataTypes
    <3>2. CASE got[n] # "none"
      BY <1>3, <3>2, <2>2, TypesStoreWrite DEF WritePacket
    <3> QED
      BY <3>1, <3>2
  <2> QED
    BY <2>1, <2>3
<1>4. CASE SeekPacket(n)
  <2>1. PICK start \in 0..Len(store.commands) : pos' = [pos EXCEPT ![n] = start]
    BY <1>4 DEF SeekPacket
  <2>2. start \in Nat
    BY DEF DataTypes
  <2> QED
    BY <1>4, <2>1, <2>2 DEF SeekPacket, process, lists, data, network, ListTypes,
       ThreadTypes, DataTypes, NetworkTypes, Labels
<1>5. CASE Send(n)
  <2>1. pos[n] \in Nat /\ pos[n] < Len(Contents)
    BY <1>5 DEF Send, ThreadTypes
  <2>2. Contents[pos[n] + 1] \in Seq(Conns)
    BY <2>1, TypesContents
  <2>3. Append(reply[n], Contents[pos[n] + 1]) \in Seq(Seq(Conns))
    BY <2>2 DEF ThreadTypes
  <2> QED
    BY <1>5, <2>1, <2>3 DEF Send, process, lists, data, network, ListTypes,
       ThreadTypes, DataTypes, NetworkTypes
<1>6. CASE Finish(n)
  BY <1>6 DEF Finish, process, data, network, ListTypes, ThreadTypes, DataTypes,
     NetworkTypes, Labels
<1>7. CASE Unlock(n)
  BY <1>7 DEF Unlock, process, lists, data, network, ListTypes, ThreadTypes,
     DataTypes, NetworkTypes, Labels
<1> QED
  BY <1>1, <1>2, <1>3, <1>4, <1>5, <1>6, <1>7 DEF ThreadStep

LEMMA TypesClient ==
  ASSUME Types, NEW c \in Conns, Client(c)
  PROVE  Types'
<1> USE DEF Types
<1>1. ListTypes' /\ ThreadTypes' /\ DataTypes'
  BY DEF Client, Connect, Deliver, Turn, process, lists, threads, data, ListTypes,
     ThreadTypes, DataTypes
<1>2. ASSUME NEW r \in Requests, Connect(c, r)
      PROVE  NetworkTypes'
  <2>1. r \in [chunks : Seq({"part", "line"}), seek : BOOLEAN]
    BY ServerAssumption
  <2> QED
    BY <1>2, <2>1 DEF Connect, NetworkTypes
<1>3. ASSUME Deliver(c)
      PROVE  NetworkTypes'
  <2>1. request[c].chunks \in Seq({"part", "line"}) /\ request[c].chunks # << >>
    BY <1>3 DEF Deliver, NetworkTypes
  <2>2. /\ Head(request[c].chunks) \in {"part", "line"}
        /\ Tail(request[c].chunks) \in Seq({"part", "line"})
    BY <2>1
  <2>3. request' \in [Conns -> [chunks : Seq({"part", "line"}), seek : BOOLEAN]]
    BY <1>3, <2>2 DEF Deliver, NetworkTypes
  <2>4. inbox' \in [Conns -> Seq({"part", "line"})]
    BY <1>3, <2>2 DEF Deliver, NetworkTypes
  <2> QED
    BY <1>3, <2>3, <2>4 DEF Deliver, NetworkTypes
<1>4. ASSUME NEW state \in {"fin", "stalled", "reset"}, Turn(c, state)
      PROVE  NetworkTypes'
  BY <1>4 DEF Turn, NetworkTypes
<1> QED
  BY <1>1, <1>2, <1>3, <1>4 DEF Client

LEMMA TypesStep ==
  ASSUME IInv, Next
  PROVE  Types'
BY NextCases, TypesStart, TypesEnd, TypesMain, TypesThread, TypesClient DEF IInv, NodesInv

-----------------------------------------------------------------------------
(* The nodes: list, heap and the pointers to them.                         *)

LEMMA NodesInit == Init => NodesInv
<1> SUFFICES ASSUME Init PROVE NodesInv
  OBVIOUS
<1>1. IsFiniteSet({}) /\ Cardinality({}) = 0
  BY FS_EmptySet
<1>2. Len(list) = 0 /\ heap = {}
  BY DEF Init
<1>3. ListIsHeap
  BY <1>1, <1>2 DEF ListIsHeap
<1> QED
  BY <1>3 DEF Init, NodesInv, Idle, PointersLive, Running

LEMMA NodesEnd ==
  ASSUME Types, EndStep
  PROVE  NodesInv'
<1>1. IsFiniteSet({}) /\ Cardinality({}) = 0
  BY FS_EmptySet
<1>2. Len(list') = 0 /\ heap' = {}
  BY DEF EndStep, Ends
<1>3. ListIsHeap'
  BY <1>1, <1>2 DEF ListIsHeap
<1> QED
  BY <1>3 DEF EndStep, Ends, NodesInv, Idle, PointersLive, Running

\* A new node comes first on the list; it is nobody's yet.
LEMMA NodesNewNode ==
  ASSUME Types, NodesInv, status = "running",
         NEW n \in Nodes, NEW fd \in Conns \cup {NULL}, NewNode(n, fd)
  PROVE  NodesInv'
<1> USE DEF NodesInv
<1>1. list \in Seq(Nodes) /\ n \notin heap /\ heap' = heap \cup {n}
  BY DEF Types, ListTypes, NewNode
<1>2. list' = <<n>> \o list
  BY DEF NewNode
<1>3. /\ list' \in Seq(Nodes) /\ Len(list') = Len(list) + 1 /\ list'[1] = n
      /\ \A i \in 1..Len(list) : list'[i + 1] = list[i]
  BY <1>1, <1>2
<1>4. ListIsHeap'
  <2>1. heap' = {list'[i] : i \in 1..Len(list')}
    <3>1. ASSUME NEW i \in 1..Len(list')
          PROVE  list'[i] \in heap'
      <4>1. CASE i = 1
        BY <1>1, <1>3, <4>1
      <4>2. CASE i # 1
        <5>1. i - 1 \in 1..Len(list) /\ i = (i - 1) + 1
          BY <1>1, <1>3, <4>2
        <5>2. list'[i] = list[i - 1]
          BY <1>3, <5>1
        <5> QED
          BY <1>1, <5>1, <5>2 DEF ListIsHeap
      <4> QED
        BY <4>1, <4>2
    <3>2. ASSUME NEW m \in heap'
          PROVE  \E i \in 1..Len(list') : list'[i] = m
      <4>1. CASE m = n
        BY <1>1, <1>3, <4>1
      <4>2. CASE m # n
        <5>1. PICK i \in 1..Len(list) : list[i] = m
          BY <1>1, <4>2 DEF ListIsHeap
        <5>2. i + 1 \in 1..Len(list') /\ list'[i + 1] = m
          BY <1>1, <1>3, <5>1
        <5> QED
          BY <5>2
      <4> QED
        BY <4>1, <4>2
    <3> QED
      BY <3>1, <3>2
  <2>2. ASSUME NEW i \in 1..Len(list'), NEW j \in 1..Len(list'), list'[i] = list'[j]
        PROVE  i = j
    <3>1. \A k \in 1..Len(list') :
            k # 1 => k - 1 \in 1..Len(list) /\ list'[k] = list[k - 1] /\ list'[k] \in heap
      <4> SUFFICES ASSUME NEW k \in 1..Len(list'), k # 1
                   PROVE  k - 1 \in 1..Len(list) /\ list'[k] = list[k - 1] /\ list'[k] \in heap
        OBVIOUS
      <4>1. k - 1 \in 1..Len(list) /\ k = (k - 1) + 1
        BY <1>1, <1>3
      <4>2. list'[k] = list[k - 1]
        BY <1>3, <4>1
      <4> QED
        BY <4>1, <4>2 DEF ListIsHeap
    <3>2. CASE i = 1 \/ j = 1
      BY <1>1, <1>3, <2>2, <3>1, <3>2
    <3>3. CASE i # 1 /\ j # 1
      <4>1. i - 1 = j - 1
        BY <2>2, <3>1, <3>3 DEF ListIsHeap
      <4> QED
        BY <4>1
    <3> QED
      BY <3>2, <3>3
  <2>3. IsFiniteSet(heap') /\ Cardinality(heap') = Len(list')
    <3>1. IsFiniteSet(heap) /\ Cardinality(heap) = Len(list)
      BY DEF ListIsHeap
    <3>2. IsFiniteSet(heap \cup {n}) /\ Cardinality(heap \cup {n}) = Cardinality(heap) + 1
      BY <1>1, <3>1, FS_AddElement
    <3> QED
      BY <1>1, <1>3, <3>1, <3>2
  <2> QED
    BY <2>1, <2>2, <2>3 DEF ListIsHeap
<1>5. PointersLive'
  <2>1. \A m \in Nodes : m # n => pc'[m] = pc[m] /\ isDone'[m] = isDone[m]
    BY DEF NewNode, Types, ListTypes, ThreadTypes
  <2>2. pc'[n] = "none" /\ isDone'[n] = FALSE /\ main' = "create" /\ dataPointer' = n
    BY DEF NewNode, Types, ListTypes, ThreadTypes
  <2> QED
    BY <1>1, <1>3, <2>1, <2>2 DEF PointersLive, Running
<1>6. Idle'
  BY DEF NewNode, process, Idle
<1> QED
  BY <1>4, <1>5, <1>6

\* A joined node is taken off the list and freed.
LEMMA NodesJoin ==
  ASSUME Types, NodesInv, Join
  PROVE  NodesInv'
<1> USE DEF NodesInv
<1>1. dataPointer \in heap /\ list \in Seq(Nodes) /\ list' = Without(dataPointer)
  BY DEF Join, PointersLive, Types, ListTypes
<1> DEFINE k == IndexOf(dataPointer)
<1>2. /\ k \in 1..Len(list) /\ list[k] = dataPointer
      /\ \A i \in 1..Len(list) : list[i] = dataPointer => i = k
  BY <1>1, IndexOfNode
<1>3. /\ list' \in Seq(Nodes) /\ Len(list') = Len(list) - 1
      /\ \A i \in 1..Len(list') : list'[i] = IF i < k THEN list[i] ELSE list[i + 1]
  BY <1>1, WithoutNode
<1> HIDE DEF k
<1>4. ListIsHeap'
  <2>1. heap' = {list'[i] : i \in 1..Len(list')}
    <3>1. ASSUME NEW i \in 1..Len(list')
          PROVE  list'[i] \in heap'
      <4>1. PICK j \in 1..Len(list) : j # k /\ list'[i] = list[j]
        <5>1. i \in 1..Len(list) /\ i + 1 \in 1..Len(list)
          BY <1>1, <1>3
        <5>2. CASE i < k
          BY <1>2, <1>3, <5>1, <5>2
        <5>3. CASE ~(i < k)
          <6>1. i + 1 # k
            BY <1>2, <5>1, <5>3
          <6> QED
            BY <1>3, <5>1, <5>3, <6>1
        <5> QED
          BY <5>2, <5>3
      <4> QED
        BY <1>2, <4>1 DEF ListIsHeap, Join
    <3>2. ASSUME NEW m \in heap'
          PROVE  \E i \in 1..Len(list') : list'[i] = m
      <4>1. PICK i \in 1..Len(list) : list[i] = m /\ i # k
        BY <1>2 DEF ListIsHeap, Join
      <4>2. CASE i < k
        <5>1. i \in 1..Len(list') /\ list'[i] = m
          BY <1>1, <1>2, <1>3, <4>1, <4>2
        <5> QED
          BY <5>1
      <4>3. CASE i > k
        <5>1. i - 1 \in 1..Len(list') /\ ~(i - 1 < k) /\ (i - 1) + 1 = i
          BY <1>1, <1>2, <1>3, <4>1, <4>3
        <5>2. list'[i - 1] = m
          BY <1>3, <4>1, <5>1
        <5> QED
          BY <5>1, <5>2
      <4> QED
        BY <1>1, <1>2, <4>1, <4>2, <4>3
    <3> QED
      BY <3>1, <3>2
  <2>2. ASSUME NEW i \in 1..Len(list'), NEW j \in 1..Len(list'), list'[i] = list'[j]
        PROVE  i = j
    <3>1. /\ list'[i] = IF i < k THEN list[i] ELSE list[i + 1]
          /\ list'[j] = IF j < k THEN list[j] ELSE list[j + 1]
      BY <1>3
    <3>2. i \in 1..Len(list) /\ i + 1 \in 1..Len(list)
      BY <1>1, <1>3
    <3>3. j \in 1..Len(list) /\ j + 1 \in 1..Len(list)
      BY <1>1, <1>3
    <3>4. \A a, b \in 1..Len(list) : list[a] = list[b] => a = b
      BY DEF ListIsHeap
    <3>5. CASE i < k /\ j < k
      BY <2>2, <3>1, <3>2, <3>3, <3>4, <3>5
    <3>6. CASE i < k /\ ~(j < k)
      <4>1. i = j + 1
        BY <2>2, <3>1, <3>2, <3>3, <3>4, <3>6
      <4> QED
        BY <1>2, <3>2, <3>3, <3>6, <4>1
    <3>7. CASE ~(i < k) /\ j < k
      <4>1. i + 1 = j
        BY <2>2, <3>1, <3>2, <3>3, <3>4, <3>7
      <4> QED
        BY <1>2, <3>2, <3>3, <3>7, <4>1
    <3>8. CASE ~(i < k) /\ ~(j < k)
      <4>1. i + 1 = j + 1
        BY <2>2, <3>1, <3>2, <3>3, <3>4, <3>8
      <4> QED
        BY <4>1
    <3> QED
      BY <3>5, <3>6, <3>7, <3>8
  <2>3. IsFiniteSet(heap') /\ Cardinality(heap') = Len(list')
    BY <1>1, <1>3, FS_RemoveElement DEF ListIsHeap, Join
  <2> QED
    BY <2>1, <2>2, <2>3 DEF ListIsHeap
<1>5. PointersLive'
  BY DEF Join, threads, PointersLive, Running
<1>6. Idle'
  BY DEF Join, process, Idle
<1> QED
  BY <1>4, <1>5, <1>6

\* pthread_create is called for the first node of the list.
LEMMA NewestNode ==
  ASSUME Types, NodesInv, main = "create"
  PROVE  /\ list \in Seq(Nodes) /\ list # << >> /\ dataPointer = list[1]
         /\ dataPointer \in heap /\ dataPointer \in Nodes
<1>1. list \in Seq(Nodes) /\ list # << >> /\ dataPointer = list[1]
  BY DEF NodesInv, PointersLive, Types, ListTypes
<1>2. 1 \in 1..Len(list)
  BY <1>1
<1>3. list[1] \in heap
  BY <1>2 DEF NodesInv, ListIsHeap
<1> QED
  BY <1>1, <1>3 DEF Types, ListTypes

LEMMA NodesMain ==
  ASSUME Types, NodesInv,
         \/ \E n \in Nodes : Accept(n) \/ AcceptFails(n)
         \/ Create \/ Reap \/ Join
  PROVE  NodesInv'
<1>1. ASSUME NEW n \in Nodes, Accept(n)
      PROVE  NodesInv'
  <2>1. Head(backlog) \in Conns
    BY <1>1 DEF Accept, Types, NetworkTypes
  <2> QED
    BY <1>1, <2>1, NodesNewNode DEF Accept
<1>2. ASSUME NEW n \in Nodes, AcceptFails(n)
      PROVE  NodesInv'
  BY <1>2, NodesNewNode DEF AcceptFails
<1>3. CASE Create
  <2>1. /\ list \in Seq(Nodes) /\ list # << >> /\ dataPointer = list[1]
        /\ dataPointer \in heap /\ dataPointer \in Nodes
    BY <1>3, NewestNode DEF Create
  <2>2. dataPointer' = dataPointer /\ main' = "reap" /\ heap' = heap
    BY <1>3, <2>1 DEF Create
  <2>3. \A m \in Nodes : m # dataPointer => pc'[m] = pc[m]
    BY <1>3 DEF Create, Types, ThreadTypes
  <2>4. ~isDone[dataPointer]
    BY <1>3, <2>1 DEF Create, NodesInv, PointersLive
  <2>5. PointersLive'
    BY <1>3, <2>1, <2>2, <2>3, <2>4 DEF Create, NodesInv, PointersLive, Running
  <2>6. ListIsHeap' /\ Idle'
    BY <1>3 DEF Create, process, NodesInv, ListIsHeap, Idle
  <2> QED
    BY <2>5, <2>6 DEF NodesInv
<1>4. CASE Reap
  <2>1. ASSUME dataPointer # NULL
        PROVE  NodeBehind(dataPointer) \in heap \cup {NULL}
    <3>1. dataPointer \in heap /\ list \in Seq(Nodes)
      BY <1>4, <2>1 DEF Reap, NodesInv, PointersLive, Types, ListTypes
    <3>2. IndexOf(dataPointer) \in 1..Len(list)
      BY <3>1, IndexOfNode DEF NodesInv
    <3>3. CASE IndexOf(dataPointer) = Len(list)
      BY <3>3 DEF NodeBehind
    <3>4. CASE IndexOf(dataPointer) # Len(list)
      <4>1. IndexOf(dataPointer) + 1 \in 1..Len(list)
        BY <3>1, <3>2, <3>4
      <4> QED
        BY <3>4, <4>1 DEF NodeBehind, NodesInv, ListIsHeap
    <3> QED
      BY <3>3, <3>4
  <2>2. PointersLive'
    <3>1. UNCHANGED <<list, heap, isDone, pc>> /\ main = "reap"
      BY <1>4 DEF Reap, threads
    <3>2. \/ main' = "accept"
          \/ main' = "join" /\ dataPointer' = dataPointer /\ dataPointer # NULL
             /\ isDone[dataPointer]
          \/ main' = "reap" /\ dataPointer' \in heap \cup {NULL}
      BY <1>4, <2>1 DEF Reap
    <3> QED
      BY <3>1, <3>2 DEF NodesInv, PointersLive, Running
  <2>3. ListIsHeap' /\ Idle'
    <3>1. UNCHANGED <<list, heap, status, fds, pc>>
      BY <1>4 DEF Reap, process, threads
    <3>2. ListIsHeap'
      BY <3>1 DEF NodesInv, ListIsHeap
    <3>3. Idle'
      BY <3>1 DEF NodesInv, Idle
    <3> QED
      BY <3>2, <3>3
  <2> QED
    BY <2>2, <2>3 DEF NodesInv
<1>5. CASE Join
  BY <1>5, NodesJoin
<1> QED
  BY <1>1, <1>2, <1>3, <1>4, <1>5

LEMMA NodesThread ==
  ASSUME Types, NodesInv, NEW n \in Nodes, ThreadStep(n)
  PROVE  NodesInv'
<1>1. \A m \in Nodes : m # n => pc'[m] = pc[m] /\ isDone'[m] = isDone[m]
  BY DEF ThreadStep, Recv, RecvEnd, Lock, WritePacket, SeekPacket, Send, Finish,
     Unlock, Goto, lists, Types, ListTypes, ThreadTypes
<1>2. Running(n)
  BY DEF ThreadStep, Recv, RecvEnd, Lock, WritePacket, SeekPacket, Send, Finish,
     Unlock, Running
<1>3. UNCHANGED <<list, heap, main, dataPointer, status, fds>>
  BY DEF ThreadStep, Recv, RecvEnd, Lock, WritePacket, SeekPacket, Send, Finish,
     Unlock, lists, process
<1>4. isDone'[n] => pc'[n] \in {"unlock", "returned"}
  BY DEF ThreadStep, Recv, RecvEnd, Lock, WritePacket, SeekPacket, Send, Finish,
     Unlock, Goto, lists, Types, ListTypes, ThreadTypes, NodesInv, PointersLive
<1>5. isDone[n] => isDone'[n]
  BY DEF ThreadStep, Recv, RecvEnd, Lock, WritePacket, SeekPacket, Send, Finish,
     Unlock, Goto, lists, Types, ListTypes
<1>6. n \in heap
  BY <1>2 DEF NodesInv, PointersLive
<1>7. ListIsHeap'
  BY <1>3 DEF NodesInv, ListIsHeap
<1>8. PointersLive'
  BY <1>1, <1>2, <1>3, <1>4, <1>5, <1>6 DEF NodesInv, PointersLive, Running, Types,
     ListTypes
<1>9. Idle'
  BY <1>3, <1>6 DEF NodesInv, Idle
<1> QED
  BY <1>7, <1>8, <1>9 DEF NodesInv

\* The steps that leave the nodes and the threads alone.
LEMMA NodesOther ==
  ASSUME NodesInv, UNCHANGED <<lists, pc>>, status' = status \/ status' = "running"
  PROVE  NodesInv'
<1>1. UNCHANGED <<main, dataPointer, list, heap, isDone, fds, pc>>
  BY DEF lists
<1>2. ListIsHeap'
  BY <1>1 DEF NodesInv, ListIsHeap
<1>3. PointersLive' /\ Idle'
  BY <1>1 DEF NodesInv, PointersLive, Idle, Running
<1> QED
  BY <1>2, <1>3 DEF NodesInv

LEMMA NodesStep ==
  ASSUME IInv, Next
  PROVE  NodesInv'
<1>1. CASE Start \/ \E c \in Conns : Client(c)
  BY <1>1, NodesOther DEF IInv, Start, Client, Connect, Deliver, Turn, process, threads
<1> QED
  BY <1>1, NextCases, NodesEnd, NodesMain, NodesThread DEF IInv

-----------------------------------------------------------------------------
(* The reaping loop.                                                       *)

LEMMA ReapInit == Init => ReapPays
BY DEF Init, ReapPays

LEMMA ReapEnd ==
  ASSUME EndStep
  PROVE  ReapPays'
BY DEF EndStep, Ends, ReapPays

\* Either no node on the list was finished, and then the peak counts them all,
\* or one was, and it lies ahead of the loop that starts at the head.
LEMMA ReapNewNode ==
  ASSUME Types, NodesInv, ReapPays, main = "accept",
         NEW n \in Nodes, NEW fd \in Conns \cup {NULL}, NewNode(n, fd)
  PROVE  ReapPays'
<1> DEFINE U == {m \in heap : ~isDone[m]}
<1>1. /\ list \in Seq(Nodes) /\ list' = <<n>> \o list /\ n \notin heap
      /\ main' = "create" /\ peak \in Nat /\ Len(list) <= peak
  BY DEF Types, ListTypes, NewNode, ReapPays
<1>2. /\ Len(list') = Len(list) + 1
      /\ \A i \in 1..Len(list) : list'[i + 1] = list[i]
  BY <1>1
<1>3. /\ Cardinality(U) \in Nat
      /\ peak' = IF Cardinality(U) + 1 > peak THEN Cardinality(U) + 1 ELSE peak
  BY Unfinished DEF NodesInv, ListIsHeap, NewNode
<1> HIDE DEF U
<1>4. peak' >= peak /\ peak' >= Cardinality(U) + 1 /\ peak' \in Nat
  BY <1>1, <1>3
<1>5. Len(list') <= peak' + 1
  BY <1>1, <1>2, <1>4
<1>6. Len(list') <= peak' \/ DoneAhead'
  <2>1. CASE \A m \in heap : ~isDone[m]
    <3>1. U = heap
      BY <2>1 DEF U
    <3>2. Cardinality(U) = Len(list)
      BY <3>1 DEF NodesInv, ListIsHeap
    <3> QED
      BY <1>1, <1>2, <1>4, <3>2
  <2>2. ASSUME NEW m \in heap, isDone[m]
        PROVE  DoneAhead'
    <3>1. PICK i \in 1..Len(list) : list[i] = m
      BY DEF NodesInv, ListIsHeap
    <3>2. i + 1 \in 1..Len(list') /\ list'[i + 1] = m
      BY <1>1, <1>2, <3>1
    <3>3. isDone'[m]
      BY <1>1, <2>2 DEF NewNode, Types, ListTypes
    <3>4. i + 1 <= i + 1 /\ isDone'[list'[i + 1]]
      BY <3>2, <3>3
    <3> QED
      BY <1>1, <3>2, <3>4 DEF DoneAhead
  <2> QED
    BY <2>1, <2>2
<1> QED
  BY <1>1, <1>5, <1>6 DEF ReapPays

\* An unfinished node is passed; behind the last one none can be ahead.
LEMMA ReapOnward ==
  ASSUME Types, NodesInv, ReapPays, Reap
  PROVE  ReapPays'
<1>1. /\ UNCHANGED <<list, peak, isDone>> /\ main = "reap"
      /\ list \in Seq(Nodes) /\ peak \in Nat
      /\ Len(list) <= peak + 1
      /\ Len(list) <= peak \/ DoneAhead
  BY DEF Reap, Types, ListTypes, ReapPays
<1>2. CASE dataPointer = NULL
  <2>1. ~DoneAhead
    <3>1. \A k \in 1..Len(list) : list[k] \in Nodes
      BY <1>1
    <3> QED
      BY <1>1, <1>2, <3>1, ServerAssumption DEF DoneAhead
  <2>2. main' = "accept"
    BY <1>2 DEF Reap
  <2> QED
    BY <1>1, <2>1, <2>2 DEF ReapPays
<1>3. CASE dataPointer # NULL /\ isDone[dataPointer]
  <2>1. main' = "join"
    BY <1>3 DEF Reap
  <2> QED
    BY <1>1, <2>1 DEF ReapPays
<1>4. CASE dataPointer # NULL /\ ~isDone[dataPointer]
  <2>1. main' = "reap" /\ dataPointer' = NodeBehind(dataPointer) /\ dataPointer \in heap
    BY <1>4 DEF Reap, NodesInv, PointersLive
  <2>2. ASSUME DoneAhead
        PROVE  DoneAhead'
    <3>1. PICK i, k \in 1..Len(list) :
                 k <= i /\ isDone[list[i]] /\ list[k] = dataPointer
      BY <1>1, <2>2 DEF DoneAhead
    <3>2. k = IndexOf(dataPointer)
      BY <1>1, <2>1, <3>1, IndexOfNode DEF NodesInv
    <3>3. k + 1 <= i /\ k + 1 \in 1..Len(list) /\ k # Len(list)
      BY <1>1, <1>4, <3>1
    <3>4. list[k + 1] = dataPointer'
      BY <2>1, <3>2, <3>3 DEF NodeBehind
    <3> QED
      BY <1>1, <3>1, <3>3, <3>4 DEF DoneAhead
  <2> QED
    BY <1>1, <2>1, <2>2 DEF ReapPays
<1> QED
  BY <1>2, <1>3, <1>4

LEMMA ReapMain ==
  ASSUME Types, NodesInv, ReapPays,
         \/ \E n \in Nodes : Accept(n) \/ AcceptFails(n)
         \/ Create \/ Reap \/ Join
  PROVE  ReapPays'
<1>1. ASSUME NEW n \in Nodes, Accept(n)
      PROVE  ReapPays'
  <2>1. Head(backlog) \in Conns
    BY <1>1 DEF Accept, Types, NetworkTypes
  <2> QED
    BY <1>1, <2>1, ReapNewNode DEF Accept
<1>2. ASSUME NEW n \in Nodes, AcceptFails(n)
      PROVE  ReapPays'
  BY <1>2, ReapNewNode DEF AcceptFails
<1>3. CASE Create
  <2>1. /\ UNCHANGED <<list, peak, isDone>> /\ main = "create" /\ main' = "reap"
        /\ list \in Seq(Nodes) /\ dataPointer' = Head(list)
    BY <1>3 DEF Create, Types, ListTypes
  <2>2. ASSUME DoneAhead
        PROVE  DoneAhead'
    <3>1. PICK i \in 1..Len(list) : isDone[list[i]]
      BY <2>2 DEF DoneAhead
    <3>2. 1 \in 1..Len(list) /\ 1 <= i /\ list[1] = dataPointer'
      BY <2>1, <3>1
    <3> QED
      BY <2>1, <3>1, <3>2 DEF DoneAhead
  <2> QED
    BY <2>1, <2>2 DEF ReapPays
<1>4. CASE Reap
  BY <1>4, ReapOnward
<1>5. CASE Join
  <2>1. Len(list') = Len(list) - 1
    BY <1>5, WithoutNode DEF Join, NodesInv, PointersLive, Types, ListTypes
  <2>2. main = "join" /\ main' = "accept" /\ peak' = peak
    BY <1>5 DEF Join
  <2> QED
    BY <2>1, <2>2 DEF ReapPays, Types, ListTypes
<1> QED
  BY <1>1, <1>2, <1>3, <1>4, <1>5

\* Elsewhere nodes are only ever finished.
LEMMA ReapOther ==
  ASSUME Types, NodesInv, ReapPays, UNCHANGED <<main, dataPointer, list, peak>>,
         \A m \in Nodes : isDone[m] => isDone'[m]
  PROVE  ReapPays'
<1>1. list \in Seq(Nodes)
  BY DEF Types, ListTypes
<1>2. DoneAhead => DoneAhead'
  BY <1>1 DEF DoneAhead
<1> QED
  BY <1>2 DEF ReapPays

LEMMA ReapStep ==
  ASSUME IInv, Next
  PROVE  ReapPays'
<1>1. CASE Start \/ \E c \in Conns : Client(c)
  BY <1>1, ReapOther DEF IInv, Start, Client, Connect, Deliver, Turn, lists
<1>2. ASSUME NEW n \in Nodes, ThreadStep(n)
      PROVE  ReapPays'
  <2>1. UNCHANGED <<main, dataPointer, list, peak>>
    BY <1>2 DEF ThreadStep, Recv, RecvEnd, Lock, WritePacket, SeekPacket, Send,
       Finish, Unlock, lists
  <2>2. \A m \in Nodes : isDone[m] => isDone'[m]
    BY <1>2 DEF ThreadStep, Recv, RecvEnd, Lock, WritePacket, SeekPacket, Send,
       Finish, Unlock, lists, IInv, Types, ListTypes
  <2> QED
    BY <2>1, <2>2, ReapOther DEF IInv
<1> QED
  BY <1>1, <1>2, NextCases, ReapEnd, ReapMain DEF IInv

-----------------------------------------------------------------------------
(* mutexLock and the descriptors.                                          *)

\* The steps of the main thread start and forget threads, and no more.
LEMMA MainThreads ==
  ASSUME Types, NodesInv,
         \/ \E n \in Nodes : Accept(n) \/ AcceptFails(n)
         \/ Create \/ Reap \/ Join
  PROVE  /\ UNCHANGED <<mutexLock, limit, status, data>>
         /\ \A m \in Nodes : pc'[m] = pc[m] \/ pc'[m] \in {"none", "recv"}
<1>1. ASSUME NEW n \in Nodes, Accept(n) \/ AcceptFails(n)
      PROVE  /\ UNCHANGED <<mutexLock, limit, status, data>>
             /\ \A m \in Nodes : pc'[m] = pc[m] \/ pc'[m] \in {"none", "recv"}
  BY <1>1 DEF Accept, AcceptFails, NewNode, process, Types, ThreadTypes
<1>2. CASE Create
  BY <1>2 DEF Create, process, Types, ThreadTypes
<1>3. CASE Reap \/ Join
  BY <1>3 DEF Reap, Join, process, threads
<1> QED
  BY <1>1, <1>2, <1>3

LEMMA LockedStep ==
  ASSUME IInv, Next
  PROVE  Locked'
<1>1. CASE Start \/ EndStep \/ \E c \in Conns : Client(c)
  BY <1>1 DEF Start, EndStep, Ends, Client, Connect, Deliver, Turn, threads, Locked, IInv
<1>2. CASE \/ \E n \in Nodes : Accept(n) \/ AcceptFails(n)
           \/ Create \/ Reap \/ Join
  BY <1>2, MainThreads DEF Locked, IInv
<1>3. ASSUME NEW n \in Nodes, ThreadStep(n)
      PROVE  Locked'
  <2> USE DEF IInv, Types, ThreadTypes, Locked, Goto
  <2>1. CASE Lock(n)
    BY <2>1, ServerAssumption DEF Lock
  <2>2. CASE Unlock(n)
    BY <2>2 DEF Unlock
  <2>3. CASE Recv(n)
    BY <2>3 DEF Recv
  <2>4. CASE RecvEnd(n) \/ WritePacket(n) \/ SeekPacket(n) \/ Send(n) \/ Finish(n)
    BY <2>4 DEF RecvEnd, WritePacket, SeekPacket, Send, Finish
  <2> QED
    BY <1>3, <2>1, <2>2, <2>3, <2>4 DEF ThreadStep
<1> QED
  BY <1>1, <1>2, <1>3, NextCases

\* One thread at most sends, and none while another is about to open dataFile.
LEMMA Senders ==
  ASSUME Types, Locked
  PROVE  /\ Cardinality({n \in Nodes : pc[n] = "send"}) \in {0, 1}
         /\ (\E m \in Nodes : pc[m] = "open") => Cardinality({n \in Nodes : pc[n] = "send"}) = 0
<1> DEFINE sending == {n \in Nodes : pc[n] = "send"}
<1>1. Cardinality({}) = 0
  BY FS_EmptySet
<1>2. sending = {} \/ sending = {mutexLock}
  BY DEF Locked
<1>3. Cardinality({mutexLock}) = 1
  BY FS_Singleton
<1>4. (\E m \in Nodes : pc[m] = "open") => sending = {}
  BY DEF Locked
<1> QED
  BY <1>1, <1>2, <1>3, <1>4

\* What a new node says of the descriptors.
LEMMA DescriptorsAccept ==
  ASSUME Types, Locked, Descriptors, NEW n \in Nodes, Accept(n)
  PROVE  Descriptors'
<1> DEFINE c == Head(backlog)
<1>1. /\ c \in Conns /\ c = backlog[1] /\ 1 \in 1..Len(backlog)
      /\ backlog \in Seq(Conns) /\ backlog' = Tail(backlog)
  BY DEF Accept, Types, NetworkTypes
<1>2. fds' = fds \cup {c} /\ IsFiniteSet(fds) /\ limit' = limit /\ peer' = peer
  BY DEF Accept, NewNode, process, Descriptors
<1> HIDE DEF c
<1>3. IsFiniteSet(fds') /\ Cardinality(fds') >= Cardinality(fds)
      /\ Cardinality(fds) \in Nat /\ Cardinality(fds') \in Nat
  <2>1. IsFiniteSet(fds')
    BY <1>2, FS_AddElement
  <2> QED
    BY <1>2, <2>1, FS_Subset, FS_CardinalityType
<1>4. /\ heap' = heap \cup {n} /\ n \notin heap
      /\ threadFD' = [threadFD EXCEPT ![n] = c] /\ pc' = [pc EXCEPT ![n] = "none"]
  BY DEF Accept, NewNode, c
<1>5. \A m \in Nodes : m # n => threadFD'[m] = threadFD[m] /\ pc'[m] = pc[m]
  BY <1>4 DEF Types, ListTypes, ThreadTypes
<1>6. threadFD'[n] = c /\ pc'[n] = "none"
  BY <1>4 DEF Types, ListTypes, ThreadTypes
<1>7. c # NULL
  BY <1>1, ServerAssumption
<1>8. peer[c] # "none"
  BY <1>1 DEF Descriptors
<1>9. \A i \in 1..Len(backlog') : peer'[backlog'[i]] # "none"
  <2>1. \A i \in 1..Len(backlog') : i + 1 \in 1..Len(backlog) /\ backlog'[i] = backlog[i + 1]
    BY <1>1
  <2> QED
    BY <1>2, <2>1 DEF Descriptors
<1>10. limit \in Nat
  BY DEF Types, ListTypes
<1>11. \A m \in heap' : threadFD'[m] = NULL => Cardinality(fds') + 1 >= limit'
  BY <1>2, <1>3, <1>4, <1>5, <1>6, <1>7, <1>10 DEF Descriptors, Types, ListTypes
<1>12. \A m \in Nodes : m \in heap' \/ pc'[m] # "none" => threadFD'[m] \in fds' \cup {NULL}
  BY <1>2, <1>4, <1>5, <1>6 DEF Descriptors
<1>13. \A m \in Nodes : pc'[m] \notin {"none", "recv"} => threadFD'[m] # NULL
  BY <1>5, <1>6 DEF Descriptors
<1> QED
  BY <1>2, <1>3, <1>8, <1>9, <1>11, <1>12, <1>13 DEF Descriptors

LEMMA DescriptorsAcceptFails ==
  ASSUME Types, Locked, Descriptors, NEW n \in Nodes, AcceptFails(n)
  PROVE  Descriptors'
<1>1. UNCHANGED <<fds, limit, backlog, peer>>
  BY DEF AcceptFails, NewNode, process, network
<1>2. Cardinality(fds) \in Nat /\ limit \in Nat
  BY FS_CardinalityType DEF Descriptors, Types, ListTypes
<1>3. Cardinality(fds) + 1 >= limit
  BY <1>2, Senders DEF AcceptFails, OpenFds
<1>4. /\ heap' = heap \cup {n}
      /\ threadFD' = [threadFD EXCEPT ![n] = NULL] /\ pc' = [pc EXCEPT ![n] = "none"]
  BY DEF AcceptFails, NewNode
<1>5. \A m \in Nodes : m # n => threadFD'[m] = threadFD[m] /\ pc'[m] = pc[m]
  BY <1>4 DEF Types, ListTypes, ThreadTypes
<1>6. threadFD'[n] = NULL /\ pc'[n] = "none"
  BY <1>4 DEF Types, ListTypes, ThreadTypes
<1> QED
  BY <1>1, <1>3, <1>4, <1>5, <1>6 DEF Descriptors

LEMMA DescriptorsThread ==
  ASSUME Types, Descriptors, NEW n \in Nodes, ThreadStep(n)
  PROVE  Descriptors'
<1>1. UNCHANGED <<fds, limit, heap, threadFD, backlog, peer>>
  BY DEF ThreadStep, Recv, RecvEnd, Lock, WritePacket, SeekPacket, Send, Finish,
     Unlock, lists, process, network
<1>2. \A m \in Nodes : m # n => pc'[m] = pc[m]
  BY DEF ThreadStep, Recv, RecvEnd, Lock, WritePacket, SeekPacket, Send, Finish,
     Unlock, Goto, Types, ThreadTypes
<1>3. pc[n] # "none"
  BY DEF ThreadStep, Recv, RecvEnd, Lock, WritePacket, SeekPacket, Send, Finish, Unlock
<1>4. pc[n] = "recv" => threadFD[n] # NULL
  BY DEF ThreadStep, Recv, RecvEnd, Lock, WritePacket, SeekPacket, Send, Finish, Unlock
<1> QED
  BY <1>1, <1>2, <1>3, <1>4 DEF Descriptors

LEMMA DescriptorsClient ==
  ASSUME Types, Descriptors, NEW c \in Conns, Client(c)
  PROVE  Descriptors'
<1>1. UNCHANGED <<fds, limit, heap, threadFD, pc>>
  BY DEF Client, Connect, Deliver, Turn, lists, process, threads
<1>2. \A d \in Conns : peer[d] # "none" => peer'[d] # "none"
  BY DEF Client, Connect, Deliver, Turn, Types, NetworkTypes
<1>3. backlog' = backlog \/ (backlog' = Append(backlog, c) /\ peer'[c] # "none")
  BY DEF Client, Connect, Deliver, Turn, Types, NetworkTypes
<1>4. backlog \in Seq(Conns) /\ fds \subseteq Conns
  BY DEF Types, NetworkTypes, ListTypes
<1>5. \A i \in 1..Len(backlog') : peer'[backlog'[i]] # "none"
  <2>1. \A i \in 1..Len(backlog) : backlog[i] \in Conns /\ peer'[backlog[i]] # "none"
    BY <1>2, <1>4 DEF Descriptors
  <2>2. CASE backlog' = Append(backlog, c) /\ peer'[c] # "none"
    <3>1. /\ Len(backlog') = Len(backlog) + 1 /\ backlog'[Len(backlog) + 1] = c
          /\ \A i \in 1..Len(backlog) : backlog'[i] = backlog[i]
      BY <1>4, <2>2
    <3> QED
      BY <1>4, <2>1, <2>2, <3>1
  <2> QED
    BY <1>3, <2>1, <2>2
<1> QED
  BY <1>1, <1>2, <1>4, <1>5 DEF Descriptors

LEMMA DescriptorsStep ==
  ASSUME IInv, Next
  PROVE  Descriptors'
<1> USE DEF IInv
<1>1. CASE Start
  <2>1. UNCHANGED <<fds, heap, threadFD, pc, backlog, peer>> /\ heap = {}
    BY <1>1 DEF Start, lists, threads, network, NodesInv, Idle
  <2> QED
    BY <2>1 DEF Descriptors
<1>2. CASE EndStep
  <2>1. /\ fds' = {} /\ heap' = {} /\ backlog' = << >>
        /\ \A n \in Nodes : pc'[n] = "none"
    BY <1>2 DEF EndStep, Ends
  <2> QED
    BY <2>1, FS_EmptySet DEF Descriptors
<1>3. CASE Create
  <2>1. UNCHANGED <<fds, heap, limit, threadFD, backlog, peer>>
    BY <1>3 DEF Create, network, process
  <2>2. dataPointer \in Nodes /\ dataPointer \in heap
    BY <1>3, NewestNode DEF Create
  <2>3. /\ \A m \in Nodes : m # dataPointer => pc'[m] = pc[m]
        /\ pc'[dataPointer] \in {"none", "recv"}
    BY <1>3, <2>2 DEF Create, Types, ThreadTypes
  <2> QED
    BY <2>1, <2>2, <2>3 DEF Descriptors
<1>4. CASE Reap \/ Join
  <2>1. UNCHANGED <<fds, limit, threadFD, pc, backlog, peer>> /\ heap' \subseteq heap
    BY <1>4 DEF Reap, Join, process, threads, network
  <2> QED
    BY <2>1 DEF Descriptors
<1> QED
  BY <1>1, <1>2, <1>3, <1>4, NextCases, DescriptorsAccept, DescriptorsAcceptFails,
     DescriptorsThread, DescriptorsClient

-----------------------------------------------------------------------------
(* What dataFile holds.                                                    *)

\* A part of a sequence.
LEMMA Part ==
  ASSUME NEW S, NEW s \in Seq(S), NEW m \in 1..(Len(s) + 1), NEW n \in (m - 1)..Len(s)
  PROVE  /\ SubSeq(s, m, n) \in Seq(S)
         /\ Len(SubSeq(s, m, n)) = n - m + 1
         /\ \A i \in 1..(n - m + 1) : SubSeq(s, m, n)[i] = s[m + i - 1]
<1>1. \A i \in m..n : s[i] \in S
  OBVIOUS
<1>2. m \in Int /\ n \in Int
  OBVIOUS
<1> QED
  BY <1>1, <1>2, SubSeqProperties

\* A part of what was there stays as it is when something is appended.
LEMMA PartOfAppend ==
  ASSUME NEW S, NEW s \in Seq(S), NEW x \in S,
         NEW m \in 1..(Len(s) + 1), NEW n \in (m - 1)..Len(s)
  PROVE  SubSeq(Append(s, x), m, n) = SubSeq(s, m, n)
<1> DEFINE t == Append(s, x)
<1>1. t \in Seq(S) /\ Len(t) = Len(s) + 1 /\ \A i \in 1..Len(s) : t[i] = s[i]
  BY AppendProperties
<1> HIDE DEF t
<1>2. m \in 1..(Len(t) + 1) /\ n \in (m - 1)..Len(t)
  BY <1>1
<1>3. /\ SubSeq(t, m, n) \in Seq(S)
      /\ Len(SubSeq(t, m, n)) = n - m + 1
      /\ \A i \in 1..(n - m + 1) : SubSeq(t, m, n)[i] = t[m + i - 1]
  BY <1>1, <1>2, Part
<1>4. /\ SubSeq(s, m, n) \in Seq(S)
      /\ Len(SubSeq(s, m, n)) = n - m + 1
      /\ \A i \in 1..(n - m + 1) : SubSeq(s, m, n)[i] = s[m + i - 1]
  BY Part
<1>5. \A i \in 1..(n - m + 1) : m + i - 1 \in 1..Len(s)
  OBVIOUS
<1>6. \A i \in 1..Len(SubSeq(t, m, n)) : SubSeq(t, m, n)[i] = SubSeq(s, m, n)[i]
  BY <1>1, <1>3, <1>4, <1>5
<1>7. SubSeq(t, m, n) = SubSeq(s, m, n)
  BY <1>3, <1>4, <1>6, SeqEqual
<1> QED
  BY <1>7 DEF t

\* The end of a sequence grows with it.
LEMMA EndOfAppend ==
  ASSUME NEW S, NEW s \in Seq(S), NEW x \in S, NEW m \in 1..(Len(s) + 1)
  PROVE  Append(SubSeq(s, m, Len(s)), x) = SubSeq(Append(s, x), m, Len(s) + 1)
<1> DEFINE t == Append(s, x)
           u == SubSeq(s, m, Len(s))
<1>1. /\ t \in Seq(S) /\ Len(t) = Len(s) + 1 /\ t[Len(s) + 1] = x
      /\ \A i \in 1..Len(s) : t[i] = s[i]
  BY AppendProperties
<1>2. SubSeq(t, m, Len(s)) = u
  BY PartOfAppend
<1>3. /\ u \in Seq(S)
      /\ Append(u, x) = u \o <<x>>
  <2>1. u \in Seq(S)
    BY Part
  <2> QED
    BY <2>1, AppendIsConcat
<1> HIDE DEF t, u
<1>4. m \in 1..Len(t) /\ Len(t) \in m..Len(t)
  BY <1>1
<1>5. SubSeq(t, m, Len(t)) = SubSeq(t, m, Len(t) - 1) \o <<t[Len(t)]>>
  BY <1>1, <1>4, SubSeqRecursiveSecond
<1>6. SubSeq(t, m, Len(t)) = Append(u, x)
  <2>1. Len(t) - 1 = Len(s) /\ t[Len(t)] = x
    BY <1>1
  <2> QED
    BY <1>2, <1>3, <1>5, <2>1
<1> QED
  BY <1>1, <1>6 DEF t, u

\* A window on what was written stays as it is when more is.
LEMMA WindowStays ==
  ASSUME DataTypes, NEW x \in Seq(Conns), history' = Append(history, x),
         UNCHANGED dataFile, NEW i \in 0..Len(history)
  PROVE  Window(i)' = Window(i)
<1> DEFINE m == IF dataFile = "device" /\ i > N THEN i - N + 1 ELSE 1
<1>1. Window(i) = SubSeq(history, m, i) /\ Window(i)' = SubSeq(history', m, i)
  BY DEF Window
<1>2. history \in Seq(Seq(Conns)) /\ N \in Nat \ {0}
  BY ServerAssumption DEF DataTypes
<1>3. m \in 1..(Len(history) + 1) /\ i \in (m - 1)..Len(history)
  BY <1>2
<1> HIDE DEF m
<1> QED
  BY <1>1, <1>2, <1>3, PartOfAppend

\* What a line adds to the history it adds to dataFile, which keeps its window.
LEMMA WindowMoves ==
  ASSUME DataTypes, StoreIsWindow, dataFile # "absent", NEW c \in Conns,
         StoreWrite(c, TRUE), UNCHANGED dataFile
  PROVE  /\ store'.commands = Window(Len(history))' /\ store'.pending = << >>
         /\ Len(history') = Len(history) + 1
         /\ Len(history') \in Own(c)'
         /\ \A i \in 1..Len(history) : Window(i)' = Window(i)
         /\ \A d \in Conns : Own(d) \subseteq Own(d)'
<1> DEFINE bytes == Append(store.pending, c)
           all == Append(store.commands, bytes)
           kept == IF dataFile = "device" /\ Len(all) > N THEN Tail(all) ELSE all
           L == Len(history)
           first == IF dataFile = "device" /\ L + 1 > N THEN L + 1 - N + 1 ELSE 1
<1>1. /\ bytes \in Seq(Conns) /\ bytes[Len(bytes)] = c
      /\ history \in Seq(Seq(Conns)) /\ store.commands \in Seq(Seq(Conns))
  BY AppendProperties DEF DataTypes
<1>2. store' = [commands |-> kept, pending |-> << >>] /\ history' = Append(history, bytes)
  BY DEF StoreWrite
<1>3. store.commands = Window(L)
  BY DEF StoreIsWindow
<1>4. all \in Seq(Seq(Conns)) /\ Len(all) = Len(store.commands) + 1 /\ all # << >>
  <2>1. \A old \in Seq(Seq(Conns)), x \in Seq(Conns) :
          /\ Append(old, x) \in Seq(Seq(Conns)) /\ Append(old, x) # << >>
          /\ Len(Append(old, x)) = Len(old) + 1
    BY AppendProperties
  <2> HIDE DEF bytes
  <2> QED
    BY <1>1, <2>1
<1> HIDE DEF bytes
<1>5. /\ history' \in Seq(Seq(Conns)) /\ Len(history') = L + 1
      /\ history'[L + 1] = bytes
      /\ \A i \in 1..L : history'[i] = history[i]
  BY <1>1, <1>2, AppendProperties
<1>6. N \in Nat \ {0}
  BY ServerAssumption
<1>7. kept = SubSeq(history', first, L + 1)
  <2>1. CASE dataFile = "device" /\ L > N
    <3>1. store.commands = SubSeq(history, L - N + 1, L)
      BY <1>3, <2>1 DEF Window
    <3>2. L - N + 1 \in 1..(L + 1) /\ L \in (L - N)..L
      BY <1>1, <1>6, <2>1
    <3>3. Len(store.commands) = N
      BY <1>1, <1>6, <3>1, <3>2, Part
    <3>4. all = SubSeq(history', L - N + 1, L + 1)
      BY <1>1, <1>2, <3>1, <3>2, EndOfAppend
    <3>5. Tail(all) = SubSeq(history', L - N + 2, L + 1)
      <4>1. L - N + 1 \in 1..Len(history') /\ L + 1 \in (L - N + 1)..Len(history')
        BY <1>1, <1>5, <1>6, <2>1
      <4>2. Tail(SubSeq(history', L - N + 1, L + 1)) = SubSeq(history', (L - N + 1) + 1, L + 1)
        BY <1>5, <4>1, HeadTailOfSubSeq
      <4>3. (L - N + 1) + 1 = L - N + 2
        BY <1>1, <1>6
      <4> QED
        BY <3>4, <4>2, <4>3
    <3>6. kept = Tail(all)
      BY <1>4, <1>6, <2>1, <3>3
    <3>7. first = L - N + 2
      BY <1>1, <1>6, <2>1
    <3> QED
      BY <3>5, <3>6, <3>7
  <2>2. CASE ~(dataFile = "device" /\ L > N)
    <3>1. store.commands = SubSeq(history, 1, L)
      BY <1>3, <2>2 DEF Window
    <3>2. store.commands = history
      BY <1>1, <3>1, SubSeqFull
    <3>3. all = history'
      BY <1>2, <3>2
    <3>4. SubSeq(history', 1, L + 1) = history'
      BY <1>5, SubSeqFull
    <3>5. CASE dataFile = "device" /\ L + 1 > N
      <4>1. kept = Tail(history') /\ L = N
        BY <1>1, <1>5, <1>6, <2>2, <3>3, <3>5
      <4>2. Tail(history') = SubSeq(history', 2, L + 1)
        BY <1>1, <1>5, TailIsSubSeq
      <4>3. first = 2
        BY <1>6, <3>5, <4>1
      <4> QED
        BY <4>1, <4>2, <4>3
    <3>6. CASE ~(dataFile = "device" /\ L + 1 > N)
      <4>1. kept = history'
        BY <1>5, <3>3, <3>6
      <4> QED
        BY <3>4, <3>6, <4>1
    <3> QED
      BY <3>5, <3>6
  <2> QED
    BY <2>1, <2>2
<1> HIDE DEF kept
<1>8. store'.commands = Window(Len(history))' /\ store'.pending = << >>
  <2>1. store'.commands = kept /\ store'.pending = << >>
    BY <1>2
  <2>2. Window(Len(history))' = SubSeq(history', first, L + 1)
    <3>1. CASE dataFile = "device" /\ L + 1 > N
      <4>0. L \in Nat
        BY <1>1
      <4> HIDE DEF L
      <4>1. Window(Len(history))' = SubSeq(history', Len(history') - N + 1, Len(history'))
        BY <1>5, <3>1 DEF Window
      <4>2. first = L + 1 - N + 1
        BY <3>1
      <4>3. Len(history') = L + 1
        BY <1>5
      <4> HIDE DEF first
      <4> QED
        BY <1>6, <4>0, <4>1, <4>2, <4>3
    <3>2. CASE ~(dataFile = "device" /\ L + 1 > N)
      BY <1>5, <3>2 DEF Window
    <3> QED
      BY <3>1, <3>2
  <2> QED
    BY <1>7, <2>1, <2>2
<1>9. Len(history') \in Own(c)'
  BY <1>1, <1>5 DEF Own
<1>10. \A i \in 1..L : Window(i)' = Window(i)
  BY <1>1, <1>2, WindowStays
<1>11. \A d \in Conns : Own(d) \subseteq Own(d)'
  BY <1>1, <1>5 DEF Own
<1> QED
  BY <1>5, <1>8, <1>9, <1>10, <1>11

-----------------------------------------------------------------------------
(* The replies.                                                            *)

\* ReplyGrows and ReplyIsLog for one thread.
GrowsAt(n) ==
  /\ pc[n] \in {"none", "recv", "lock", "open"} => reply[n] = << >>
  /\ pc[n] = "send" /\ Writes(n) =>
       /\ store.pending = << >>
       /\ Len(history) \in Own(threadFD[n])
       /\ pos[n] <= Len(store.commands)
       /\ reply[n] = SubSeq(store.commands, 1, pos[n])

RepliedAt(n) ==
  pc[n] \in {"unlock", "returned"} /\ Writes(n) =>
    \E i \in Own(threadFD[n]) : reply[n] = Window(i)

ReplyAt(n) == GrowsAt(n) /\ RepliedAt(n)

LEMMA ReplyByThread == (ReplyGrows /\ ReplyIsLog) <=> \A n \in Nodes : ReplyAt(n)
BY DEF ReplyGrows, ReplyIsLog, ReplyAt, GrowsAt, RepliedAt, Writes

\* A step that thread m takes no part in.
Bystander(m) ==
  /\ pc'[m] = pc[m] /\ got'[m] = got[m] /\ pos'[m] = pos[m] /\ reply'[m] = reply[m]
  /\ threadFD'[m] = threadFD[m]
  /\ pc[m] \notin {"none", "recv"} => request'[threadFD[m]].seek = request[threadFD[m]].seek

\* Its reply stays right as long as dataFile does not change.
LEMMA ReplyBystander ==
  ASSUME NEW m \in Nodes, ReplyAt(m), Bystander(m), UNCHANGED data
  PROVE  ReplyAt(m)'
<1>1. UNCHANGED <<dataFile, store, history>>
  BY DEF data
<1>2. pc[m] \notin {"none", "recv"} => (Writes(m)' <=> Writes(m))
  BY DEF Bystander, Writes
<1>3. \A i \in Own(threadFD[m]) : Window(i)' = Window(i)
  BY <1>1 DEF Window
<1>4. GrowsAt(m)'
  <2>1. pc'[m] \in {"none", "recv", "lock", "open"} => reply'[m] = << >>
    BY DEF Bystander, ReplyAt, GrowsAt
  <2>2. ASSUME pc'[m] = "send", Writes(m)'
        PROVE  /\ store'.pending = << >>
               /\ Len(history') \in Own(threadFD[m])'
               /\ pos'[m] <= Len(store'.commands)
               /\ reply'[m] = SubSeq(store'.commands, 1, pos'[m])
    <3>1. pc[m] = "send" /\ Writes(m)
      BY <1>2, <2>2 DEF Bystander
    <3>2. Own(threadFD[m])' = Own(threadFD[m])
      BY <1>1 DEF Own, Bystander
    <3> QED
      BY <1>1, <3>1, <3>2 DEF Bystander, ReplyAt, GrowsAt
  <2> QED
    BY <2>1, <2>2 DEF GrowsAt
<1>5. RepliedAt(m)'
  <2> SUFFICES ASSUME pc'[m] \in {"unlock", "returned"}, Writes(m)'
               PROVE  \E i \in Own(threadFD[m])' : reply'[m] = Window(i)'
    BY DEF RepliedAt
  <2>1. pc[m] \in {"unlock", "returned"} /\ Writes(m)
    BY <1>2 DEF Bystander
  <2>2. Own(threadFD[m])' = Own(threadFD[m])
    BY <1>1 DEF Own, Bystander
  <2> QED
    BY <1>3, <2>1, <2>2 DEF Bystander, ReplyAt, RepliedAt
<1> QED
  BY <1>4, <1>5 DEF ReplyAt

\* A thread that has not got to send has sent nothing.
LEMMA ReplyNotBegun ==
  ASSUME NEW m \in Nodes, pc'[m] \in {"none", "recv", "lock", "open"}, reply'[m] = << >>
  PROVE  ReplyAt(m)'
BY DEF ReplyAt, GrowsAt, RepliedAt

LEMMA ReplyStart ==
  ASSUME IInv, Start, NEW m \in Nodes
  PROVE  ReplyAt(m)'
<1>1. pc[m] = "none" /\ UNCHANGED <<pc, reply>>
  BY DEF Start, threads, IInv, NodesInv, Idle
<1>2. reply[m] = << >>
  BY <1>1 DEF IInv, LogInv, ReplyGrows
<1> QED
  BY <1>1, <1>2, ReplyNotBegun

LEMMA ReplyEnd ==
  ASSUME EndStep, NEW m \in Nodes
  PROVE  ReplyAt(m)'
BY ReplyNotBegun DEF EndStep, Ends

LEMMA ReplyMain ==
  ASSUME IInv, NEW m \in Nodes,
         \/ \E n \in Nodes : Accept(n) \/ AcceptFails(n)
         \/ Create \/ Reap \/ Join
  PROVE  ReplyAt(m)'
<1>1. ReplyAt(m)
  BY ReplyByThread DEF IInv, LogInv
<1>2. UNCHANGED data
  BY MainThreads DEF IInv
<1>3. ASSUME NEW n \in Nodes, Accept(n) \/ AcceptFails(n)
      PROVE  ReplyAt(m)'
  <2>1. CASE m = n
    BY <1>3, <2>1, ReplyNotBegun DEF Accept, AcceptFails, NewNode, IInv, Types, ThreadTypes
  <2>2. CASE m # n
    <3>1. Bystander(m)
      BY <1>3, <2>2 DEF Accept, AcceptFails, NewNode, network, Bystander, IInv, Types,
         ListTypes, ThreadTypes
    <3> QED
      BY <1>1, <1>2, <3>1, ReplyBystander
  <2> QED
    BY <2>1, <2>2
<1>4. CASE Create
  <2>1. CASE m = dataPointer
    <3>1. pc[m] = "none" /\ reply'[m] = reply[m]
      BY <1>4, <2>1 DEF Create, IInv, NodesInv, PointersLive
    <3>2. pc'[m] \in {"none", "recv"}
      BY <1>4, <2>1 DEF Create, IInv, Types, ThreadTypes
    <3> QED
      BY <1>1, <3>1, <3>2, ReplyNotBegun DEF ReplyAt, GrowsAt
  <2>2. CASE m # dataPointer
    <3>1. Bystander(m)
      BY <1>4, <2>2 DEF Create, network, Bystander, IInv, Types, ThreadTypes
    <3> QED
      BY <1>1, <1>2, <3>1, ReplyBystander
  <2> QED
    BY <2>1, <2>2
<1>5. CASE Reap \/ Join
  <2>1. Bystander(m)
    BY <1>5 DEF Reap, Join, threads, network, Bystander
  <2> QED
    BY <1>1, <1>2, <2>1, ReplyBystander
<1> QED
  BY <1>3, <1>4, <1>5

\* A connection is made once, so that no client changes the kind of a request
\* that is being served.
LEMMA ReplyClient ==
  ASSUME IInv, NEW m \in Nodes, NEW c \in Conns, Client(c)
  PROVE  ReplyAt(m)'
<1>1. ReplyAt(m)
  BY ReplyByThread DEF IInv, LogInv
<1>2. UNCHANGED <<lists, threads, data>>
  BY DEF Client, Connect, Deliver, Turn
<1>3. ASSUME pc[m] \notin {"none", "recv"}
      PROVE  request'[threadFD[m]].seek = request[threadFD[m]].seek
  <2>1. threadFD[m] \in Conns /\ peer[threadFD[m]] # "none"
    BY <1>3, ConnKnown DEF IInv, Descriptors
  <2>2. ASSUME NEW r \in Requests, Connect(c, r)
        PROVE  request'[threadFD[m]] = request[threadFD[m]]
    BY <2>1, <2>2 DEF Connect, IInv, Types, NetworkTypes
  <2>3. ASSUME Deliver(c)
        PROVE  request'[threadFD[m]].seek = request[threadFD[m]].seek
    BY <2>1, <2>3 DEF Deliver, IInv, Types, NetworkTypes
  <2> QED
    BY <2>2, <2>3 DEF Client, Turn
<1>4. Bystander(m)
  BY <1>2, <1>3 DEF lists, threads, Bystander
<1> QED
  BY <1>1, <1>2, <1>4, ReplyBystander

\* A write under the lock: no other thread is sending, and what was replied
\* before is still a window on the history.
LEMMA ReplyWrite ==
  ASSUME IInv, NEW n \in Nodes, WritePacket(n), NEW m \in Nodes
  PROVE  ReplyAt(m)' /\ StoreIsWindow'
<1> DEFINE c == threadFD[n]
<1>1. c \in Conns /\ c # NULL
  BY ConnKnown, ServerAssumption DEF WritePacket, IInv
<1>2. UNCHANGED <<threadFD, got, reply, request, dataFile, status>>
  BY DEF WritePacket, lists, network, process
<1>3. status = "running" /\ dataFile # "absent"
  BY DEF WritePacket, IInv, NodesInv, Idle, LogInv, DataThere
<1>4. /\ pc' = [pc EXCEPT ![n] = "send"] /\ pos' = [pos EXCEPT ![n] = 0]
      /\ pc[n] = "open"
  BY DEF WritePacket, Goto
<1>5. ReplyAt(m) /\ reply[n] = << >>
  BY <1>4, ReplyByThread DEF IInv, LogInv, ReplyGrows
<1>6. pc'[n] = "send" /\ pos'[n] = 0
  BY <1>4 DEF IInv, Types, ThreadTypes
<1>7. \A k \in Nodes : k # n => /\ pc'[k] = pc[k] /\ pos'[k] = pos[k]
                              /\ pc[k] \notin {"open", "send", "unlock"}
  BY <1>4 DEF IInv, Locked, Types, ThreadTypes
<1>8. CASE got[n] = "line"
  <2>1. StoreWrite(c, TRUE)
    BY <1>8 DEF WritePacket
  <2>2. /\ store'.commands = Window(Len(history))' /\ store'.pending = << >>
        /\ Len(history') = Len(history) + 1
        /\ Len(history') \in Own(c)'
        /\ \A i \in 1..Len(history) : Window(i)' = Window(i)
        /\ \A d \in Conns : Own(d) \subseteq Own(d)'
    BY <1>1, <1>2, <1>3, <2>1, WindowMoves DEF IInv, LogInv, Types
  <2>3. ASSUME m = n
        PROVE  ReplyAt(m)'
    <3>1. reply'[n] = << >>
      BY <1>2, <1>5
    <3>2. SubSeq(store'.commands, 1, 0) = << >>
      BY SubSeqEmpty
    <3>3. 0 <= Len(store'.commands)
      BY TypesStep DEF Next, threadHandler, Types, DataTypes
    <3>4. Own(threadFD[n])' = Own(c)'
      OBVIOUS
    <3> HIDE DEF c
    <3>5. GrowsAt(n)'
      BY <1>6, <2>2, <3>1, <3>2, <3>3, <3>4 DEF GrowsAt
    <3>6. RepliedAt(n)'
      BY <1>6 DEF RepliedAt
    <3> QED
      BY <2>3, <3>5, <3>6 DEF ReplyAt
  <2>4. ASSUME m # n
        PROVE  ReplyAt(m)'
    <3>1. pc'[m] # "send" /\ pc'[m] = pc[m] /\ reply'[m] = reply[m]
      BY <1>2, <1>7, <2>4
    <3>2. GrowsAt(m)'
      BY <1>5, <3>1 DEF ReplyAt, GrowsAt
    <3>3. RepliedAt(m)'
      <4> SUFFICES ASSUME pc'[m] \in {"unlock", "returned"}, Writes(m)'
                   PROVE  \E i \in Own(threadFD[m])' : reply'[m] = Window(i)'
        BY DEF RepliedAt
      <4>1. pc[m] \in {"unlock", "returned"} /\ Writes(m)
        BY <1>2, <3>1 DEF Writes
      <4>2. PICK i \in Own(threadFD[m]) : reply[m] = Window(i)
        BY <1>5, <4>1 DEF ReplyAt, RepliedAt
      <4>3. threadFD[m] \in Conns
        BY <4>1, ConnKnown DEF IInv
      <4>4. i \in Own(threadFD[m])'
        <5>1. \A d \in Conns : i \in Own(d) => i \in Own(d)'
          BY <2>2
        <5> QED
          BY <1>2, <4>2, <4>3, <5>1 DEF Own
      <4>5. i \in 1..Len(history)
        BY <4>2 DEF Own
      <4> QED
        BY <2>2, <3>1, <4>2, <4>4, <4>5
    <3> QED
      BY <3>2, <3>3 DEF ReplyAt
  <2> QED
    BY <2>2, <2>3, <2>4 DEF StoreIsWindow
<1>9. CASE got[n] # "line"
  <2>1. history' = history /\ store'.commands = store.commands
    <3>1. CASE got[n] = "none"
      BY <3>1 DEF WritePacket
    <3>2. CASE got[n] # "none"
      BY <1>9, <3>2 DEF WritePacket, StoreWrite, IInv, Types, DataTypes
    <3> QED
      BY <3>1, <3>2
  <2>2. StoreIsWindow'
    BY <1>2, <2>1 DEF IInv, LogInv, StoreIsWindow, Window
  <2>3. ASSUME m = n
        PROVE  ReplyAt(m)'
    BY <1>2, <1>6, <1>9, <2>3 DEF ReplyAt, GrowsAt, RepliedAt, Writes
  <2>4. ASSUME m # n
        PROVE  ReplyAt(m)'
    <3>1. pc'[m] # "send" /\ pc'[m] = pc[m] /\ reply'[m] = reply[m]
      BY <1>2, <1>7, <2>4
    <3>2. GrowsAt(m)'
      BY <1>5, <3>1 DEF ReplyAt, GrowsAt
    <3>3. RepliedAt(m)'
      BY <1>2, <1>5, <2>1, <3>1 DEF ReplyAt, RepliedAt, Writes, Own, Window
    <3> QED
      BY <3>2, <3>3 DEF ReplyAt
  <2> QED
    BY <2>2, <2>3, <2>4
<1> QED
  BY <1>8, <1>9

\* One more command of what the lock keeps as it is.
LEMMA ReplySend ==
  ASSUME IInv, NEW n \in Nodes, Send(n)
  PROVE  ReplyAt(n)'
<1>1. /\ pc[n] = "send" /\ UNCHANGED <<pc, got, threadFD, request, data>>
      /\ pos[n] < Len(Contents)
  BY DEF Send, lists, network
<1>2. UNCHANGED <<dataFile, store, history>>
  BY <1>1 DEF data
<1>3. ReplyAt(n)
  BY ReplyByThread DEF IInv, LogInv
<1>4. RepliedAt(n)'
  BY <1>1 DEF RepliedAt
<1>5. ASSUME Writes(n)'
      PROVE  /\ store'.pending = << >>
             /\ Len(history') \in Own(threadFD[n])'
             /\ pos'[n] <= Len(store'.commands)
             /\ reply'[n] = SubSeq(store'.commands, 1, pos'[n])
  <2>1. Writes(n)
    BY <1>1, <1>5 DEF Writes
  <2>2. /\ store.pending = << >> /\ Len(history) \in Own(threadFD[n])
        /\ pos[n] <= Len(store.commands)
        /\ reply[n] = SubSeq(store.commands, 1, pos[n])
    BY <1>1, <1>3, <2>1 DEF ReplyAt, GrowsAt
  <2>3. Contents = store.commands
    BY <2>2 DEF Contents
  <2>4. /\ pos'[n] = pos[n] + 1
        /\ reply'[n] = Append(reply[n], store.commands[pos[n] + 1])
    BY <2>3 DEF Send, IInv, Types, ThreadTypes
  <2>5. store.commands \in Seq(Seq(Conns)) /\ pos[n] \in Nat
    BY DEF IInv, Types, DataTypes, ThreadTypes
  <2> DEFINE s == store.commands
             k == pos[n]
  <2>6. s \in Seq(Seq(Conns)) /\ k \in Nat /\ k < Len(s)
    BY <1>1, <2>3, <2>5
  <2> HIDE DEF s, k
  <2>7. SubSeq(s, 1, k + 1) = Append(SubSeq(s, 1, k), s[k + 1])
    <3>1. 1 \in 1..Len(s) /\ k + 1 \in 1..Len(s) /\ (k + 1) - 1 = k
      BY <2>6
    <3>2. SubSeq(s, 1, k + 1) = SubSeq(s, 1, (k + 1) - 1) \o <<s[k + 1]>>
      BY <2>6, <3>1, SubSeqRecursiveSecond
    <3>3. SubSeq(s, 1, k) \in Seq(Seq(Conns)) /\ s[k + 1] \in Seq(Conns)
      BY <2>6, <3>1, Part
    <3> QED
      BY <3>1, <3>2, <3>3, AppendIsConcat
  <2>8. reply'[n] = SubSeq(store.commands, 1, pos'[n]) /\ pos'[n] <= Len(store.commands)
    BY <2>2, <2>4, <2>6, <2>7 DEF s, k
  <2>9. Own(threadFD[n])' = Own(threadFD[n])
    BY <1>1, <1>2 DEF Own
  <2> QED
    BY <1>2, <2>2, <2>8, <2>9
<1>6. GrowsAt(n)'
  BY <1>1, <1>5 DEF GrowsAt
<1> QED
  BY <1>4, <1>6 DEF ReplyAt

\* At the end of the file the whole of it has been sent.
LEMMA ReplyFinish ==
  ASSUME IInv, NEW n \in Nodes, Finish(n)
  PROVE  ReplyAt(n)'
<1>1. /\ pc[n] = "send" /\ UNCHANGED <<got, reply, threadFD, request, data>>
      /\ pos[n] >= Len(Contents)
  BY DEF Finish, network
<1>2. pc'[n] = "unlock"
  BY DEF Finish, Goto, IInv, Types, ThreadTypes
<1>3. dataFile # "absent" /\ UNCHANGED <<dataFile, store, history>>
  BY <1>1 DEF data, IInv, NodesInv, Idle, LogInv, DataThere
<1>4. ASSUME Writes(n)
      PROVE  Len(history) \in Own(threadFD[n]) /\ reply[n] = Window(Len(history))
  <2>1. /\ store.pending = << >> /\ Len(history) \in Own(threadFD[n])
        /\ pos[n] <= Len(store.commands)
        /\ reply[n] = SubSeq(store.commands, 1, pos[n])
    BY <1>1, <1>4, ReplyByThread DEF IInv, LogInv, ReplyAt, GrowsAt
  <2>2. Contents = store.commands
    BY <2>1 DEF Contents
  <2>3. store.commands \in Seq(Seq(Conns)) /\ pos[n] \in Nat
    BY DEF IInv, Types, DataTypes, ThreadTypes
  <2>4. pos[n] = Len(store.commands)
    BY <1>1, <2>1, <2>2, <2>3
  <2>5. reply[n] = store.commands
    BY <2>1, <2>3, <2>4, SubSeqFull
  <2> QED
    BY <1>3, <2>1, <2>5 DEF IInv, LogInv, StoreIsWindow
<1>5. RepliedAt(n)'
  <2> SUFFICES ASSUME Writes(n)'
               PROVE  \E i \in Own(threadFD[n])' : reply'[n] = Window(i)'
    BY DEF RepliedAt
  <2>1. Writes(n)
    BY <1>1 DEF Writes
  <2>2. Len(history) \in Own(threadFD[n])' /\ Own(threadFD[n])' = Own(threadFD[n])
    BY <1>1, <1>3, <1>4, <2>1 DEF Own
  <2>3. \A i \in Own(threadFD[n]) : Window(i)' = Window(i)
    BY <1>3 DEF Window
  <2> QED
    BY <1>1, <1>4, <2>1, <2>2, <2>3
<1>6. GrowsAt(n)'
  BY <1>2 DEF GrowsAt
<1> QED
  BY <1>5, <1>6 DEF ReplyAt

LEMMA ReplyThread ==
  ASSUME IInv, NEW n \in Nodes, ThreadStep(n), NEW m \in Nodes
  PROVE  ReplyAt(m)'
<1>1. CASE WritePacket(n)
  BY <1>1, ReplyWrite
<1>2. CASE m # n /\ ~WritePacket(n)
  <2>1. UNCHANGED data
    BY <1>2 DEF ThreadStep, Recv, RecvEnd, Lock, SeekPacket, Send, Finish, Unlock
  <2>2. UNCHANGED <<threadFD, request>>
    BY <1>2 DEF ThreadStep, Recv, RecvEnd, Lock, SeekPacket, Send, Finish, Unlock,
       lists, network
  <2>3. pc'[m] = pc[m] /\ got'[m] = got[m]
    BY <1>2 DEF ThreadStep, Recv, RecvEnd, Lock, SeekPacket, Send, Finish, Unlock,
       Goto, IInv, Types, ThreadTypes
  <2>4. pos'[m] = pos[m] /\ reply'[m] = reply[m]
    BY <1>2 DEF ThreadStep, Recv, RecvEnd, Lock, SeekPacket, Send, Finish, Unlock,
       IInv, Types, ThreadTypes
  <2>5. Bystander(m) /\ ReplyAt(m)
    BY <2>2, <2>3, <2>4, ReplyByThread DEF Bystander, IInv, LogInv
  <2> QED
    BY <2>1, <2>5, ReplyBystander
<1>3. CASE m = n /\ (Recv(n) \/ RecvEnd(n) \/ Lock(n))
  <2>1. pc[n] \in {"recv", "lock"} /\ reply'[n] = reply[n]
    BY <1>3 DEF Recv, RecvEnd, Lock
  <2>2. pc'[n] \in {"recv", "lock", "open"}
    BY <1>3 DEF Recv, RecvEnd, Lock, Goto, IInv, Types, ThreadTypes
  <2>3. reply[n] = << >>
    BY <2>1 DEF IInv, LogInv, ReplyGrows
  <2> QED
    BY <1>3, <2>1, <2>2, <2>3, ReplyNotBegun
<1>4. CASE m = n /\ SeekPacket(n)
  <2>1. /\ request[threadFD[n]].seek /\ UNCHANGED <<threadFD, request>>
        /\ pc'[n] = "send"
    BY <1>4 DEF SeekPacket, lists, network, Goto, IInv, Types, ThreadTypes
  <2> QED
    BY <1>4, <2>1 DEF ReplyAt, GrowsAt, RepliedAt, Writes
<1>5. CASE m = n /\ (Send(n) \/ Finish(n))
  BY <1>5, ReplySend, ReplyFinish
<1>6. CASE m = n /\ Unlock(n)
  <2>1. /\ pc[n] = "unlock" /\ pc'[n] = "returned"
        /\ UNCHANGED <<got, reply, threadFD, request, data>>
    BY <1>6 DEF Unlock, lists, network, Goto, IInv, Types, ThreadTypes
  <2>2. UNCHANGED <<dataFile, history>> /\ RepliedAt(n)
    BY <2>1, ReplyByThread DEF data, IInv, LogInv, ReplyAt
  <2>3. RepliedAt(n)'
    BY <2>1, <2>2 DEF RepliedAt, Writes, Own, Window
  <2> QED
    BY <1>6, <2>1, <2>3 DEF ReplyAt, GrowsAt
<1> QED
  BY <1>1, <1>2, <1>3, <1>4, <1>5, <1>6 DEF ThreadStep

LEMMA StoreStep ==
  ASSUME IInv, Next
  PROVE  DataThere' /\ StoreIsWindow'
<1>1. CASE Start
  <2>1. CASE dataFile = "device"
    BY <1>1, <2>1 DEF Start, data, IInv, LogInv, DataThere, StoreIsWindow, Window
  <2>2. CASE dataFile # "device"
    <3>1. /\ dataFile' = "regular" /\ history' = << >>
          /\ store'.commands = << >>
      BY <1>1, <2>2 DEF Start, EmptyStore
    <3>2. Window(Len(history))' = SubSeq(history', 1, 0)
      BY <3>1 DEF Window
    <3>3. SubSeq(history', 1, 0) = << >>
      BY SubSeqEmpty
    <3> QED
      BY <3>1, <3>2, <3>3 DEF DataThere, StoreIsWindow
  <2> QED
    BY <2>1, <2>2
<1>2. CASE EndStep
  BY <1>2 DEF EndStep, Ends, IInv, LogInv, DataThere, StoreIsWindow, Window
<1>3. ASSUME UNCHANGED <<status, data>>
      PROVE  DataThere' /\ StoreIsWindow'
  BY <1>3 DEF data, IInv, LogInv, DataThere, StoreIsWindow, Window
<1>4. CASE \/ \E n \in Nodes : Accept(n) \/ AcceptFails(n)
           \/ Create \/ Reap \/ Join
  BY <1>3, <1>4, MainThreads DEF IInv
<1>5. CASE \E c \in Conns : Client(c)
  BY <1>3, <1>5 DEF Client, Connect, Deliver, Turn, process
<1>6. ASSUME NEW n \in Nodes, ThreadStep(n)
      PROVE  DataThere' /\ StoreIsWindow'
  <2>1. CASE WritePacket(n)
    BY <2>1, ReplyWrite DEF WritePacket, process, IInv, LogInv, DataThere
  <2>2. CASE ~WritePacket(n)
    BY <1>3, <1>6, <2>2 DEF ThreadStep, Recv, RecvEnd, Lock, SeekPacket, Send, Finish,
       Unlock, process
  <2> QED
    BY <2>1, <2>2
<1> QED
  BY <1>1, <1>2, <1>4, <1>5, <1>6, NextCases

LEMMA LogStep ==
  ASSUME IInv, Next
  PROVE  LogInv'
<1>1. ASSUME NEW m \in Nodes
      PROVE  ReplyAt(m)'
  BY NextCases, ReplyStart, ReplyEnd, ReplyMain, ReplyThread, ReplyClient
<1>2. ReplyGrows' /\ ReplyIsLog'
  BY <1>1 DEF ReplyGrows, ReplyIsLog, ReplyAt, GrowsAt, RepliedAt, Writes
<1> QED
  BY <1>2, StoreStep DEF LogInv

LEMMA LogInit == Init => LogInv
<1> SUFFICES ASSUME Init PROVE LogInv
  OBVIOUS
<1>1. store.commands = << >> /\ history = << >>
  BY DEF Init, EmptyStore
<1>2. Window(Len(history)) = SubSeq(history, 1, 0)
  BY <1>1, ServerAssumption DEF Window
<1>3. SubSeq(history, 1, 0) = << >>
  BY SubSeqEmpty
<1>4. StoreIsWindow
  BY <1>1, <1>2, <1>3 DEF StoreIsWindow
<1> QED
  BY <1>4 DEF Init, LogInv, DataThere, ReplyGrows, ReplyIsLog

-----------------------------------------------------------------------------
LEMMA Initially == Init => IInv
<1> SUFFICES ASSUME Init PROVE IInv
  OBVIOUS
<1>1. Locked /\ Descriptors
  BY FS_EmptySet DEF Init, Locked, Descriptors
<1> QED
  BY <1>1, TypesInit, NodesInit, ReapInit, LogInit DEF IInv

LEMMA Stuttering ==
  ASSUME IInv, UNCHANGED vars
  PROVE  IInv'
<1> USE DEF IInv
<1>1. UNCHANGED <<process, lists, threads, data, network>>
  BY DEF vars
<1>2. Types'
  BY <1>1 DEF process, lists, threads, data, network, Types, ListTypes, ThreadTypes,
     DataTypes, NetworkTypes
<1>3. NodesInv'
  BY <1>1, NodesOther DEF threads, process
<1>4. ReapPays'
  BY <1>1, ReapOther DEF lists
<1>5. Locked' /\ Descriptors'
  BY <1>1 DEF process, lists, threads, network, Locked, Descriptors
<1>6. DataThere' /\ StoreIsWindow'
  BY <1>1 DEF process, data, LogInv, DataThere, StoreIsWindow, Window
<1>7. ASSUME NEW m \in Nodes
      PROVE  ReplyAt(m)'
  <2>1. Bystander(m) /\ ReplyAt(m)
    BY <1>1, ReplyByThread DEF lists, threads, network, Bystander, LogInv
  <2> QED
    BY <1>1, <2>1, ReplyBystander
<1>8. ReplyGrows' /\ ReplyIsLog'
  BY <1>7 DEF ReplyGrows, ReplyIsLog, ReplyAt, GrowsAt, RepliedAt, Writes
<1> QED
  BY <1>2, <1>3, <1>4, <1>5, <1>6, <1>8 DEF LogInv

LEMMA Inductive == Spec => []IInv
<1>1. IInv /\ [Next]_vars => IInv'
  BY TypesStep, NodesStep, ReapStep, LockedStep, DescriptorsStep, LogStep, Stuttering
  DEF IInv
<1> QED
  BY Initially, <1>1, PTL DEF Spec

(***************************************************************************)
(* SLIST_INSERT_HEAD, SLIST_REMOVE, malloc and free in ConfigureSocket     *)
(* keep the list and the heap in agreement, no thread runs with a node     *)
(* that was freed, and SLIST_FOREACH never follows one.                    *)
(***************************************************************************)
THEOREM ServerNodes == Spec => []NodesLive
<1>1. IInv => NodesLive
  BY DEF IInv, NodesInv, ListIsHeap, PointersLive, NodesLive
<1> QED
  BY Inductive, <1>1, PTL

(***************************************************************************)
(* The pthread_join of ConfigureSocket is only reached for a thread that   *)
(* is past its last send: a silent client cannot stop the accept loop      *)
(* there.                                                                  *)
(***************************************************************************)
THEOREM ServerJoin == Spec => []JoinIsShort
<1>1. IInv => JoinIsShort
  BY DEF IInv, Types, ListTypes, NodesInv, PointersLive, JoinIsShort
<1> QED
  BY Inductive, <1>1, PTL

(***************************************************************************)
(* The break behind the one pthread_join of each pass costs nothing: the   *)
(* list is bounded by the most connections that were unfinished at once,   *)
(* for any number of connections.                                          *)
(***************************************************************************)
THEOREM ServerList == Spec => []ListBounded
<1>1. IInv => ListBounded
  BY DEF IInv, ReapPays, ListBounded
<1> QED
  BY Inductive, <1>1, PTL

(***************************************************************************)
(* What threadHandler sends back between pthread_mutex_lock and            *)
(* pthread_mutex_unlock is dataFile as it was right after its own write,   *)
(* with any number of threads.                                             *)
(***************************************************************************)
THEOREM ServerReply == Spec => []ReplyIsLog
<1>1. IInv => ReplyIsLog
  BY DEF IInv, LogInv
<1> QED
  BY Inductive, <1>1, PTL

(***************************************************************************)
(* The exit, the NULL of fopen and the SIGPIPE that end the process have   *)
(* two causes only: an accepted connection was reset, or the descriptors   *)
(* that threadHandler never closes are used up.                            *)
(***************************************************************************)
THEOREM ServerFailures == Spec => FailsOnlyOn
<1> DEFINE Caused == \/ \E c \in fds : peer[c] = "reset"
                     \/ Cardinality(fds) + 1 >= limit
<1>1. ASSUME IInv, Next, status = "running", status' = "failed"
      PROVE  Caused
  <2>1. \E n \in Nodes : RecvFails(n) \/ OpenFails(n) \/ SendKills(n)
    <3>1. ~(Start \/ signalHandler)
      BY <1>1 DEF Start, signalHandler, Ends
    <3>2. ~Main
      BY <1>1, MainThreads DEF Main, IInv
    <3>3. ~\E c \in Conns : Client(c)
      BY <1>1 DEF Client, Connect, Deliver, Turn, process
    <3>4. \A n \in Nodes : ~ThreadStep(n)
      BY <1>1 DEF ThreadStep, Recv, RecvEnd, Lock, WritePacket, SeekPacket, Send, Finish,
         Unlock, process
    <3> QED
      BY <1>1, <3>1, <3>2, <3>3, <3>4 DEF Next, threadHandler, ThreadStep
  <2>2. PICK n \in Nodes : RecvFails(n) \/ OpenFails(n) \/ SendKills(n)
    BY <2>1
  <2>3. n \in heap /\ threadFD[n] \in fds \cup {NULL}
    BY <1>1, <2>2 DEF RecvFails, OpenFails, SendKills, IInv, NodesInv, PointersLive,
       Running, Descriptors
  <2>4. CASE RecvFails(n)
    BY <1>1, <2>3, <2>4 DEF RecvFails, IInv, Descriptors
  <2>5. CASE OpenFails(n)
    <3>1. Cardinality({m \in Nodes : pc[m] = "send"}) = 0
      BY <1>1, <2>5, Senders DEF OpenFails, IInv
    <3>2. Cardinality(fds) \in Nat /\ limit \in Nat
      BY <1>1, FS_CardinalityType DEF IInv, Descriptors, Types, ListTypes
    <3> QED
      BY <2>5, <3>1, <3>2 DEF OpenFails, OpenFds
  <2>6. CASE SendKills(n)
    BY <1>1, <2>3, <2>6 DEF SendKills, IInv, Descriptors
  <2> QED
    BY <2>2, <2>4, <2>5, <2>6
<1>2. ASSUME IInv, [Next]_vars
      PROVE  [status = "running" /\ status' = "failed" => Caused]_vars
  BY <1>1, <1>2
<1> QED
  BY Inductive, <1>2, PTL DEF Spec, FailsOnlyOn
=============================================================================
