----------------------------- MODULE AesdSocket -----------------------------
(***************************************************************************)
(* The server, server/aesdsocket.c, built for the device as its Makefile   *)
(* does (USE_AESD_CHAR_DEVICE=1).  The main thread accepts connections,    *)
(* puts a node for each on a list, starts a thread for it and reaps at     *)
(* most one finished thread.  A thread receives one packet, and under      *)
(* mutexLock writes it to dataFile (or seeks) and sends back what it then  *)
(* reads.  A signal ends the process at any point.                         *)
(*                                                                         *)
(* A thread is named by its node, which is also its parameter.  A packet   *)
(* is named by its connection: the bytes of a packet are abstracted to     *)
(* whether they end in a newline and whether they begin with ioctl_string. *)
(* How recv's chunks are joined is left out.  The device and the network   *)
(* are external: the device keeps the last N commands, as CommandDevice    *)
(* says, and the file that may stand in its place keeps everything.        *)
(***************************************************************************)
EXTENDS Naturals, Sequences, FiniteSets

CONSTANTS
  Conns,      \* connections that clients make, each at most once
  Nodes,      \* addresses that malloc returns for list nodes
  NULL,       \* no node, no connection
  N,          \* how many commands the device keeps
  Requests,   \* what a client may send: [chunks : Seq({"part", "line"}), seek : BOOLEAN]
  FdLimits,   \* how many connections and files a process may have open
  MaxStarts   \* bound: how often the process is started

ASSUME ServerAssumption ==
  /\ NULL \notin Conns \cup Nodes
  /\ N \in Nat \ {0}
  /\ Requests \subseteq [chunks : Seq({"part", "line"}), seek : BOOLEAN]
  /\ FdLimits \subseteq Nat
  /\ MaxStarts \in Nat

VARIABLES
  status,       \* of the process: "off", "running", "failed" or "stopped"
  starts,       \* how often it has been started
  limit,        \* how many connections and files it may have open
  main,         \* where the main thread is: "accept", "create", "reap" or "join"
  dataPointer,  \* the node the main thread looks at
  list,         \* the nodes on head, first one first
  heap,         \* the nodes that are allocated
  isDone,       \* fields of the nodes
  threadFD,
  fds,          \* the connections whose descriptors the process has open
  pc,           \* where the thread of each node is, "none" without a thread
  got,          \* what it has received: nothing, a part, or a line
  pos,          \* the position of its FILE, in commands
  reply,        \* the commands it has sent
  mutexLock,    \* the node of the thread that holds it, or NULL
  dataFile,     \* what is at /dev/aesdchar: "device", "regular" or "absent"
  store,        \* its contents
  history,      \* history: all commands ever written to it
  backlog,      \* connections that wait for accept
  peer,         \* its client: "none", "open", "fin", "stalled" or "reset"
  request,      \* what its client has still to send, and whether it is a seek
  inbox,        \* chunks that wait for recv
  served,       \* history: connections whose threads have returned
  peak          \* history: the most nodes that were unfinished at one time

process == <<status, starts, limit>>
lists   == <<main, dataPointer, list, heap, isDone, threadFD, fds, peak>>
threads == <<pc, got, pos, reply, mutexLock, served>>
data    == <<dataFile, store, history>>
network == <<backlog, peer, request, inbox>>
vars    == <<process, lists, threads, data, network>>

\* A thread that has been created and has not returned.
Running(n) == pc[n] \notin {"none", "returned"}

EmptyStore == [commands |-> << >>, pending |-> << >>]

Init ==
  /\ status = "off" /\ starts = 0 /\ limit = 0
  /\ main = "accept" /\ dataPointer = NULL
  /\ list = << >> /\ heap = {}
  /\ isDone = [n \in Nodes |-> FALSE]
  /\ threadFD = [n \in Nodes |-> NULL]
  /\ fds = {} /\ peak = 0
  /\ pc = [n \in Nodes |-> "none"]
  /\ got = [n \in Nodes |-> "none"]
  /\ pos = [n \in Nodes |-> 0]
  /\ reply = [n \in Nodes |-> << >>]
  /\ mutexLock = NULL
  /\ served = {}
  /\ dataFile = "device" /\ store = EmptyStore /\ history = << >>
  /\ backlog = << >>
  /\ peer = [c \in Conns |-> "none"]
  /\ request = [c \in Conns |-> [chunks |-> << >>, seek |-> FALSE]]
  /\ inbox = [c \in Conns |-> << >>]

-----------------------------------------------------------------------------
(* The process.                                                            *)

(***************************************************************************)
(* main and ConfigureSocket up to the accept loop.  creat opens what is at *)
(* dataFile, or makes a regular file; the device ignores the truncation,   *)
(* a regular file obeys it.                                                *)
(***************************************************************************)
Start ==
  /\ status # "running"
  /\ starts < MaxStarts
  /\ status' = "running" /\ starts' = starts + 1
  /\ limit' \in FdLimits
  /\ IF dataFile = "device"
     THEN UNCHANGED data
     ELSE dataFile' = "regular" /\ store' = EmptyStore /\ history' = << >>
  /\ UNCHANGED <<lists, threads, network>>

\* The process ends: its memory and threads are gone, its connections are cut.
Ends(how) ==
  /\ status' = how /\ limit' = 0
  /\ main' = "accept" /\ dataPointer' = NULL
  /\ list' = << >> /\ heap' = {}
  /\ isDone' = [n \in Nodes |-> FALSE]
  /\ threadFD' = [n \in Nodes |-> NULL]
  /\ fds' = {} /\ peak' = 0
  /\ pc' = [n \in Nodes |-> "none"]
  /\ got' = [n \in Nodes |-> "none"]
  /\ pos' = [n \in Nodes |-> 0]
  /\ reply' = [n \in Nodes |-> << >>]
  /\ mutexLock' = NULL
  /\ backlog' = << >>
  /\ peer' = [c \in Conns |-> IF peer[c] = "none" THEN "none" ELSE "reset"]
  /\ UNCHANGED <<starts, served, request, inbox>>

\* SIGINT or SIGTERM, in whatever thread it arrives.
signalHandler ==
  /\ status = "running"
  /\ Ends("stopped")
  /\ dataFile' = "absent"
  /\ UNCHANGED <<store, history>>

-----------------------------------------------------------------------------
(* The main thread.                                                        *)

\* Fault: dataFile is not closed.
OpenFdsLeaked ==
  Cardinality(fds) + Cardinality({n \in Nodes : pc[n] \in {"send", "unlock", "returned"}})

\* Descriptors in use: a thread has dataFile open while it sends.
OpenFds == Cardinality(fds) + Cardinality({n \in Nodes : pc[n] = "send"})

\* malloc, SLIST_INSERT_HEAD and the fields of the new node n.
NewNode(n, fd) ==
  /\ n \notin heap
  /\ heap' = heap \cup {n}
  /\ list' = <<n>> \o list
  /\ isDone' = [isDone EXCEPT ![n] = FALSE]
  /\ threadFD' = [threadFD EXCEPT ![n] = fd]
  /\ dataPointer' = n
  /\ main' = "create"
  /\ pc' = [pc EXCEPT ![n] = "none"]
  /\ got' = [got EXCEPT ![n] = "none"]
  /\ reply' = [reply EXCEPT ![n] = << >>]
  /\ pos' = [pos EXCEPT ![n] = 0]
  /\ LET unfinished == Cardinality({m \in heap : ~isDone[m]}) + 1
     IN  peak' = IF unfinished > peak THEN unfinished ELSE peak
  /\ UNCHANGED <<process, mutexLock, served, data>>

Accept(n) ==
  /\ status = "running" /\ main = "accept"
  /\ backlog # << >>
  /\ OpenFds < limit
  /\ NewNode(n, Head(backlog))
  /\ fds' = fds \cup {Head(backlog)}
  /\ backlog' = Tail(backlog)
  /\ UNCHANGED <<peer, request, inbox>>

\* accept fails when no descriptor is left, and its -1 becomes threadFD.
AcceptFails(n) ==
  /\ status = "running" /\ main = "accept"
  /\ OpenFds >= limit
  /\ NewNode(n, NULL)
  /\ UNCHANGED <<fds, network>>

\* pthread_create, whose result is ignored.
Create ==
  /\ status = "running" /\ main = "create"
  /\ \E label \in {"recv", "none"} : pc' = [pc EXCEPT ![dataPointer] = label]
  /\ main' = "reap"
  /\ dataPointer' = Head(list)
  /\ UNCHANGED <<process, list, heap, isDone, threadFD, fds, peak, got, pos,
                 reply, mutexLock, served, data, network>>

IndexOf(n) == CHOOSE i \in 1..Len(list) : list[i] = n

\* The node behind n on the list, NULL behind the last.
NodeBehind(n) == IF IndexOf(n) = Len(list) THEN NULL ELSE list[IndexOf(n) + 1]

\* Fault: only the first node is looked at.
ReapFirstOnly ==
  /\ status = "running" /\ main = "reap"
  /\ IF isDone[dataPointer]
     THEN main' = "join" /\ UNCHANGED dataPointer
     ELSE main' = "accept" /\ dataPointer' = NULL
  /\ UNCHANGED <<process, list, heap, isDone, threadFD, fds, peak, threads, data, network>>

\* Fault: isDone is not looked at.
ReapAny ==
  /\ status = "running" /\ main = "reap"
  /\ dataPointer # NULL
  /\ main' = "join"
  /\ UNCHANGED <<process, dataPointer, list, heap, isDone, threadFD, fds, peak,
                 threads, data, network>>

\* One iteration of SLIST_FOREACH: isDone is read without a lock.
Reap ==
  /\ status = "running" /\ main = "reap"
  /\ IF dataPointer = NULL
     THEN main' = "accept" /\ UNCHANGED dataPointer
     ELSE IF isDone[dataPointer]
     THEN main' = "join" /\ UNCHANGED dataPointer
     ELSE dataPointer' = NodeBehind(dataPointer) /\ UNCHANGED main
  /\ UNCHANGED <<process, list, heap, isDone, threadFD, fds, peak, threads, data, network>>

\* Fault: the first node is taken off the list, whichever one is freed.
JoinRemovesFirst ==
  /\ status = "running" /\ main = "join"
  /\ ~Running(dataPointer)
  /\ list' = Tail(list)
  /\ heap' = heap \ {dataPointer}
  /\ main' = "accept"
  /\ UNCHANGED <<process, dataPointer, isDone, threadFD, fds, peak, threads, data, network>>

\* SLIST_REMOVE: what is before n on the list, and what is behind it.
Without(n) ==
  SubSeq(list, 1, IndexOf(n) - 1) \o SubSeq(list, IndexOf(n) + 1, Len(list))

\* pthread_join, SLIST_REMOVE, free and break.
Join ==
  /\ status = "running" /\ main = "join"
  /\ ~Running(dataPointer)
  /\ list' = Without(dataPointer)
  /\ heap' = heap \ {dataPointer}
  /\ main' = "accept"
  /\ UNCHANGED <<process, dataPointer, isDone, threadFD, fds, peak, threads, data, network>>

-----------------------------------------------------------------------------
(* threadHandler.                                                          *)

Goto(n, label) == pc' = [pc EXCEPT ![n] = label]

(***************************************************************************)
(* recv returns a chunk, which is scanned for a newline and joined with    *)
(* what came before; PacketReceive has the bytes of this step.  data_count *)
(* is left out: every thread adds to it and nothing reads it.              *)
(***************************************************************************)
Recv(n) ==
  LET c == threadFD[n] IN
  /\ pc[n] = "recv"
  /\ c # NULL
  /\ inbox[c] # << >>
  /\ inbox' = [inbox EXCEPT ![c] = Tail(@)]
  /\ got' = [got EXCEPT ![n] = Head(inbox[c])]
  /\ Goto(n, IF Head(inbox[c]) = "line" THEN "lock" ELSE "recv")
  /\ UNCHANGED <<process, lists, pos, reply, mutexLock, served, data,
                 backlog, peer, request>>

\* Fault: a connection that was closed is an error.
RecvEndFails(n) ==
  /\ pc[n] = "recv"
  /\ threadFD[n] # NULL
  /\ inbox[threadFD[n]] = << >>
  /\ peer[threadFD[n]] = "fin"
  /\ Ends("failed")
  /\ UNCHANGED data

\* recv returns 0: the client has closed its side.
RecvEnd(n) ==
  /\ pc[n] = "recv"
  /\ threadFD[n] # NULL
  /\ inbox[threadFD[n]] = << >>
  /\ peer[threadFD[n]] = "fin"
  /\ Goto(n, "lock")
  /\ UNCHANGED <<process, lists, got, pos, reply, mutexLock, served, data, network>>

\* recv fails, and exit(EXIT_FAILURE) ends the whole process.
RecvFails(n) ==
  /\ pc[n] = "recv"
  /\ \/ threadFD[n] = NULL
     \/ /\ threadFD[n] # NULL
        /\ inbox[threadFD[n]] = << >>
        /\ peer[threadFD[n]] = "reset"
  /\ Ends("failed")
  /\ UNCHANGED data

\* Fault: the lock is tried but not taken.
LockNotTaken(n) ==
  /\ pc[n] = "lock"
  /\ mutexLock = NULL
  /\ Goto(n, "open")
  /\ UNCHANGED <<process, lists, got, pos, reply, mutexLock, served, data,
                 network>>

Lock(n) ==
  /\ pc[n] = "lock"
  /\ mutexLock = NULL
  /\ mutexLock' = n
  /\ Goto(n, "open")
  /\ UNCHANGED <<process, lists, got, pos, reply, served, data, network>>

\* fopen fails when no descriptor is left; its NULL is then dereferenced.
OpenFails(n) ==
  /\ pc[n] = "open"
  /\ OpenFds >= limit
  /\ Ends("failed")
  /\ UNCHANGED data

(***************************************************************************)
(* External: a write of the packet of connection c.  Bytes are gathered    *)
(* until a newline comes; the device keeps the last N commands, a regular  *)
(* file all of them.                                                       *)
(***************************************************************************)
StoreWrite(c, line) ==
  LET bytes == Append(store.pending, c)
      all == Append(store.commands, bytes)
      kept == IF dataFile = "device" /\ Len(all) > N THEN Tail(all) ELSE all
  IN  IF line
      THEN /\ store' = [commands |-> kept, pending |-> << >>]
           /\ history' = Append(history, bytes)
      ELSE /\ store' = [store EXCEPT !.pending = bytes]
           /\ UNCHANGED history

\* External: what a read of dataFile returns, command by command.
Contents ==
  IF dataFile # "device" /\ store.pending # << >>
  THEN Append(store.commands, store.pending)
  ELSE store.commands

\* fopen, then fwrite and the flush and seek of rewind.
WritePacket(n) ==
  LET c == threadFD[n] IN
  /\ pc[n] = "open"
  /\ OpenFds < limit
  /\ ~request[c].seek
  /\ IF got[n] = "none"
     THEN UNCHANGED <<store, history>>
     ELSE StoreWrite(c, got[n] = "line")
  /\ pos' = [pos EXCEPT ![n] = 0]
  /\ Goto(n, "send")
  /\ UNCHANGED <<process, lists, got, reply, mutexLock, served, dataFile, network>>

(***************************************************************************)
(* fopen, then sscanf and the ioctl.  The position reached is anywhere in  *)
(* the commands: sscanf leaves the parameters uninitialised if they do not *)
(* parse, and an ioctl that is refused leaves the position at 0.           *)
(***************************************************************************)
SeekPacket(n) ==
  /\ pc[n] = "open"
  /\ OpenFds < limit
  /\ request[threadFD[n]].seek
  /\ \E start \in 0..Len(store.commands) :
       /\ dataFile # "device" => start = 0
       /\ pos' = [pos EXCEPT ![n] = start]
  /\ Goto(n, "send")
  /\ UNCHANGED <<process, lists, got, reply, mutexLock, served, data,
                 network>>

\* fread and send of one command, or an error of send, which is ignored.
Send(n) ==
  /\ pc[n] = "send"
  /\ pos[n] < Len(Contents)
  /\ peer[threadFD[n]] # "stalled"
  /\ reply' = [reply EXCEPT ![n] = Append(@, Contents[pos[n] + 1])]
  /\ pos' = [pos EXCEPT ![n] = @ + 1]
  /\ UNCHANGED <<process, lists, pc, got, mutexLock, served, data,
                 network>>

\* send to a connection that was reset raises SIGPIPE, which is not handled.
SendKills(n) ==
  /\ pc[n] = "send"
  /\ pos[n] < Len(Contents)
  /\ peer[threadFD[n]] = "reset"
  /\ Ends("failed")
  /\ UNCHANGED data

\* The end of the file: fclose, and the mark that main looks for.
Finish(n) ==
  /\ pc[n] = "send"
  /\ pos[n] >= Len(Contents)
  /\ isDone' = [isDone EXCEPT ![n] = TRUE]
  /\ Goto(n, "unlock")
  /\ UNCHANGED <<process, main, dataPointer, list, heap, threadFD, fds, peak, got, pos, reply, mutexLock, served, data, network>>

Unlock(n) ==
  /\ pc[n] = "unlock"
  /\ mutexLock' = NULL
  /\ served' = served \cup {threadFD[n]}
  /\ Goto(n, "returned")
  /\ UNCHANGED <<process, lists, got, pos, reply, data, network>>

-----------------------------------------------------------------------------
(* External: the clients.                                                  *)

Connect(c, r) ==
  /\ status = "running"
  /\ peer[c] = "none"
  /\ peer' = [peer EXCEPT ![c] = "open"]
  /\ request' = [request EXCEPT ![c] = r]
  /\ backlog' = Append(backlog, c)
  /\ UNCHANGED <<process, lists, threads, data, inbox>>

Deliver(c) ==
  /\ peer[c] = "open"
  /\ request[c].chunks # << >>
  /\ inbox' = [inbox EXCEPT ![c] = Append(@, Head(request[c].chunks))]
  /\ request' = [request EXCEPT ![c].chunks = Tail(@)]
  /\ UNCHANGED <<process, lists, threads, data, backlog, peer>>

(***************************************************************************)
(* A client that has sent everything closes its side, or stops reading its *)
(* reply; any client may be reset.  Once its thread has returned nothing   *)
(* looks at the connection any more.                                       *)
(***************************************************************************)
Turn(c, state) ==
  /\ peer[c] \in {"open", "fin"}
  /\ c \notin served
  /\ state # "reset" => request[c].chunks = << >>
  /\ peer' = [peer EXCEPT ![c] = state]
  /\ UNCHANGED <<process, lists, threads, data, backlog, request, inbox>>

Client(c) ==
  \/ \E r \in Requests : Connect(c, r)
  \/ Deliver(c)
  \/ \E state \in {"fin", "stalled", "reset"} : peer[c] # state /\ Turn(c, state)

-----------------------------------------------------------------------------
Main ==
  \/ \E n \in Nodes : Accept(n) \/ AcceptFails(n)
  \/ Create \/ Reap \/ Join

threadHandler(n) ==
  \/ Recv(n) \/ RecvEnd(n) \/ RecvFails(n)
  \/ Lock(n)
  \/ OpenFails(n) \/ WritePacket(n) \/ SeekPacket(n)
  \/ Send(n) \/ SendKills(n) \/ Finish(n) \/ Unlock(n)

Next ==
  \/ Start \/ signalHandler
  \/ Main
  \/ \E n \in Nodes : threadHandler(n)
  \/ \E c \in Conns : Client(c)

Spec == Init /\ [][Next]_vars

(***************************************************************************)
(* The threads of a running process run.  Clients owe nothing: they may    *)
(* be silent or never read.                                                *)
(***************************************************************************)
Fairness == WF_vars(Main) /\ \A n \in Nodes : WF_vars(threadHandler(n))

FairSpec == Spec /\ Fairness

-----------------------------------------------------------------------------
(* Properties.                                                             *)

(***************************************************************************)
(* The list and the heap agree: head holds every allocated node once, a    *)
(* thread that runs has its parameter allocated, and the pointer that the  *)
(* reaping loop follows is never one that was freed.                       *)
(***************************************************************************)
NodesLive ==
  /\ heap = {list[i] : i \in 1..Len(list)}
  /\ Cardinality(heap) = Len(list)
  /\ \A n \in Nodes : Running(n) => n \in heap
  /\ main \in {"reap", "join"} => dataPointer \in heap \cup {NULL}

(***************************************************************************)
(* The main thread waits in pthread_join only for a thread that has        *)
(* nothing left to do but to unlock and return, never for a client.        *)
(***************************************************************************)
JoinIsShort ==
  status = "running" /\ main = "join" => pc[dataPointer] \in {"unlock", "returned"}

(***************************************************************************)
(* Reaping one thread per accept is enough: between two connections the    *)
(* list is never longer than the number of connections that were           *)
(* unfinished at one time, however many were served.                       *)
(***************************************************************************)
ListBounded == main = "accept" => Len(list) <= peak

\* Where the packet of connection c ends a command in the history.
Own(c) == {i \in 1..Len(history) : history[i][Len(history[i])] = c}

\* The commands that dataFile keeps when the i-th of the history is the last.
Window(i) ==
  IF dataFile = "device" /\ i > N THEN SubSeq(history, i - N + 1, i)
                                  ELSE SubSeq(history, 1, i)

(***************************************************************************)
(* The reply to a packet is the contents of dataFile right after that      *)
(* packet was written: the packets of other connections are in it whole    *)
(* and in order, or not at all, and its own is the last one.  mutexLock    *)
(* has to cover the write and every send for this.                         *)
(***************************************************************************)
ReplyIsLog ==
  \A n \in Nodes :
    LET c == threadFD[n] IN
    /\ pc[n] \in {"unlock", "returned"}
    /\ got[n] = "line"
    /\ ~request[c].seek
    => \E i \in Own(c) : reply[n] = Window(i)

(***************************************************************************)
(* The process fails only when one of the connections it has accepted was  *)
(* reset, or when the descriptors it never closes have used up its limit.  *)
(* A client that connects and closes without a newline, or without a byte, *)
(* does no harm.                                                           *)
(***************************************************************************)
FailsOnlyOn ==
  [][status = "running" /\ status' = "failed" =>
       \/ \E c \in fds : peer[c] = "reset"
       \/ Cardinality(fds) + 1 >= limit]_vars

\* The client of connection c has sent all that the server waits for.
Asked(c) == peer[c] = "fin" \/ "line" \in {inbox[c][i] : i \in 1..Len(inbox[c])}

\* pthread_create has failed for connection c.
Forgotten(c) ==
  \E n \in heap : threadFD[n] = c /\ pc[n] = "none" /\ ~(main = "create" /\ dataPointer = n)

(***************************************************************************)
(* A client that has sent its packet or closed its side is answered, even  *)
(* though others stay silent for ever: unless the process ends, the thread *)
(* could not be created, or some client does not read its reply (send then *)
(* blocks with mutexLock held).                                            *)
(***************************************************************************)
Answered ==
  \A c \in Conns :
    status = "running" /\ Asked(c) ~>
      \/ c \in served \/ Forgotten(c)
      \/ status # "running"
      \/ \E d \in Conns : peer[d] = "stalled"
=============================================================================
