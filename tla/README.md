# A verification project for the AESD assignments repository

The repository holds a Linux character driver that keeps the last commands
written to it (`aesd-char-driver/`), a TCP server that appends packets to that
device and sends the log back (`server/`), scripts that load the one and start
the other, and small course examples around them. This directory holds TLA+
models of all of these, TLC configurations that check them, and TLAPS proofs.

## Inventory

| Part | State | Operations | Hard behaviour |
|---|---|---|---|
| circular buffer (`aesd-circular-buffer.c/.h`) | ring of 10 entries, `in_offs`, `out_offs`, `full` | init, add_entry, find_entry_offset_for_fpos | empty and full have equal offsets; 8-bit offsets wrap; "any necessary locking must be performed by caller" |
| aesdchar driver (`main.c`, `aesdchar.h`, `aesd_ioctl.h`) | the buffer, `mx_lock`, `tmp_buf`/`tmp_size` (bytes that wait for a newline), `buffer_size`, the kernel heap, `f_pos` of each open file | open, release, read, write, llseek, ioctl(IOCSEEKTO), module init and cleanup | write and ioctl lock, read and llseek do not; allocation and copy failures; ownership of memory through eviction |
| aesdsocket server (`server/aesdsocket.c`, SLIST of `queue.h`) | list of connection nodes, one thread per connection, `mutexLock`, the packet and the data file | accept loop, thread handler, signal handler | unlocked `isDone`, reaping, process-wide exits, slow or vanished clients, restart; string handling across `recv` chunks; uninitialised seek parameters |
| threading example | `thread_data` per thread, a mutex | start_thread_obtaining_mutex, threadfunc | who frees `thread_data` on each path |
| systemcalls example | child processes, the stdio buffer they inherit | do_system, do_exec, do_exec_redirect | failure between fork and exec; an interrupted wait |
| finder-app | files | writer, finder, finder-test | errors that `writer` does not see |
| scripts (`aesdchar_load`, `aesdchar_unload`, `aesdsocket-start-stop.sh`, `init`) | the module, the node in `/dev`, the process | load, unload, start, stop, restart | the server makes and unlinks what the load script makes; each script is several steps |

How they interact: a client's packet goes over TCP to a server thread, which
under `mutexLock` opens `/dev/aesdchar`, writes the packet (or issues
`AESDCHAR_IOCSEEKTO`), and reads the device to its end, sending what it reads.
Writes and seeks reach `aesd_write` and `aesd_ioctl`, which take `mx_lock`; reads
reach `aesd_read`, which takes none. Any other process may use the device at the
same time. `AesdChar` has several concurrent clients for that reason.
`ServerDevice` composes it with the server's handlers: there the clients are threads,
and `mutexLock` is all that orders their calls. What is at `/dev/aesdchar` is shared by
the scripts and the server, which is `DeviceNode`. The examples stand alone.

What makes the parts correct: the buffer is a log of its last N entries and
hands back exactly the memory it drops; the driver never loses, shares or
doubly frees a block, holds its lock exactly inside its critical sections, finds
the byte at a position, and to its writers looks like an atomic device of N
commands; the server never touches a freed node, never waits for a silent
client while others ask, puts a packet together from any chunks, and answers
it with the log as it was right after that packet; the scripts leave a node that
leads to the loaded module; a thread's data always has one owner; a call that runs a
command returns its result, prints nothing twice and leaves nothing behind.

## Modules

| Module | Models |
|---|---|
| `BoundedLog` | abstract: a log of the last N entries that returns what it drops |
| `CircularBuffer` | the three functions of the buffer as operators on a record, plus the log that a record stands for (`LogOf`) |
| `CircularBufferLog` | the buffer as a component, and its refinement of `BoundedLog` |
| `CircularBufferLemmas`, `CircularBufferProofs` | what the operators do to each field and to the log; the theorems on the component |
| `CommandDevice` | abstract: a device that gathers bytes to a newline and keeps N commands |
| `AesdChar` | the driver: every file operation, step by step, and the module's life |
| `MCAesdChar` | constants and symmetry for TLC, and a full buffer as a second initial state |
| `AesdCharProofs` | the inductive invariants of the driver and its theorems |
| `AesdSocket`, `MCAesdSocket`, `AesdSocketProofs` | the server: main thread, handler threads, signals; its TLC constants; its theorems |
| `PacketReceive`, `MCPacketReceive`, `PacketReceiveProofs` | the receive loop of one handler thread, with its bytes and memory |
| `ServerDevice`, `MCServerDevice`, `ServerDeviceProofs` | composition: the locked part of the handler threads over the steps of `AesdChar`, with the bytes; its theorems |
| `DeviceNode`, `DeviceNodeProofs` | `/dev/aesdchar` between the load, unload and start-stop scripts and the server |
| `Threading` | `threading.c` and the program that joins its threads |
| `SystemCalls` | `systemcalls.c`: parent, child and the stdio buffer between them |
| `FinderApp` | `finder-test.sh` with `writer.c` and `finder.sh` |
| `MCExamples`, `ExamplesProofs` | the last three and `DeviceNode` for TLC, one per behaviour; the theorems on the last three |

Operators whose comment begins with *Fault* are plausible bugs of the
definition that follows them. They are in no specification; each is substituted for that
definition to see that a property notices.

### CircularBuffer

`entry`, `in_offs`, `out_offs` and `full` are the fields of the C structure.
`add_entry` is composed of `AdvanceOut`, `StoreEntry` and `AdvanceIn`, in the order of
the C stores, so that the driver can take them one at a time. `find_entry` is
the do-while search written with two recursive functions, the slot and the running
total of each iteration. `Inc8` keeps the 8-bit width. The fields `offset` of an entry and `size` of the
buffer are not modelled: no function assigns or reads them.

### AesdChar

Bytes are abstracted to their number and to whether a newline is among them
(`tmp_nl`), memory to allocations and their sizes (`heap`). Every client has one
open file and makes one call at a time; `frame` holds the locals of its call.
The grain follows what concurrent callers can see:

- `aesd_read` is a step per load: each iteration of the search (`ReadFind`),
  the length (`ReadLength`, with unsigned wrap-around), the copy (`ReadCopy`). The
  loop test reads `in_offs`, and the compiler may load it once or in each
  iteration; both are allowed (`load`).
- `aesd_write` up to the newline test is one step (`WriteCopy`): nothing that it
  changes is read outside the lock. Eviction and the stores of `add_entry` are steps of their own, since readers see them.
  `buffer_size += retval`, after the unlock, is a load and a store.
- `aesd_ioctl` is the lock, one step per loop iteration, and the tail.

Error paths kept: a NULL buffer, an interrupted wait for the lock, `krealloc`/`kmalloc`
failure (returns with `mx_lock` held), a partial `copy_from_user`, a failing
`copy_to_user`, every `-EINVAL` of llseek and ioctl, a failing `cdev_add`. `write_cmd = N` passes
the range check; `entry[N]` overlays the fields behind the array, its
`size` is the never assigned `size` field, 0, and the seek is refused.

Assumed of the environment: an offset's increment with its wrap-around, and the words of
an entry, become visible together; stores become visible in program order. That
is how x86 shows what compilers make of this code. The repository is also built for arm64, which may reorder
the stores; what is said about an unlocked read (`ReadSafeUntilFull`) does not
carry over to it. Properties of the locked operations do.

### AesdSocket

A thread is named by its list node, which is its argument. A packet is
named by its connection, and a chunk is what one `recv` returns, with or without
the newline. The main thread is at `accept`, `create` (the node is on the list, the
thread not yet started), `reap` (one step per list element, since `isDone` is read without a lock) or
`join`. A handler is at `recv`, `lock`, `open`, `send`, `unlock` or `returned`. `fds` never
shrinks: the code closes no connection. `Without` is the `SLIST_REMOVE` of a node from the middle of the list. `data_count` is left out: threads update it without
a lock, but nothing reads it. External and modelled from use: the
device (the last N commands, as `CommandDevice` has it), the regular file that
takes its place after an unlink, and the clients, who may send in pieces, close,
be reset, stay silent, or stop reading.

The model has four ways for the process to end: the signal handler, `exit` after a failed
`recv`, SIGPIPE in `send`, and the NULL of a failed `fopen`. `malloc` in
user space is not assumed to fail. `exitFunction` is never called. The build
without `USE_AESD_CHAR_DEVICE` does not compile (`timerThread`, line 317).

### PacketReceive

The bytes that `AesdSocket` abstracts: text, newline, NUL. `rest` is cut by `recv`
in any way. `Scan` is the value of `i` behind the loop, which is `BUFFER_SIZE`
whenever there is no newline; `Limit` is the `i + 1` of `strncat`, `Room` the size that
`realloc` is asked for. The byte behind the array `buffer`, which `strncat` reaches when a chunk
without newline and NUL fills it, is any byte. `overread` and `overrun`
record that a byte was read behind `buffer` or written behind the block. The
properties say what holds around them: a packet whose chunks never fill the buffer comes out as it was sent;
with bytes behind the newline it has one byte more, and that byte is the only one for which
the block may be too small.

### ServerDevice

`stage` is where a thread is in the locked part of `threadHandler`; each stage starts a call
of `AesdChar`, whose steps then run by themselves. A byte is the number of the packet that
brought it, `bytes` the content of the driver's blocks, and `log` what the commands should be.
stdio is modelled by the system calls it makes: `fwrite` gathers, `rewind` writes and
seeks, `fread` fills its buffer, `fclose` releases. `SeekParams` are the values
`seek_params` may have after `sscanf`: the integers it found (`Int32`), as `uint32_t`, and garbage for the rest. The driver's
allocation and copy failures are left to `AesdChar`'s own runs.

### DeviceNode

A node is absent, a regular file, or a character device with the major
number it was made for. The load script is `insmod` or `modprobe`, `rm`, `mknod`, and `chgrp` with `chmod`, each a
step that may fail, ending the script (`set -e`); unload is `rmmod`, `rm`. On a loaded module `insmod` fails and
nothing changes, but `modprobe`, which the script uses when no `aesdchar.ko` lies next to it, ends with 0, and the
script makes the node again (`ModprobeLoaded`). `chgrp` fails when the node is gone or the group does not exist:
the script takes `wheel` without looking when there is no `staff` (`group`). The server creates a regular file
where nothing is (`creat`, `fopen`), dies of the NULL that a stale node gives, and unlinks the
node when it is stopped. Reboots and a manual `rmmod` are not in the model.

### Threading, SystemCalls, FinderApp

`Threading` has the program as a joiner and as another user of the mutex. `SystemCalls` gives each process a
standard output and a stdio buffer, because `fork` copies the buffer and
`exit` writes it: a child that cannot start its command prints the parent's pending lines again. `status` after
an interrupted `waitpid` is any value.

`FinderApp` has a disk on which directories, files, removals, writes and flushes fail. A flush that fails leaves
the string cut off, or whole without its newline, which `grep` does not mind. `finder.sh` uses WRITESTR as a
regular expression, so a string is modelled by the number of lines that it matches in a whole, a bare and a
cut-off file of its own; `Plain` is a string like the default, one line that matches itself. `Matches` is what
`grep "${MATCHSTR}"` finds: the number of files exactly, but of the number of lines a prefix, so that ten lines pass for one.
The script says Success even if `/tmp/assignment4-result.txt` cannot be written (`set +e`), and `VerdictExact` names both that
and the newline as exceptions. What is on the disk can be read; NUMFILES is a number.

## Runs

| Run | Question |
|---|---|
| `buffer_log` | Does the buffer keep its shape, does the search agree with indexing the concatenation, is it a bounded log? N = 3, entries of length 0, 1 and 2 |
| `driver_readers` | Two clients write, read and seek at once while the buffer (N = 2) fills and wraps, calls fail, and the module is reloaded |
| `driver_sequential` | One client, N = 3, writes of 0 or 2 bytes: is every byte read the right one, in the wrapped buffer too, and does IOCSEEKTO land where it should until then? |
| `driver_calls` | Two clients read, write and issue IOCSEEKTO at once, on an empty and on a full buffer: is the lock released on every exit, and does every call end? |
| `read_race` (violation) | A read copies from a block that a concurrent write has freed |
| `seek_wrapped` (violation) | IOCSEEKTO in a wrapped buffer lands in another command |
| `server_threads` | Three connections, N = 2, room for three or four descriptors, a restart: nodes, list, joins, replies, and what can end the process |
| `server_requests` | Two connections with chunked, partial, empty and seek packets: does any of them end the process, and is a client answered though another is silent? |
| `server_device` | Two threads over the driver, N = 2, four packets: does `mutexLock` keep reads off freed memory, is the reply the log byte by byte, where does a seek packet land? |
| `packet_receive` | Every stream of up to 7 bytes, `BUFFER_SIZE` = 3: is the packet put together right, and does it fit? |
| `examples` | Three threads and their caller; two calls that run commands, with two printed lines; a finder test of up to three files; scripts and server around `/dev/aesdchar`, two major numbers: is the device reached, when does a load fail, when does the server crash? |
| `threading_joined` (violation) | When all threads have been joined, is their data free? Not that of a thread which could not lock |

**Bounds.** Two slots are the fewest in which wrapped and unwrapped orders
differ, three make N no power of two. `MaxWrites` is at least N + 1 wherever the
buffer is to wrap, and N + 2 where a read has to span a second eviction. `Ptr` has one
address per slot and one or two more, so that freed addresses are used again and a block
may move. `driver_calls` makes two writes, but starts with a full buffer too, so that both evict; `CallsEnd`
does not profit from their being few, since it excuses a reader by what the writers do and not by their stopping. `MaxPos` only cuts off positions past the data. `SIZE_MOD` = 64 is above any size that occurs, so a
wrapped length is always too large for its block. Server: as many connections as fill and overflow
the device; the limits in `FdLimits` are equal to that number or above it. In `server_device` four packets fill the two slots, evict twice
or leave a partial command behind; the seeks include the end of a command, an index and a negative offset out of range, and one or two missing numbers;
`UINT_MOD` is above every valid value. A buffer of three bytes and streams of seven
allow three chunks, a full one among them, and bytes behind the newline. `DeviceNode` has no bound but its two major numbers: scripts and server run for ever. Two calls suffice for
a child that outlives its interrupted call and meets the next one. Clients,
addresses, connections and nodes are symmetric; the liveness runs use no symmetry. The strings of `FinderApp` are
a plain one, one that does not match itself and one of ten lines, the fewest that show the prefix. The runs of the server and of the examples do not check
for deadlock, since processes end there.

**Fairness.** Driver: weak on the steps of a call that has begun, strong on getting
`mx_lock`, because the kernel's mutex hands over to a waiter that keeps losing.
Nobody has to call, signal or unload. A failed allocation leaves the lock held
for ever, so `CallsEnd` excludes that. It also excludes a read whose loop loads `in_offs` in each iteration while writers keep moving it: such a
read can follow the slots that they clear, round the buffer and for ever, if they never pause; it has to end when `in_offs` stays where it is. Server: weak on the main thread and on each handler; a
finite number of connections compete for `mutexLock`. Clients owe nothing. `Answered` names what excuses the
server: its end, a failed `pthread_create`, and a client that
stops reading, because `send` blocks with `mutexLock` held. Threading: weak on each thread, strong on getting
the mutex among finitely many users, and the caller releases it when it holds it. SystemCalls: weak on the child up to `execv` and on
the parent's wait; a command that runs owes nothing, which `CallsReturn` grants it.

**What the violations show.** Each states a line of the repository and is refuted by
what the code does; PROJECT.json quotes the lines. More facts came
out of the passing runs. A read that begins on an *empty* device while
writes fill it may take a later command for the first (`ReadSafeUntilFull`
excludes exactly that case). And the server ends by itself once as many connections
as it has descriptors were made, whoever made them (`FailsOnlyOn`). An offset equal to a
command's length is accepted and lands on the next command (`SeekReply`). A chunk that fills the receive buffer
without a newline may add a byte that nobody sent (`PacketWhole`). After a stop of the server the
node is gone, and neither a start nor a load with `insmod` brings it back until the module is unloaded; a load with `modprobe` does (`DeviceReached`).
Without a group `staff` or `wheel` a load leaves a good node and ends with an error (`LoadFailsOnlyOnRace`).
A redirected command that cannot be executed leaves the caller's pending output in its file (`LinesOnce`).

## Proofs

TLAPS proves every safety invariant and every action property that the passing runs check; among them are two refinements.
Some have a hypothesis, `[]Alone` or `CommandsFit`, which is explained below the table. The theorems hold for every number of
slots (1..255), clients, addresses, connections, list nodes, descriptors, major numbers, threads,
calls, printed lines and files, and for all sets of inputs.

| Theorem | Statement |
|---|---|
| `BufferShape`, `BufferSearch` | `Spec => []Shape`, `Spec => []FindMatchesConcatenation` of the buffer |
| `BufferImplementsLog` | the buffer implements `BoundedLog` |
| `DriverTypes`, `DriverLock`, `DriverOccupancy`, `DriverOwnership` | `TypeOK`, `LockHeldInside`, `Occupancy`, `Ownership` of the driver |
| `DriverImplementsDevice` | the driver implements `CommandDevice` (`CommandSpec`) |
| `DriverLeaks`, `DriverRefusedSeek` | the action properties `LeaksOnlyOnFaults`, `FailedSeekKeepsPosition` |
| `DriverReadsUntilFull`, `DriverSeeksUntilFull`, `DriverSeekEnd` | `ReadSafeUntilFull`, `SeekExactUntilFull`, `SeekEndWithinData`, for any number of clients |
| `DriverReadsAlone`, `DriverMemoryAlone`, `DriverSeekEndAlone` | `ReadsRightByte`, `ReadsLiveMemory`, `SeekEndExact`, with one client at a time (`Spec /\ []Alone`) |
| `ServerNodes`, `ServerJoin`, `ServerList`, `ServerReply`, `ServerFailures` | `NodesLive`, `JoinIsShort`, `ListBounded`, `ReplyIsLog`, `FailsOnlyOn` |
| `ServerUsesDriver`, `ServerAlone` | `SystemSpec => Spec` of the driver; `SystemSpec => []Alone` |
| `ServerReadsLiveMemory`, `ServerReadsRightByte` | `ReadsLiveMemory`, `ReadsRightByte` for any number of server threads, with no further hypothesis |
| `ServerReplies`, `ServerRepliesRest` | `ReplyIsWholeLog`; every reply, to a seek too, is an end of what the device kept |
| `ServerSeekReply` | `CommandsFit => SeekReply` always: a seek's reply starts at the byte the text asks for, until a command was dropped |
| `ServerLosesNothing` | `NothingLost`: under the server every allocated block is at `tmp_buf` or in the ring, while `kmalloc` succeeds |
| `ServerOnDevice` | the driver below the server implements `CommandDevice` |
| `PacketIsWhole`, `PacketRoom`, `PacketIsPrefix` | `PacketWhole`, `RoomForString`, `OneByteMore` |
| `NodeReached`, `LoadFailure`, `CrashWhileUnloading` | `DeviceReached`, `LoadFailsOnlyOnRace`, `CrashOnlyWhileUnloading` |
| `ThreadData`, `ThreadSuccess` | `DataOwned`, `SuccessIsReal` |
| `CallIsOver`, `CallOutput`, `CallLines` | `ReturnsWhenOver`, `OutputGoesToFile`, `LinesOnce` |
| `FinderVerdict` | `VerdictExact` |

Assumptions, all of them named and evaluated by TLC in the runs: `NAssumption` (N in 1..255), `EntryAssumption`, `ClientAssumption` (NULL and
ZERO_SIZE_PTR are no addresses), `InputAssumption` (counts and offsets are numbers), `ServerAssumption`,
`PacketAssumption` (what a packet is; the numbers in it are of type `int`, and N is at most half of `UINT_MOD`, which is 2^32 in the code), `CallAssumption` (the calls that the server makes are among the inputs of the driver's
model), `StreamAssumption`, `ThreadAssumption`, `BoundAssumption` (the bounds of the examples and the fields of a string are numbers). None of them
bounds the number of threads, packets or bytes. Three theorems of the driver have `[]Alone` as a hypothesis: never do two clients have the device open
at once. `driver_sequential` has one client, hence that setting; that `ReadsLiveMemory` fails without it is what `read_race` shows; and `ServerAlone` proves it
of the server, whatever the number of its threads. `CommandsFit` says that every command is shorter than half of `UINT_MOD`, 2^31 bytes: `sscanf` stores an `int`
in a `uint32_t`, and -1 would be a valid offset into a command of 2^32 - 1 bytes. `kmalloc` has no such block to give.

*The buffer.* `TypeOK /\ Shape` is inductive. The refinement rests on
`LogOfAdd`: `LogOf(add_entry(b, e))` is `LogOf(b)` with `e` appended and, if
`b` was full, its head dropped. Offsets are compared and subtracted
(`SlotOf`), never divided, so the arithmetic is linear.

*The search.* `find_entry` is made of two recursive functions on `0..N`, and the provers cannot use an induction rule that takes a predicate.
`CircularBufferLemmas` therefore states induction for a *set* (`Induction`: a set that has 0 and is closed under successor
below N has all of `0..N`), which follows from the least element of its complement. With it: what the k-th iteration has visited
and counted (`SlotFn`, `TotalFn`), that the totals grow, and that the first
iteration that hits is the one whose entry spans the position. `BufferSearch` compares that with
the concatenation, position by position; the driver's proofs use the same lemmas.

*The driver.* None of the invariants is inductive. `AesdCharProofs` uses
`IInv`, in layers that are proved one after the other, each assuming the earlier ones:

1. `TypeInv`: the types, and `SearchBehind`, that a search has not counted
   more bytes than the file's position (so that its subtraction is a natural number);
2. `LockInv`: `LockHeldInside`, and that no client has a file of a module that is not loaded;
3. `DataInv`: `OffsetsInv` (both offsets move together once the buffer is full; in between, by
   the phase the writer is in), `EntriesInv` (slots in use hold blocks that are allocated,
   long enough and not shared) and `PendingInv` (the same for `tmp_buf`). `Phase` says
   which stores of an eviction and an addition have been made, and `InUse` and `Live` say
   which slots count in each phase: between `kfree` and the store of the new entry one slot
   holds a dangling pointer on purpose;
4. `LostInv`: after a failed allocation the lock stays held, which is why the NULL at
   `tmp_buf` with `tmp_size > 0` is never dereferenced.

The lock layer makes the data layer go through: at most one client is in a
locked phase, so the phase is a property of the device. The other results each add an invariant on top of `IInv`:

- *Leaks and refused seeks* (`FaultInv`): a failed allocation stops every locked step, an unloaded module
  has no entries in use, and a seek whose loop broke off stands before an empty slot.
- *Refinement* (`SettledIs`): the abstract commands are the sizes of the buffer as it will be when the writer under the lock is
  done, and the abstract write happens at `WriteCopy`; eviction and the three stores leave `Settled` as it is.
- *Reads until the buffer is full* (`ReadInv`): `in_offs` only grows and entries below it never change, so what an unlocked search has counted stays right.
  The hypothesis that the device held a command when the search began is needed: the proof breaks
  exactly where an empty device is filled under the search.
- *Seeks* (`LoopInv`): the loop has added up the entries before its index.
- *One client at a time* (`AloneInv`, under `Alone`): the search is at the k-th slot of `SlotFn` with the total of `TotalFn`, in the wrapped buffer too.
- *SEEK_END* (`SizeInv`): `buffer_size`, and each value that a write has loaded of it, plus what all writes in flight have still to
  add is at most what the device holds. The sum is over a set of clients that changes; `SumsTo` has it along an enumeration, with lemmas
  for adding, removing and changing one client. Under `Alone` `ExactInv` has equality.

*The server.* `AesdSocketProofs.IInv`: the list holds each allocated node once (`ListIsHeap`); running threads and the
main thread's pointer are on it (`PointersLive`); while the list is too long a finished node lies ahead of the reaping loop (`ReapPays`, the reason
why one pass per accept is enough); a node without a descriptor says that they are used up (`Descriptors`); what
the file holds is the end of the history (`StoreIsWindow`), and a reply is a prefix of it that grows under the lock (`ReplyGrows`).

*Server over driver.* `ServerDeviceProofs` puts the pieces together, in layers. `SessionInv` relates the stage of a thread to where it is in the driver and to
`mutexLock`; it makes every step of `SystemNext` a step of the driver's `Next` (`SystemIsDriver`) and gives `Alone`, so that all of `AesdCharProofs` holds
below the server. `BytesInv` says that the k-th entry of the ring as it will be (`Settled`) has the bytes of the k-th kept command, and `tmp_buf` the ones
that wait for a newline; a write changes both at one instant, and `Ownership` keeps every later `kfree` and `krealloc` off the other blocks. `ReplyInv` says that
a thread has sent the kept bytes from its first position up to its file's position. A read copies the right entry (`AloneInv`), hence sends on the
next bytes (`SendStep`), and returns 0 only behind the data, hence nothing is missing (`EndStep`). No other thread can add to
the log in between, since the first one holds `mutexLock`.

*Seeks under the server.* The position at which a reply starts is part of `ReplyInv` (`Right`): 0 after a write, `Target` after a seek with both numbers while the log has at most N
commands. `SeeksInv` leads to it. The oldest command is in slot 0 until one is dropped (`FirstAtZero`): `aesd_ioctl` counts slots from 0, and here that is
the k-th command of the log, also when the last slot has just been filled and `LoopInv` of the driver says nothing any more. The loop has added up the lengths of the commands before its index
(`LoopCounts`), and the log cannot grow under it. `Target` is in terms of the numbers that the driver gets; `TargetIsStart` shows that they name a byte
exactly when the numbers in the text do, a negative one becoming larger than every index and, by `CommandsFit`, every length.

*Memory under the server.* `MemoryInv` adds to `NothingLost` that `tmp_buf` has no block while no bytes wait, for which the server's packets must be copied
whole; with `LeaksOnlyOnFaults`, whose other exceptions are a failed allocation and a reload, it is inductive.

*Packets.* `rest` is the end of what was sent (`Position`), no newline has been consumed and `j` counts at least what was kept (`Receiving`).

*The node.* A node that does not open exists only between `rmmod` and `rm` (`StaleNode`), hence a load meets none of an older major number.

*Examples.* `ExamplesProofs` and `DeviceNodeProofs` extend `MCExamples`, so that `S!Spec`, `F!Spec` and `D!Spec` are the specifications that TLC explores there. Threading: a block has one owner, and there are as many
blocks without one as threads that lost theirs. SystemCalls: what is in a stdio buffer are distinct lines of the program (`OwnLines`), a child's buffer is a
copy of its parent's at the fork, and each line's copies on the terminal and in the parent's buffer are one more than the failed children that had it. FinderApp: files below `next` are written and one of them is
cut off exactly if a string was lost unnoticed; with a plain string the matching lines are at most NUMFILES, and a number that is not greater than another one begins with
its digits only if they are equal (`PrefixExact`).

*Left to TLC.* Liveness (`CallsEnd`, `Answered`, `ThreadsReturn`, `CallsReturn`), which needs fairness and ENABLED. The three expected
violations.

## Not modelled

- `exitFunction` (never called) and the server's build for a regular file (does not compile).
- `queue.h` beyond the macros used, and `writer.sh`, which nothing calls.
- `src/init`, which starts modules that are not in the repository.
- Image build scripts, CI and test harness: command lists without state. The
  validation example returns constants.

## Plan

1. Done: the buffer, the driver, the server, their composition, the scripts and the examples; the theorems above.
2. If the code changes: a lock in `aesd_read` would make `read_race` pass and the hypothesis `Alone` of the driver's theorems unnecessary; a loop in `aesd_ioctl` that
   starts at `out_offs` would make `seek_wrapped` pass and remove `seen[c] <= N` from `SeekReply`;
   a `threadfunc` that returns its parameter after a failed lock would make `threading_joined` pass and leave `DataOwned` as it is.
