# Kongja Express in TLA+

Kongja Express is a small C framework for protocol programs on Linux: tasks
(one thread and one libev loop each) that exchange messages, timers and file
descriptor watchers, TCP and UDP sockets, streams, a command line, Modbus
masters and slaves built from these parts, and a JSON configuration. The
modules in this directory specify it, TLC checks them on small instances, and
TLAPS proves the most important facts for every value of the constants.
`PROJECT.json` maps each definition to the lines it stands for.

Paths below are relative to `src/` of the repository where they begin with
`inc/` or `libev/`, and to `src/src/` otherwise.

## 1. Inventory

### Components, their state and their operations

| Component | State | Operations | Modules |
|---|---|---|---|
| Task framework, `core/task.c`, exercised by `main.c` | per task: thread, message list, counter, mutex, `ev_async` | `task_run`, `task_notify`, the wake-up callback | `TaskQueue`, `Mailbox` |
| Watcher, `core/watcher.c` | flags, one `ev_io` per direction | watch / no-watch rx, tx, err; start, stop; callback | `Watcher`, `WatcherSpec` |
| libev, descriptors, `libev/libev/ev.c`, `ev_epoll.c`, `ev_poll.c`, `ev_select.c` | per descriptor its `ev_io`, event masks, a generation; the list of changes; pending events; what the kernel keeps | `ev_io_start`, `ev_io_stop`, `fd_reify`, one poll per backend, `ev_invoke_pending` | `LibevIo`, `LibevWatcher` |
| libev, loop and timers, `ev.c`, with `core/task_timer.c` | heap of timers, the flags of `ev_async_send`, the eventfd, the clock | `ev_run`, `ev_async_send`, `pipecb`, timer start, stop and expiry | `LibevLoop` |
| Circular buffer, `utils/circ_buffer.c` | array, `begin`, `end`, `data_size` | put, get, peek, advance, reset | `CircBuffer`, `CircBufferSpec`, `ByteQueue` |
| Stream, `stream/stream.c` | circular buffer, watcher, descriptor | start, write, deinit; read, write and error events | `Stream` |
| UDP socket, `net/udp_socket.c` | watcher, address length | init, start, stop, deinit, send; rx, tx and error events | `UdpSocket` |
| TCP servers, `net/tcp_server*.c`, with `demo/tcp_server_test.c` | descriptor, `is_listening`, watcher; the demo's timer | init of both kinds, start, stop, accept | `TcpServer`, `ModbusTcpSlave` |
| TCP connector and auto connector, `net/tcp_connector.c`, `net/tcp_auto_connector.c`, with `demo/tcp_client_test.c` | descriptor, in-progress flag, watcher, two timers, state | start, stop; connect event, attempt timeout, wait timeout | `AutoConnector`, `TcpClient` |
| Item pool and log, `core/item_pool.c`, `core/log.c` | free list, mutex, the logger's queue | get, put, notify; `log_write`; print handler | `ItemPool` |
| Linked lists, `inc/list.h` | `next` and `prev` of every node | add, delete, move, replace, rotate, cut, splice | `ListHead`, `ListSpec` |
| Request queue, `utils/request_queue.c` | a list per priority, `num_reqs` | submit, schedule, reset; accept and cancel callbacks | `RequestQueue` |
| Hash table and string buffer, `utils/bhash.c`, `utils/sbuf.c` | buckets; bytes and two indices | lookup, add, delete; write and read of integers | `HashTable`, `StringBuffer` |
| Configuration reader and JSON, `utils/config_reader.c`, `utils/cJSON.c` | the tree, the fields; cells of items | parse, print, load by path; add, insert, replace, detach, duplicate, delete | `Json`, `ConfigReader`, `JsonTree` |
| Modbus TCP master and MBAP reader, `modbus_tcp_master.c`, `mbap_reader.c` | connection state, transaction id, last request, reader | start, stop, request; connector, stream and frame callbacks | `ModbusTcpMaster` |
| Modbus TCP slave, `modbus_tcp_slave.c`, `mbap_reader.c` | listening flag, list of connections, a reader each | start, accept, stream events, frame, stop | `ModbusTcpSlave` |
| Modbus RTU slave, `modbus_rtu_slave.c` | buffer, frame timer, stream | read, timeout, start, stop | `RtuSlave` |
| Modbus request handlers, `modbus_func_*.c`, `modbus_rtu_request_handler.c` | the user's coils and registers | read and write coils, registers, inputs | `ModbusHandlers` |
| Modbus master requests and responses, `modbus_master.c`, `modbus_rtu_response_handler.c` | last request | encode, validate, call back | `ModbusExchange` |
| Telnet reader and command line, `telnet_reader.c`, `cli/*.c` | option state, line buffer, connections and their memory | receive, execute, accept, close | `CliServer` |

Section 6 lists what is not modelled and why.

### How they interact

Threads meet only in three places: the message queue of a task and the item
pool, each a list under a mutex, and `ev_async_send`, which has no lock.
Everything else runs on one loop, and what interleaves there is callbacks:
libev polls, queues the events of all descriptors and timers that are ready,
and delivers them one by one. A callback may stop, free or restart an object
that has another event queued in the same round. The connector calls its user,
the stream calls its user, the MBAP reader calls the user for each frame, the
request queue calls the user in the middle of its own loops, and each of these
users may call back into the object that is calling it.

The models are stacked the same way. What one promises, the next one assumes:

    LibevLoop    ->  the wake-up of TaskQueue     ->  Mailbox  ->  ItemPool
    LibevWatcher ->  WatcherSpec, its operators   ->  Stream, AutoConnector, UdpSocket, TcpServer
    CircBufferSpec -> ByteQueue;  ListHead -> ListSpec
    AutoConnector, Stream -> ModbusTcpMaster;  Json -> ConfigReader

### What is hard, and the properties that make each part correct

* **Tasks.** Senders append while the receiver cuts the list; the wake-up is
  outside the mutex and libev compresses wake-ups. The counter agrees with the
  list whenever the mutex is free (`CountMatchesQueue`), a queued message always
  has a wake-up on its way (`NoLostWakeup`), and messages are neither lost,
  repeated nor reordered, and are handled: the abstract mailbox with its
  liveness (`ImplementsMailbox`).
* **Loop of libev.** `evpipe_write` and `ev_run` agree over four variables
  without a lock. No notification is slept over (`WakeupOutstanding`), each is
  delivered (`SentIsDelivered`); the loop does not sleep past a timer, whatever
  was removed from the middle of its heap (`NeverOversleeps`), and timers that
  expire together run in order (`TimersInOrder`).
* **Watchers on libev.** Any order of calls, before and after start; descriptors
  that are closed, reused, taken over by another watcher, or held by a child
  process too. Never a callback for what was stopped, even when the event was
  already queued (`OnlyWatchedDelivered`), none for an earlier open of the same
  number (`NoStaleEvent`), no deaf watcher (`EveryWatchIsArmed`); and all that
  amounts to the loop the rest of the program assumes (`ImplementsWatcherSpec`).
* **Stream, UDP socket, servers.** Bytes reach the socket from `stream_write`
  and from the write event, each of which may write a part or nothing. What was
  taken leaves in order (`WireOrder`), what is freed or stopped is not called
  (`NoCallbackAfterFree`), and what waits for a socket gets its turn: a watched
  queue, a refused datagram sender, a connection at a server that a timer stops
  again and again (`WatchedDrains`).
* **Auto connector and demo client.** The write event races the attempt timer in
  one round of the loop; `stop` may come from anywhere, also from the callback.
  No descriptor leaks (`SocketsAccounted`), state, watcher and timers agree
  (`Agreement`), a stop is final (`StopIsFinal`), nothing hangs (`NeverStuck`).
* **Modbus TCP master.** Requests are not queued behind answers, the connection
  may be lost inside a callback of the very frame being fed, the transaction id
  wraps (`OneOwner`, `AnswersLatest`).
* **Modbus requests.** Master and slave lay out the same bytes with different
  code, check different limits, and the slave builds its response over the
  request. What the master reads is what the slave holds (`ReadsAreTrue`), what
  it is told was written is written (`ConfirmedWriteIsDone`), nothing else
  changes, even when an exception is answered (`WritesAreExact`), and the two
  sides agree on what a good request is (`GoodRequestsConfirmed`).
* **Modbus TCP slave.** Frames are cut from pieces of any size, of several
  masters in turn, some of which announce false lengths; `stop` frees what is
  in use. Frames come out whole and in order (`NothingLost`), answers go back
  in order or not at all (`AnswersInOrder`), no master is forgotten
  (`EventuallySeen`).
* **Modbus RTU slave.** The loop's own delays look like the silence between
  frames, a read that does not fit replaces the buffer, and `stop` leaves buffer
  and timer as they are. No path leaves something behind that spoils a frame the
  loop was in time for (`TimelyFramesServed`), nor a buffer that is never
  emptied (`NeverDeaf`).
* **Command line.** `read()` cuts telnet commands anywhere, clients break them
  off or make them too long, lines fill up, memory is used again. What is
  executed is what was typed (`ExecutedAsTyped`), what is shown is what would be
  executed (`WhatYouSee`), the reader finds back to the text
  (`ReaderComesBack`).
* **Data structures.** Full and empty both have `begin = end`
  (`RingIsByteQueue`); operations on shared rings and chains alias
  (`WellLinked`, `ImplementsSequences`); two writers race for the last buffer while
  the logger gives one back (`EachBufferOnce`, `BuffersComeBack`); callbacks
  submit to the queue that calls them (`RequestsCounted`); keys share buckets
  (`HashIsMap`); a configuration is damaged or half usable
  (`ConfigFindsWhatIsThere`).

## 2. Modules

There are 46 modules. Where a component's operations are used by others they
are operators on a record, one per C function, without variables, so that the
composed models use the very definitions that are checked alone. Mutated
definitions, marked "mutant" in their comments, show that each property depends
on the code; no specification uses them.

### Tasks

`Mailbox` is the promise: per task a sequence of accepted messages and at most
one running handler. `TaskQueue` is `core/task.c`: one program counter per
thread for the loop and the wake-up callback (`pc`), one for a `task_notify`
in progress (`send`), and a step per statement that touches shared state, so
that every interleaving of two threads inside `task_queue_add` and
`task_queue_noti_callback` is explored. libev's `ev_async` is the flag `sent`,
cleared before the callback (`pipecb`, `ev.c` 2534-2546). The user code is that
of `main.c`: numbered messages, `_next` and `_expected` counters, a sender that
ignores a refused `task_notify`. `NotifyRefused` is `malloc` returning `NULL`.

### libev

`LibevLoop` shows that the flag of `TaskQueue` is what libev gives. It has the
steps of `ev_run` around the poll, each read and write of a shared variable of
`evpipe_write` and `pipecb`, the heap with `upheap`, `downheap` and
`adjustheap`, `timers_reify` and `feed_reverse_done`, and the calls of
`core/task_timer.c` from callbacks. A poll may be interrupted. The memory
fences of the code are taken to order its accesses.

`LibevIo` has the functions of libev's descriptor layer on a record of the loop
and one of the kernel. With epoll the kernel keeps the set and libev a guess of
it, which a generation counter corrects (`ev_epoll.c` 71-139, 179-184); with
poll and select libev passes its own array or bit sets. `LibevWatcher` puts the
watchers of `core/watcher.c` on it, with user code that opens, closes and hands
over descriptors, and is refined to `WatcherSpec`, where `Feed` and `Deliver`
are all there is of libev. The modules above use `Watcher`'s operators.

### Streams and sockets

`Stream` composes `CircBuffer` and `Watcher` with a socket of bounded size and a
peer. The bytes written are 1, 2, 3, ...; a write may be any length up to
`MaxWrite`, and `write(2)` may take any non-empty part that fits, `EWOULDBLOCK`,
or fail. `life` becomes `"crashed"` where the code executes `CRASH()`.

`UdpSocket` is `udp_socket.c` with the kernel's send buffer and datagrams that
arrive, empty ones too. `TcpServer` is the two kinds of servers under the
demo's timer. `MCStream` runs one of the three at a time.

### Connectors

`AutoConnector` has the states of both connector files; `c` is the
`tcp_connector_t` with its `Watcher`. A timer is `"off"`, `"running"` or `"due"`
(its callback is queued). `Connect` is `tcp_auto_connector_connect` with all it
calls: `socket()` may fail, `connect()` may succeed, fail or be in progress.
`calling` is the user callback that is running, which separates what the code
does before it from what it does after it. `TcpClient` is the other user of
`tcp_connector.c`, the demo client, whose one timer stands for two waits, and
its run has either of them.

`ModbusTcpMaster` instantiates `AutoConnector` with its own variables: `held`,
the descriptor the connector handed over, is the stream's. A frame is two halves
(header, PDU); `chunk` is what one `read()` returned, so that several frames and
parts of frames are fed in one call of `mbap_reader_feed` and the callback of one
may close the connection before the next. It has no MC module: its `.cfg` gives
the constants.

### Modbus

`ModbusHandlers` has the bytes of a PDU, the requests as `modbus_master.c` builds
them, and one operator per function of `modbus_func_*.c`, from the request, the
slave's memory and the outcome of the user's callbacks to the exception, the
response and the memory afterwards; every length check, limit and truncation to
a byte is the code's. No handler compares the bytes it takes with those that
came: behind the end of a short request it reads what its buffer held before,
any bytes of `StaleBytes` in the model. `ModbusExchange` puts them together with
the validation of `modbus_rtu_response_handler.c`: a request is made, handled, and its response
validated, in three actions, while other masters send requests of their own.
PDUs are sequences of numbers 0 to 255: this is the one place where bytes
matter.

`ModbusTcpSlave` begins with the reader of `mbap_reader.c` byte by byte, with a
header of three numbers instead of seven bytes, and feeds one such reader per
connection with pieces of any length. An event of the loop is one action, for
everything it calls runs before the next event. `stuck` is a stream whose
circular buffer is not empty, which is for good (see the first finding).

On a serial line only silence ends a frame. `RtuSlave` has the line as a row of
frames of which the loop reads pieces, the timer T35 that each read restarts,
and the expiry that takes the buffer for a frame. The model lets the loop be
late: the timer may expire while a frame is on its way or unread, and the next
frame may begin before the last one was handled. It remembers the frames that
this, a stop or a start may have harmed (`harmed`); all others must be served.
A byte is the pair of its frame and its position, and the CRC fits one whole
intact frame and nothing else.

### The command line

`CliServer` begins with two sets of pure operators, the line editing and the
execution of `cli.c` and the state machine of `telnet_reader.c`. On them it has
connections that come and go, and next to them the serial port, which has no
telnet. A connection gets one
of a few blocks of memory, and with it the line that the block holds, since
nothing initialises `cmd_buffer_ndx`. (A block that something else has used
could hold anything, also an index that is out of range; the model leaves this
out.) The user's terminal is modelled too, so that what is shown can be compared
with what would be executed.

### Data structures

They share no state, and `MCUtils` runs one of them at a time.

* `CircBuffer` and `CircBufferSpec`: one buffer under any calls, refined to
  `ByteQueue`.
* `ListHead`: the pointers of `list.h`, every function by its own assignments,
  refined to the sequences of `ListSpec`. Callers add what is on no list and
  take off what is on one, as the header asks.
* `ItemPool`: one program counter per thread and a step per critical operation
  of `__get_item_pool_buffer` and `__put_item_pool_buffer`. The logger's queue
  is an instance of `Mailbox`, which `TaskQueue` implements (the theorem
  `QueueImplementsMailbox`), so the two levels of threads are not multiplied.
* `RequestQueue`: the calls in progress are a stack, for `request_queue_schedule`
  and `reqiest_queue_reset` call back before they count a request off. A
  callback submits, schedules and resets as it likes, with one exception: it
  leaves on the queue the neighbour that a reset loop in progress has saved
  (`Saved`), for the loop would not come to its end (section 5). The code does
  not check this, so what is shown of the count is for users who keep to it.
* `HashTable`: the buckets with the code's hash; its property is the abstract
  map, one step per call.
* `StringBuffer`: integers of six types and their bytes. Nothing in `sbuf.c`
  sets `data_len`, so the user does, as it must, when it turns from writing to
  reading.
* `Json` and `ConfigReader`: a text is a sequence of lexemes (marks, literals,
  whole strings and numbers, white space), parsed and printed by the recursion
  of `cJSON.c`; parameters are looked up by path and stored into fields, the
  union `ConfigParamValue` being two words. Numbers are rounded when printed.
* `JsonTree`: cells with `next`, `prev`, `child` and the reference flag, under
  every function of `cJSON.c` that builds, changes, copies or deletes a tree.
  The user adds only items in its hands, makes no item part of itself, and
  neither changes nor deletes what a reference shares, which `cJSON.h` leaves
  to the user.

## 3. Runs

| Run | Instance | Shows |
|---|---|---|
| TaskQueue | two tasks, three routes (one to itself), two messages on one | counter, wake-up and order under all interleavings; implements `Mailbox` with liveness |
| LibevLoop | two foreign senders and the loop's own thread; heaps of one, three and eleven timers | wake-ups and sleep, timers in order |
| Watcher | two watchers, two descriptors, three files (one shared, one that epoll refuses), each backend | libev gives what `WatcherSpec` promises |
| Stream | buffer 3, chunk 2, socket 2, writes up to 4, 9 bytes, peer may reset; a datagram socket with room for two; two servers with two waiting | order, no callback after the end, progress |
| StreamQueuedIsWatched | same, peer never resets | finding, see section 5 |
| AutoConnector | three descriptors; either user | sockets, agreement, stop, progress |
| ModbusTcpMaster | two descriptors, ids modulo 3, six requests | owners of the socket, answers |
| ModbusExchange | ten coils, four registers, two requests; every function, addresses and counts at and beyond every limit, nine requests of another master, two contents of the buffer behind a request | reads, writes, limits, validation |
| ModbusTcpSlave | a proper master with two requests, one with false lengths, a buffer of 5 | connections, framing, order of answers, progress |
| RtuSlave | three frames out of six kinds (short, long, broken, for others), a buffer of 4, reads of 2 | frames in time are served and answered, the buffer is emptied |
| CliServer | two connections over two blocks, a serial port, three items typed; lines of 2, subcommands of 1 | execution of what was typed, echo, recovery of the reader |
| Utils | the eight data structures, see below | each keeps its promise |

### Bounds and why they are enough

* Tasks: two messages on one route make order visible and let a message arrive
  while a batch is handled; the message of the task to itself and the one in the
  other direction make both threads sender and receiver. A further sender adds
  no pair of threads that is not already there.
* Loop: three notifications by two foreign threads and a callback meet every
  step of the loop; three timers of which two repeat are restarted and stopped
  while others expire; eleven is the smallest heap in which the entry that
  replaces a stopped timer has to move towards the root. `D` is 4 as in the
  build.
* Watchers: a number is closed, reused and taken over by the other watcher
  within six calls with epoll, whose generations need them; five let a
  descriptor leave the array of poll while another follows it, four do for
  select, which keeps nothing but bits (`MaxCalls`). One `epoll_wait` reports up
  to three items in any order (`EventMax`), which is all the set holds of two
  descriptors and a shared file.
* Stream: a socket of two, a buffer of three and writes of four give a write
  that fits, one that is cut and queued, and one that overflows both; a chunk
  of two makes a drain take several events. Nine bytes wrap the buffer twice.
  Datagrams: room for two, so that sends fill it; two arrive, either may be
  empty. Servers: two connections wait and two more come later.
* Auto connector: three descriptors are one for an attempt and two held, and
  the case that `socket()` fails because none is left.
* Modbus TCP master: `TidMod` is 2^16 in the code and 3 here, so that ids wrap
  within `MaxReq = 6` requests. The answer to a request then can be mistaken
  for a later one's only if three requests are outstanding; see the guard of
  `RequestSent` for the assumption.
* Modbus requests: ten coils need two bytes, so that a count may end inside a
  byte or at its end; the limits are scaled to the tables (a read of nine coils
  is within, of ten at, the limit that the code compares with `<`); the address
  256 and the count 257 differ from 0 and 1 in the high byte only. Two requests
  let a request meet the memory and the master's context that another left.
* Modbus TCP slave: a header of three and a buffer of five leave PDUs of one and
  two; the other master's frames never end (length 0, which is counted down
  from -1; a length of 1 counts down from 0) or overflow and leave enough bytes
  for a false header. `Room = 0`: the socket takes all responses of a piece, or
  some, or none, so that the first of the two requests of the proper master can
  leave the stream stuck and the response to the second meets it that way, in
  the same piece or in a later one.
* Modbus RTU slave: `SizeMax` of 4 and frames of 1 to 5 bytes are too short,
  fit, and overflow, in one read or several (`Chunk = 2`); the third frame meets
  what two others left.
* Command line: a line of two is full after two characters, and three items
  are enough to type it and press enter, to press backspace on it, or to break
  a command off before a character. `MaxItems` counts what is typed on all open
  connections; connections begin and end any number of times. `MaxUnread = 0`: a
  user sends on when all was read, and `read()` cuts each item anywhere.
* Utils: a circular buffer of three with requests of four is empty, full,
  wrapped, exactly filled and refuses; two writers and two buffers empty the
  pool and race for the last; two lists and three items have neighbours, the
  head next to an item, and one-element rings; three requests of two priorities
  with callbacks three deep; four elements under three keys, two of one key and
  two keys in one bucket; eight bytes for up to three integers of all six types,
  so that the last may not fit; trees of four cells, enough for an item between
  two others and for a reference beside what it shares; documents nested two
  deep and one with each lexeme in turn lost or replaced.

### Fairness

Runs without a liveness property use no fairness. `TaskQueue`: weak fairness
per thread; the kernel schedules every thread, user code returns, and each route
has finitely many messages so that a mutex cannot be taken away for ever.
`LibevLoop`: weak fairness of each sender within `ev_async_send` and of the
loop; making a notification is the user's choice. `ItemPool`: weak fairness for
each thread and strong fairness for taking the mutex, since other threads may
log for ever; a `pthread` mutex is not fair in theory, and this assumption says
that a thread is not starved. `Stream`: the loop polls, delivers what it queued,
the peer reads. `UdpSocket`: the same loop, and the network takes what was sent;
a sender that was refused waits until it is told. `TcpServer`: the loop, a timer
that expires, and strong fairness of a poll before the timer is due, because the
loop is faster than the timer's five seconds. `AutoConnector` and `TcpClient`:
the loop delivers, callbacks return, a running timer expires. `ModbusTcpSlave`:
the loop serves each ready descriptor. `RtuSlave`: a running timer expires and
its callback is delivered; the line is finite, so that there is silence. Where
one run holds several components, the fairness of those not in use asks for
nothing, for none of their actions is enabled. No fairness is assumed of user
calls, of clients or of peers answering.

### Deadlock

`CHECK_DEADLOCK FALSE` is set for `TaskQueue` and `LibevLoop` (all bounded
messages and timers handled: every thread waits), for `Stream` (freed or
crashed, nothing left to read) and for `Utils` (the pool has leaked its buffers,
a configuration has stopped the program, integers are read). All other runs
check for deadlock.

## 4. Proofs

TLAPS checks these for every value of the constants that satisfies the
assumptions named in the modules. Where a run has several
components, as Stream and AutoConnector do, the theorem is about all of them.

* `FoldLemmas` has no result of its own, only what several of the others
  use: a set
  that has 0 and, with each number, the next has every number (from the library's
  well-foundedness of `<`; a set takes the place of the predicate that the prover
  cannot instantiate); so a fold over a sequence runs through states of which
  each comes from the one before by its operator (`FoldRuns`).
* `TaskQueueProofs`: `TypeCorrect` (`TypeOK`), `MutexSafe` (`LockDiscipline`),
  `CountAlwaysMatches` (`CountMatchesQueue`) and `WakeupNeverLost`
  (`NoLostWakeup`). `LockDiscipline` is not inductive without `TypeOK`: that a
  thread's two program counters never put it in a critical section twice
  follows from where user code may run, so the invariant is `TypeOK`,
  `LockDiscipline`, and that a `task_notify` is in progress only while user code
  runs (`CallOK`). `CountMatchesQueue` says nothing while the mutex is held,
  where the counter does differ; `CountInv` says by how much, the increment a
  sender inside owes and the reset the receiver owes, and mutual exclusion makes
  the sender unique. `NoLostWakeup` is inductive on top of the types: it names
  every place the wake-up of a queued message can be.
  `QueueImplementsMailbox` is the safety part of the refinement: the mailbox of
  a task is its batch followed by its list, a message is posted when it is
  linked and taken when its handler starts, and every other step changes
  neither. It needs that a batch exists only between the cut and the last
  handler, and that one handler runs at a time (`BatchInv`).
* `TaskQueueProofs`, the request queue: `RequestsStayCounted` (`RequestsCounted`),
  for any requests, each with a priority there is. That what a step takes off
  the queues is on them is what has to be shown. Of `list_for_each_entry_safe`'s
  saved neighbour it holds because no callback unlinks it, nor does a reset that
  a callback begins, for that needs that nothing is saved: below a cancellation
  no call has saved anything. `NeighbourQueued` says both. No
  request is twice on a list, so unlinking shortens it by one (`RemoveOnly`).
* `TaskQueueProofs`, the command line: `TerminalShowsLine` (`WhatYouSee`), for
  any users and whatever they send. A key changes the line as what it writes
  changes the terminal (`KeyShown`), so after any number of keys that are handled
  at once the terminal that showed the line shows it again (`HandleShows`); a new
  connection is not shown the line its block holds, but the "enter" that it
  is greeted with empties both. The invariant has besides that no two
  connections share a block, for one would change the line another's terminal
  shows. `NeverDeafForLong` (`ReaderComesBack`), for any size of the buffer:
  `SwallowedIn` says for each state of the reader how many bytes it has taken,
  exactly until a subcommand ends, which is what makes the bound inductive.
* `LibevProofs`, the loop: `WakeupNeverLost` (`WakeupOutstanding`). The invariant `WakeInv`
  gives the cause that carries a notification on in each state: the mark is up
  or about to be, a mark makes `pipecb` run, and a note left while the loop
  sleeps is made good by a write of the same sender. The last two hold only
  because the loop says that it wants writes before it looks at the notes, which
  is why the invariant has `WantedAsleep`.
  `LoopNeverOversleeps` (`NeverOversleeps`) and `CalledInOrder` (`TimersInOrder`),
  for any branching factor and any heap that is in order at first. `upheap` and
  `downheap` shift the entries of a way through the heap by one place; all that
  is needed of the way is where it ends, which places are on it, and that a rank
  falls along it, so that it does end (`WalkExists`, `WayIs`). Both then restore
  the order if it fails only around the entry that moves (`MayRise`, `MaySink`),
  and lose and duplicate no timer (`ShiftOnce`, `ShiftWithin`); from these follow
  insertion, removal from any place and the rescheduling of the root. `TimerInv`
  adds how the order of expiry is carried along: timers that have expired were
  due in order and before every entry still in the heap, a timer that repeats is
  not due again before now (so none expires twice), and the queue of pending
  watchers holds them the other way round, Async callbacks and stopped timers
  notwithstanding (`ExpiredInOrder`, `PendingInOrder`).
* `LibevProofs`, the watchers:
  `SystemImplements` (`ImplementsWatcherSpec`), `NothingStale` (`NoStaleEvent`),
  `NoneDeaf` (`EveryWatchIsArmed`), `CallbackIsWatched` (`OnlyWatchedDelivered`)
  and `FlagsAgreeWithLoop` (`WatchExact`) are about `LibevWatcher`, with any of
  the three backends. The refinement is the point: what libev knows is wrong for
  a while after every close, start and stop, and the modules above libev are
  checked against a loop that is never wrong. `SysInv` says what the
  approximations amount to. The lists of the descriptors hold the active `ev_io`
  (`Linked`), a pending event has its place in the queue and comes from the
  present file of its descriptor (`Placed`, `Sources`), a change is either in the
  list or was passed on (`Queued`, `Passed`). For epoll (`EpollInv`): an item of the
  kernel's set under the present generation is the present file's, unless the
  descriptor counts as new or nothing is asked of it (`ItemKnown`); what libev
  believes to have told the kernel the kernel has, unless the descriptor counts
  as new or the set is to be built again (`InKernel`); and a descriptor that
  epoll refuses is in the list of those always ready (`KeptApart`). That a number
  which was closed counts as new when it is opened again is what `IOFDSET` is
  for, and it is needed before the first `ev_io_start`, where nothing in libev
  says so yet (`Fresh`). For poll the array has no gaps and each descriptor its
  place (`PollInv`). Each function of `ev.c` and the backends is a lemma that it
  keeps these, on any loop and kernel; loops over descriptors, changes, events
  and entries are folds.
* `CircBufferProofs`: `IndicesAlwaysOK` (`IndicesOK`), from lemmas on sums
  modulo the size; the invariant is `IndicesOK` itself with the type of the
  cells. `RingImplementsByteQueue` (`RingIsByteQueue`) is the refinement: the
  contents of the buffer are what follows `begin`, wrapped. Each call has a
  lemma that says what becomes of the contents (put appends, advance drops a
  prefix, peek reads one), and that is the call of `ByteQueue`.
* `BufferProofs`: `RingsStayRings` (`WellLinked`). Between two assignments of
  a list operation rings are broken. The proof has one intermediate fact,
  `Isolated`: nothing but the item itself still points to it. Taking an item
  out isolates it, and each way of setting its own pointers then restores the
  rings; an operation is a chain of such lemmas.
  `BuffersNeverShared` (`EachBufferOnce`): the property counts places, which is
  no use to an induction, so `InOnePlace` says where a buffer is: at one index of
  the free list and nowhere else, with one thread, at one index of the mailbox,
  or leaked. `GetUnlink` and `PutLink` keep it because of the mutex: `Locked` gives
  that nobody else is between the reading of the list's head and its removal, so
  the head that was picked is still the head (`Picked`), and `InHand` ties the
  buffer in a thread's hands to where the thread is.
* `AutoConnectorProofs`: `NoDescriptorLost` (`SocketsAccounted`),
  `ConnectorAgrees` (`Agreement`) and `StopsAreFinal` (`StopIsFinal`), for both
  users of the connector. `ConnInv` says that the connector is either attempting,
  watched and timed with its descriptor open, or resting with nothing of an
  attempt on the loop. It also says in which state each callback of the user can
  find it: a failure is never reported while connecting, nor the end of an
  attempt's time during the wait. Without that nothing is known of the state in
  which `stop`, called from the callback, or the code after the callback runs.
  `ClientInv` is the same for the demo client, whose timer runs exactly while it
  is connected or waiting. `StopsAreFinal` follows: in `"not_started"` nothing is
  queued that could start an attempt.
* `BufferProofs`, streams: `BytesKeepOrder` (`WireOrder`), for every size of the buffer,
  of a drain and of the socket, without a bound on the bytes. `OnTheWay` says
  that what was taken is what was read, then the socket's, then the circular
  buffer's contents; put, peek and advance are the lemmas of `CircBufferProofs`.
  `FreedIsNeverCalled` (`NoCallbackAfterFree`) for stream, datagram socket and
  servers: the watchers' facts of `WatcherSpec`, with what each component's own
  flag says of its watcher (`is_listening` and STARTED agree; a server whose
  descriptor is not a listening socket watches nothing).
* `ModbusLinkProofs`, TCP: `OneConnection` (`OneOwner`) uses `AutoConnectorProofs`
  as it is: `OwnerInv` is `ConnInv` of the master's connector with what the
  master's own state says of it (connecting while the connector is at work,
  connected while a descriptor is held, never two). `AnswerIsLatest`
  (`AnswersLatest`) orders everything on the connection: the halves in the
  reader, in the chunk being fed, in the socket and those of requests not yet
  answered carry ascending requests, and only the last of them can have the id
  that the code compares with (`InOrder`). It also needs that nothing is left to
  be fed while the user is called (`WireInv`), for a request made there is newer
  than what the chunk holds. Both inherit the guard `TidIsFree` of `RequestSent`:
  no answer is late by a whole turn of the ids.
* `ModbusLinkProofs`, serial line: `ProperFramesServed` (`TimelyFramesServed`),
  for any line, whatever came before and however it was cut into reads. The invariant
  (`RtuInv`) is about the last frame alone, and says of it that either the buffer and
  what was not read yet are together its bytes as far as they were sent, in place
  (`Collecting`), or it is done with, or the loop was late for it. Frames before it
  need not be mentioned: the loop was in time for a frame only if the slave had
  settled before the frame began, and then its buffer was empty. That a timer
  which is not running has left nothing in the buffer is what makes `Settled`
  mean that.

* `ModbusExchangeProofs`: `UserIsToldTheTruth` (`ReadsAreTrue`), `ConfirmedIsDone`
  (`ConfirmedWriteIsDone`), `NothingElseIsWritten` (`WritesAreExact`) and
  `GoodIsConfirmed` (`GoodRequestsConfirmed`), for any tables, limits that leave
  room in a PDU, values, addresses, stale bytes and failures of the callbacks.
  First the data: words and packed coils come out as they went in, a request
  read back has the address, count and bytes it was built from, values put in a
  table are there and nothing else changed. Then one lemma for each handler:
  what it answers and leaves in the memory, if its checks pass and the callback
  does not fail, and an exception and the old memory otherwise
  (`Handled`; the request that writes and reads may have written). From these
  `RequestFulfilled`: for every request of the master, what
  `modbus_rtu_validate_response` passes tells the truth, a good request
  passes, and only its addresses are written (`Fulfils`). The state machine then
  needs an invariant of one step's depth, `Inv`: a request that is under way is
  one that `modbus_master.c` builds from what it remembers, and a response that
  is under way is settled. Two facts are delicate.
  `modbus_func_handler_read_holding_register` serves the low byte of the count,
  so that a request for 257 registers is answered with one: it is not validated.
  And `byte_count` is a byte, so that of more than 2040 coils only some bytes
  are sent: the slave's limit refuses such a request before it takes data.
  That the tables of the user's callbacks do not move between a request and its
  response is part of the model, as is `BufferAssumption`: what is written fits
  `tx_buf`.

* `ModbusExchangeProofs`, TCP slave: `FramesComeWhole` (`NothingLost`) and
  `AnswersStayInOrder` (`AnswersInOrder`), for any number of connections, any
  shapes of requests, sizes of the buffer and of the sockets, and any cuts that
  `read()` makes. That bytes are conserved is not inductive: the reader goes by
  the length it has read, so the invariant (`Behind`) says of which frame its
  bytes are the beginning, that `data_remaining` is what that frame has still to
  come, and that the frames before it are those that were sent. One byte keeps
  this (`ByteRead`), by what the header says when it is complete; the bytes
  of one `read()` are a fold of that (`FeedKeepsPlace`). A master that announces
  false lengths makes no promise, but it disturbs no other. The responses follow:
  the ids to be answered of two runs of frames are those of the first followed by
  those of the second (`ResponsesSplit`, from `GluingSplits`), what went out is a
  beginning of them, and all of them until the stream is stuck.

What stays with TLC, and why:

* Liveness (`ImplementsMailbox` with its fairness, `SentIsDelivered`,
  `WatchedDrains`, `NeverStuck`, `BuffersComeBack`, `EventuallySeen`,
  `NeverDeaf`): fairness and `ENABLED` are outside the prover.
* What is computed by recursive operators, of which the prover shows nothing, or
  over sequences filtered and flattened, which would each need an induction of
  their own: what a line that was typed and edited executes
  (`ExecutedAsTyped`), the trees and texts of `cJSON.c`
  (`ConfigFindsWhatIsThere`), and the sequences that walk pointers or bytes
  (`ImplementsSequences`, `HashIsMap`).

## 5. Findings

* `stream_write` compares `circ_buffer_put`'s 0 / -1 with `false`
  (`stream/stream.c:157`). When the rest of a partial write was queued it
  returns false and does not watch the write event, so the bytes stay
  (run StreamQueuedIsWatched, against the comment at line 135).

Also seen while modelling, without a run of their own:

* `modbus_tcp_master.c:99` compares `master->tid - 1`, an `int`, with a
  `uint16_t`: when the id wraps to 0, the answer to the last request is dropped
  as "TID Mismatch".
* `modbus_func_holding.c:145` assigns the low byte of the count with `=` where
  its siblings use `|=`: a request for 257 registers is served as one for 1,
  against the comment at line 147.
* `cli_telnet.c:109` feeds a `'\r'` to a line that was never initialised, "show
  prompt" says line 108: if the memory is that of a connection that ended in the
  middle of a line, that beginning of a line is executed (the first element of
  `ran` in `CliServer`).
* `cli.c:206` stores the end of a full line at `cmd_buffer[252]`, one behind the
  array; in the build it is a byte of padding.
* `modbus_rtu_slave.c:272` refuses a frame of exactly 256 bytes, the maximum
  that `modbus_rtu_slave.h` gives for a frame, and keeps its last read.
* The inverted test of `stream.c:157` also lets a slow but healthy peer lead to
  the `CRASH()` of line 38: an overflowing write watches the write event with
  nothing queued, another write of the same poll fills the socket, and the write
  event finds bytes it cannot send.
* `modbus_func_holding.c:202` has no branch for a request of function 23 that is
  too short: the request itself is sent back as a successful response.
* The slave refuses exactly the maximum number of coils, discrete inputs and
  input registers (`<` in `modbus_func_coils.c:55`, `modbus_func_discrete.c:44`,
  `modbus_func_input.c:45`) but serves the maximum of holding registers (`<=`).
* `tcp_server_unix_domain.c:67` opens an `AF_INET` socket, which cannot be bound
  to a path, and line 101 returns -1 in every case.
* `udp_socket.c:96` takes the 0 that `sendto` returns for an empty datagram for
  a failure and looks at an `errno` that an earlier call left; the datagram was
  sent.
* `watcher.c:100` watches errors with `EV_EXCEPT`, which of libev's backends only
  poll asks the kernel for (`ev_poll.c:76`); with epoll, the default, the error
  callback of a watcher never runs by itself.
* `task_timer.c:37` sets the time of a timer that may be running, which
  `ev_timer_start` then does not start again: it fires at its old time.
* `config_reader.c:157` writes the integer of a number into the union that holds
  its double since line 156, so that the low word of the double is lost (`Holds`
  in `ConfigReader`).
* `request_queue.c:48` saves the neighbour of the request it cancels, and
  nothing keeps the callback from taking that one off the queue, by
  `request_queue_schedule` or by a reset of its own. An unlinked request is its
  own neighbour: the loop never comes to the head of the list, calls back with
  that request again and again, and counts it off each time. The model leaves
  this case out (`Saved` in `RequestQueue`), so `RequestsCounted` does not speak
  about it. Nothing in the repository uses the queue yet.
* `sbuf.c:8` and `:18` use `<` for `<=`: the last byte of a buffer is used for
  neither writing nor reading.

## 6. Not modelled

* `serial/serial.c` (termios calls), `core/idle_task.c`, `utils/trace.c`,
  `debug/hex_dump.c`, `utils/cmd_line_opt.c`, `kongja_express.c`: input, output
  and start-up without state that a property could be about.
* `modbus_rtu_master.c`: it never reads a response (the FIXME in the file), so
  there is nothing after the write. Its framing is that of the slave.
* Functions nothing in the repository calls: the Unix domain attempt of
  `tcp_connector.c`, `tcp_server_deinit`, the look-ups of bound addresses, the
  bit fields of `modbus_util.c`, the `hlist` half of `list.h`, `cJSON_Minify`.
* `malloc` failing in `circ_buffer_init` (the buffer would be empty, size 0, for
  `stream_init_with_fd` ignores the result), and a stop of the auto connector
  before its first start, which would close whatever its `sd` holds: no caller in
  the repository makes that stop.
* The text of replies and logs, statistics nobody reads, the digits of numbers,
  the memory of names and strings in `cJSON.c` (line 689 overwrites the name
  of the new item without freeing it), and `sprintf`-like formatting.
* libev: the kinds of watchers and backends the program does not use, and most
  errors of the kernel. A descriptor that was closed while it was watched is
  killed (`fd_kill`), as in the code. Left out are `epoll_ctl` failing on an open
  descriptor, with `ENOMEM` or with `ENOSPC` when the user has too many watches,
  after which `ev_epoll.c:134` kills that descriptor too, and a poll that returns
  -1 for another reason than a signal (`fd_ebadf`, `fd_enomem`). In these cases
  `fd_kill` stops the watchers of the descriptor and feeds them an error, so what
  the run Libev says about watches and the kernel's set is said of a kernel that
  has the memory it is asked for.
* The tests and code of libev other than the files named in section 1, and the
  installed copies of its headers.

## 7. What could come next

`ModbusTcpMaster` and `ModbusTcpSlave` over one connection, byte by byte. A proof
of `ExecutedAsTyped`, for which the invariant of the telnet reader would have to
remember how far into a command each byte is. The failures of `epoll_ctl` above,
with what a watcher's user makes of an error it did not ask for.
