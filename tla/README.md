# A verification of cfunction

`cfunction` is a collection of C programs for embedded Linux: queues, a PPP
supervisor, an AT modem driver, a GPS reader, serial tools, small servers, threads,
signals, file formats and a JSON library. This directory holds TLA+ specifications of
the parts that keep state, model-checking configurations for TLC, and proofs checked
by TLAPS.

Every definition is translated from the C source; `PROJECT.json` maps it to its
lines. Paths below are relative to `src/`.

## Inventory

| Part | State | Operations | Interacts with | What is hard | What makes it correct |
|---|---|---|---|---|---|
| Array queue, `queue/array` | ring of pointers, head, tail, count, a mutex | enqueue (owning or copying), dequeue, is_full, is_empty, destroy | threads of the caller | interleaving, payload ownership, acting on stale answers, calls after destroy | a bounded FIFO; one owner per payload; no leak |
| List queue, `queue/list` | circular doubly linked list, head, count, size | enqueue and dequeue at both ends, destroy | one caller | pointer surgery, freed nodes | a deque; nothing freed is followed |
| PPP supervisor, `LTE/ppp_call1` | status word, error count; the link file | stop, start, poll, ping; SIGCHLD handler | pppd, its ip-up and ip-down scripts, signals | a handler between any two memory accesses, late deaths, stale file | one pppd dials; a dead one is replaced |
| SIGCHLD reaper, `process/sigchld.c` | process table, pending signal | fork, sigaction, handler | children, the kernel | merged signals, signals before the handler | no zombie stays |
| Named-semaphore ring, `pthread/sem/product_consumer` | ring, three named semaphores | produce, consume, create and unlink | two threads, the next run | a crash leaves the semaphores | items in order, every slot accounted for |
| epoll echo server, `epoll/epoll_classic.c` | one line buffer, its length, registered events | accept, read, echo | clients | one buffer for all connections, edge-triggered events, full buffer | each client gets its own bytes back |
| epoll receiver, `epoll/epoll_block.c` | registered connections | accept, receive in pieces | clients | edges reported once, blocking reads | nothing that came stays unread |
| AT modem driver, `LTE/at` | SIM state, signal, operator | send a command and await its answer, check the SIM | serial line | late answers, partial reads and writes | answers belong to their commands |
| GPS reader, `uart/read_gps.c`, `time/localtime.c` | receive buffer with two positions, position, date table, timer flag | read, split sentences, parse, print | serial line, SIGALRM | a full buffer, leap years, flag races, fields left empty | every sentence parsed once; what is printed was received; dates right |
| UART tools, `uart` | terminal settings, a static flag, receive buffer | set up, send, read, restart | serial line, terminal | settings lost at a close, late answers | the line is as asked; an answer belongs to its line |
| Key-value file, `parsekv.c` | a file | get, update | other runs | crash between truncation and rewriting, files left open | old or new contents |
| SQLite store, `database/sqlite.c` | a connection, its transaction | open, modify, select | other connections | a failed statement leaves a transaction open | rows reported are the rows stored |
| Message queues, `ipc` | a System V queue | send with retries, receive with polling | other processes | retries, empty messages, timeouts | given once, none lost |
| Threads, `pthread/rwlock` | a lock, a counter | writers, readers, cancel and join | each other | test outside the lock, cancellation with the lock held | limit kept, the end reached |
| Forking servers, `socket`, `select` | descriptors, children | accept, fork, serve | clients | descriptors left open, children that go on accepting | connections served once and to their end |
| Conversions, `crc`, `encode`, `common_itoa.c` | none | checksums, base64, itoa | – | boundary values, decoding in place | what was written reads back |
| JSON, `json/mkey_str2j` | linked items | build, change, print, parse, patch; device settings | one caller | pointer surgery, failed allocations, escapes, buffer sizes | one owner per item; texts and patches read back |
| `mqtt`, `log`, `net`, `flock`, demonstrations | little or none | – | libraries, kernel | – | not modelled, see below |

The hazards of this code, each at its line and with the properties that would
catch it, are listed in `PROJECT.json`.

## Modules

| Module | Models | Checked by |
|---|---|---|
| `SQueue` | the array queue and the threads that call it | `mc_squeue` |
| `BoundedFifo` | what a bounded queue promises; `SQueue` implements it | `mc_squeue` |
| `LQueue` | the list queue | `mc_lqueue`, `lqueue_front` |
| `PppCall` | the supervisor, its signal handler, pppd and its scripts | `mc_pppcall` |
| `SemBuffer` | the named-semaphore ring, with crashes | `mc_progress` |
| `EpollEcho` | the echo server and its clients | `mc_epollecho` |
| `GpsReader` | the receive buffer and the timer flag of the GPS reader | `mc_gpsreader` |
| `CJson` | cJSON's linked items as pointers | `mc_cjson` |
| `SigChld`, `AtModem`, `RwLock` | the reaper, the AT driver, the lock demonstration | `mc_progress`, `sigchld_blocked` |
| `KvFile`, `SqlStore`, `MsgQueue` | the three kinds of storage | `mc_programs` |
| `BeijingTime`, `GpsFix` | eight hours on; the fields of GPS sentences, composed with it | `mc_programs` |
| `SerialLine`, `SerialTool` | setting up a serial line; using it | `mc_programs`, `uart_answer` |
| `ForkServer`, `EpollBlock` | the forking servers; the epoll receiver | `mc_programs` |
| `Codec`, `Checksum` | base64, itoa, lines of hex; checksums | `mc_programs` |
| `JsonTree`, `JsonText`, `JsonPatch`, `MKey` | cJSON's items as values; their text; their patches; device settings written as text | `mc_programs`, `json_patch` |
| `SQueueProofs`, `LQueueProofs`, `CJsonProofs` | theorems about the module of that name | |
| `WaitProofs` | theorems about `AtModem`, `SemBuffer` and `RwLock` | |
| `ArrivalProofs` | theorems about `EpollBlock`, `ForkServer` and `GpsReader` | |
| `SerialProofs` | theorems about `SerialLine`, `SerialTool` and `PppCall` | |
| `EchoProofs` | theorems about `EpollEcho` | |
| `RecordProofs` | theorems about `SqlStore`, `KvFile`, `BeijingTime`, `GpsFix` and `MsgQueue` | |
| `MC…` | TLC instances, with their `.cfg` | |

`MCPrograms` and `MCProgress` hold several programs that share nothing: a variable
`program` says which one runs, and the state of the others stays as it is. So one
run goes through all of them, one after the other. `MCPrograms` asks for safety
only, `MCProgress` has the programs with liveness and the fairness of each.
`GpsFix` alone shares state, the date table and the dates of `BeijingTime`.

Operators marked as mutants are plausible bugs of the definition that follows them.
They are not part of any specification: with one of them in the place of its
original, the run that `PROJECT.json` names finds the property violated, so the
property does watch that code.

### SQueue

A payload is an abstract block; `heap` holds the allocated ones, so a leak, a double
free and a use after free are visible. Lengths and bytes are abstracted away. Each
thread has a call (`op`), a place in it (`pc`), the pointer pair it works with
(`data`) and the last answer of `is_full` or `is_empty` (`saw`). A call is: the part
before the mutex (`CallEnqueueExt` allocates its copy there, as `queue.c:72-79`
does), `Lock`, one or two steps of the body, and `Unlock`. Enqueue stores in one
step and advances in another; dequeue copies and advances; so that a missing lock
would show. After `DestroyArray` the slot array is gone (`live`), and an enqueue
that still finds room faults, which ends the process.

Callers keep to this discipline: a thread does not enqueue a payload it has not got,
and one that was accepted is no longer the caller's. The disabled example at the end
of `queue.c` queues the same buffer three times and is outside the model.

### LQueue

`next`, `prev` and `pqdata` are functions of the node, `nodes` the allocated ones. A
call is one step, as there is one thread, except `lqueue_destroy`, whose loop is
walked step by step. `DequeueFront` does what the code does: it keeps the head where
it was and gives its caller no payload. A call that would follow a pointer to a
freed node has no defined outcome; it sets `ub`, after which nothing happens.
`lqueue_destroy` is called with a destroy function, as in `main.c`.

### PppCall

The main loop is a program counter over the tests and calls of `main`, `pppd_stop`
and `pppd_start`. `pppd_status &= ~START` and `pppd_status |= ONLINE` are a load and
a store each. `ChildSignal` is the handler; it may come between any two steps and
runs to its end, as a handler does on the thread that it interrupts. pppd is
external and follows its options (`persist`, `lock`, `nodetach`): it may bring the
line up or lose it at any time, may end at any time, and starts `ip-up` and `ip-down`,
which make and remove the link file later. Left out: the link number, DNS links, the
handlers that only print, and the sleeps (any delay is possible between two steps).

### SigChld

A child is unborn, running, a zombie or reaped. One bit holds the pending SIGCHLD. A
child that exits before `Sigaction` raises nothing; one that exits while the handler
runs raises a signal delivered when it returns, even between its last `waitpid` and
its return.

### SemBuffer

Each wait and each post is a step. A crash is possible at any of them; the named
semaphores keep their values, the ring does not, and the next run opens what it
finds. `inherited` records that a run found a semaphore that already existed.

### EpollEcho and EpollBlock

A byte of `EpollEcho` is the pair of its client and its place in what that client
sends, so that an answer to the wrong client, a gap and a repetition can be told
apart. `line` and `nbytes` are the one buffer of `epoll_classic.c`; the loop over the
events of one `epoll_wait`, the read loop and the write are steps of their own. Every
error exit is an action. History variables say which connections mixed, which were
cut short and which events an EPIPE skipped: the properties hold for all the others.

`EpollBlock` counts bytes. `mode` is one of the four ways `main` names to call
`epoll_process`; the source has the last one switched on. `ready` is the kernel's list:
a level-triggered connection comes back to it while there is something to read, an
edge-triggered one when something more comes.

### AtModem

An answer is a sequence of pieces. The modem may answer at any time, or not at all
while it is unsteady, and a piece that comes after its read has timed out stays in the
line for the next read. `cmd` and `pc` follow `send_at_cmd` through its chunked write
and its read; `NextCommand`, `Succeed` and `Fail` are the conditions and early returns
of the caller. `late` is history: a read of this check, or the check before, left
something behind. So is `refused`: some command of this check got no good answer, or
could not be sent. The write through a quotation mark that was not found is the state
`fault`. `Overrun` copies an operator's name of 16 characters or more past the end of its
array; what lies there is needed (`fault`) or not. `signal` says of which check the signal
is that the caller reports: after a check that failed it is still that of an earlier one.
After `Settle` the modem answers every command well and in time. A full buffer has no
terminating zero for `strstr`; that it reads on is left out.

### GpsReader, GpsFix and BeijingTime

`GpsReader` has the buffer, both positions and the two loops of `parse_buf`. A byte
carries the number of its item, which the program does not see. `Tick` is the timer,
which may come between the test of `flag_send` and its reset. Failed reads close and
reopen the line.

`GpsFix` starts where `parse_packet` calls the parser of a sentence. A field is what
its characters say, or empty. `parse_gnrmc` and `parse_gngga` leave in `gps` what was
given and keep the rest; `print_gps` turns angles into degrees, minutes and seconds
and the date through `utc2btc`.

`BeijingTime` has `utc2btc` with its static table: a leap year sets the length of
February to 29, and nothing sets it back.

### KvFile, SqlStore and MsgQueue

`KvFile` is one update at a time, by processes that may be killed at any step:
reading line by line, appending, closing, truncating, writing. `opened` counts the
descriptors that the early returns leave open. `SqlStore` has several processes that
meet at SQLite's exclusive lock; any statement may fail and `modify_sql` returns
without a ROLLBACK. `MsgQueue` has the three ways to receive and a kernel queue with
a limit; calls may be interrupted and the queue removed. With `older` it is the version
in `ipc/queue/bak/mmsg.c`, which sends without waiting and receives in one way.

### SerialLine and SerialTool

Six programs set up a line with copies of the same functions, which differ: `user` says
which program it is. `ttystate` is the static variable that stops the copies of `uart/`
from making a line raw a second time. The driver may fail, take only a part, forget
at a close or vanish. `SerialTool` has the loops of the four tools; an arriving byte
carries its number, so that what was printed can be compared with what was sent.

### ForkServer

`has[p]` is the set of connections a process has open; a child starts with a copy of
its parent's. `service` chooses the server. A child of `largedata/server.c` has no way
out of the loop and accepts connections itself; those of the two time servers leave.

### CJson, JsonTree, JsonText, JsonPatch and MKey

`CJson` has the items of cJSON with `next`, `prev`, `child`, `kind` and `name`, and one
action for each call that changes a list. Every allocation may fail, which is where
leaks and nameless members come from. `JsonTree` has the same items as values for the
modules that need deep documents: the list of an item is a sequence and `last` is where
the pointer to its end leads, since `sort_list` leaves that pointer wrong. `JsonText`
prints and parses byte by byte: escapes, UTF-16 literals, numbers, comments, the growing
and the given buffer. A double counts hundred-thousandths up to `DBL_MAX` and has two
digits more than `DBL_DIG` (15 in the code); beyond are `INFINITY` and `NAN`, with the
odd equality of `compare_double`. `PrintDouble` tries the short form first, with an
exponent where `%g` has one; parsing takes signs, points and exponents from at most 63
characters, so that `1e999` is infinite and what is longer is cut. `JsonPatch` has pointers, the six operations, the generator and
merge patches, with what sorting and comparing do to the documents on the way. `MKey`
is the struct of `mkey_str2j/parse.c` written and read through `JsonText`.

### Codec and Checksum

Pure functions, applied to every input of the bound: base64 decoded in place, itoa, the
line of hex digits the serial tools send, CRC-8 bit by bit against its table, the
Modbus CRC against its definition by bits, and the exclusive or of all bytes.

## Runs

| Run | Bounds | Shows |
|---|---|---|
| `mc_squeue` | 2 threads, 2 slots, 3 blocks | the ring is a bounded FIFO whose payloads have one owner; the answers that `main.c` acts on hold for a sole producer and a sole consumer; the only leak is the rejected copy; the mutex always comes back |
| `mc_lqueue` | 3 nodes, 4 blocks, size 2 | the circle and the deque are right until the head is lost, which happens in two places only |
| `lqueue_front` | 2 nodes, 2 blocks | **violation**: the front payload does not reach the caller |
| `sigchld_blocked` | 2 children | **violation**: SIGCHLD is not blocked, so early children stay zombies |
| `mc_pppcall` | 2 pids, start timeout 2, ping count 1 | the status word always has a branch, one pppd dials, zombies go, a dead pppd is replaced |
| `mc_epollecho` | 2 clients of 2 bytes each, line of 2, socket of 1 | a client gets its own bytes back unless connections mixed; only one that floods is cut off; an edge is not forgotten |
| `mc_gpsreader` | buffer of 8, 4 items, 1 error, 2 descriptors | every sentence once and in order; a full buffer is noise; a tick is lost only between test and reset |
| `mc_cjson` | 5 items, 2 names, total size 6 | one owner for every item, one call that leaks, members found by name |
| `mc_programs` | see below | one property for each of thirteen programs |
| `mc_progress` | 2 slots, 5 items, 2 crashes; 3 writers, 2 readers, limit 3; 4 children; 3 pieces | slots accounted for, items in order and termination in every run that made its own semaphores; the lock demonstration ends or a cancelled writer has kept the lock; one exit after `sigaction` has all reaped; unless an answer is late a check succeeds exactly when the modem answered well, and reports its own signal; the AT driver gets back into step |
| `json_patch` | 2-level documents | **violation**: a merge patch says nothing of a Bool that changed |
| `uart_answer` | 1 line, 2 bytes, buffer of 3 | **violation**: `test_uart_v2` never ends the reading of an answer on a line that is up |

The properties of `mc_programs`:

| Property | Module | Bounds | Shows |
|---|---|---|---|
| `KvKeepsUpdates` | `KvFile` | 2 keys, 2 values, 2 open files | the last update is read, unless a process was killed while it rewrote the file or a line had no newline |
| `RowsAsTold` | `SqlStore` | 2 processes, 2 rows per loop | the rows stored are those reported |
| `MessagesGivenOnce` | `MsgQueue` | 3 messages, 2 types, 2 receivers, room for 2 | given once, in order of type; only empty messages are lost |
| `CalendarRight` | `BeijingTime` | every month, four kinds of year, the days around its ends | the calendar's date, except in the table's own way |
| `FixTold` | `GpsFix` | 4 sentences of 14 | what is printed is the last of each item that was received |
| `LineAsAsked` | `SerialLine` | 6 programs, 31 requests, 2 openings | raw and in the format asked for, except where the driver or a lost line is to blame |
| `AnswersFresh` | `SerialTool` | 4 tools, 2 lines, 5 bytes, buffer of 3 | which tool prints a late answer as the next one's, and which stores beyond its buffer |
| `ConnectionsServed` | `ForkServer` | 3 clients, 2 children, 2 descriptors | served by one process, cut off only when descriptors have run out |
| `NothingLeftUnread` | `EpollBlock` | 2 connections, 3 bytes, pieces of 2 | no connection is left with something to read that nobody will report |
| `EncodingReadsBack` | `Codec` | up to 4 bytes, every 8-bit int, lines of up to 5 characters | what was written reads back; damage of one bit is seen |
| `TextsReadBack` | `JsonText` | items and texts of `MCJson`, nesting limit 2 | printed text parses to an equal item, except for numbers that are infinite or that 15 digits make infinite; buffers are large enough exactly when the header says so |
| `PatchesLead` | `JsonPatch` | documents of `MCJsonPatch` | patches lead from one document to the other; a failing one leaves it alone; but for lists that sorting has damaged, names that need an escape or differ in case, Bools and nulls |
| `SettingsWhole` | `MKey` | structs of `MCJson`, fields of 3 | settings are read back, all or none |

Why the bounds are enough:

- *SQueue*: two slots make head and tail different, equal and wrapped; three blocks let
  a producer hold a copy that a full ring will reject. A second producer adds
  nothing that the mutex does not hide, and the theorems hold for any number.
- *LQueue*: with three nodes a node can have two distinct neighbours, and the queue can
  outgrow its bound of two after `lqueue_destroy` has made it unbounded.
- *SigChld*: two children exit together while a third is reaped and a fourth runs.
- *PppCall*: a second pppd exists while the first is ending; a counter of one and a
  timeout of two make their limits, and both sides of them, reachable.
- *SemBuffer*: five items go round two slots twice and a half, and a second crash
  hits a run that inherited the semaphores of the first.
- *EpollEcho*: two clients mix, two bytes fill the line exactly, and a socket of one
  byte cuts a write of two short.
- *GpsReader*: a sentence has four bytes, so that the buffer holds two and is compacted
  in the middle of a third; noise fills it.
- *JsonText*: three digits in the short form and five in the long one, with doubles from
  0.00001 to 9999.9: numbers take either form, have an exponent of either sign or none,
  overflow, vanish, or are rounded up beyond the largest one (`MCJson`).
- *JsonPatch*: of the names, `a` and `b` come in the same order in both modes, `a` and `B`
  do not, `b` and `B` differ in case only, and `/` needs an escape. Objects have up to
  three members in every order, so that lists of members are really merged.
- *CJson*: an array with two members, one of them a container with a member of its own,
  and an item in the client's hands exist at once.
- *AtModem*: the longest answer has three pieces and fills the buffer; with a late piece
  before it, it does not fit.
- *RwLock*: three writers pass the test together; two readers hold the lock together
  while a writer waits.
- *Programs*: the years are one that is leap, one that is not, and two centuries of
  either kind; 15 and 16 o'clock are on both sides of midnight; lengths below, at and
  above the size of the buffer; each list of documents has what the comment beside
  it names.

Deadlock is checked in `mc_cjson`, `sigchld_blocked` and `mc_pppcall`. The others may
really stop: `SQueue`, `EpollEcho` and `AtModem` by a fault or an exit, `LQueue` after
undefined behaviour, `SemBuffer` when an inherited mutex is zero, `RwLock` when a
cancelled writer keeps the lock, and the programs of `MCPrograms` and `SerialTool` at
their end or bound.

Fairness:

- *SQueue*: a thread inside a critical section goes on, since nothing in one blocks.
  Nothing is assumed of who gets the mutex or calls next.
- *SigChld*: the parent runs, each child's loop has one turn, and a pending unmasked
  signal is delivered.
- *PppCall*: the main loop runs and signals are delivered; a pppd sent SIGTERM ends; a
  fork tried again and again succeeds once (strong fairness of `Exec`). A pppd left
  alone may do nothing for ever.
- *SemBuffer*: each thread that can go on does. The loops are finite, so the other
  thread cannot be kept from the mutex for ever. Nothing obliges a new run to start.
- *EpollEcho*: the server runs and a client takes what was sent to it. A client need not
  send, and may leave.
- *SerialTool*, in `uart_answer` only: `test_uart_v2` sends, reads what is there and
  prints. No read need fail, no byte come and no line hang up.
- *AtModem*: the driver runs and what is on its way arrives. That the modem ever
  becomes steady is not assumed; `Resyncs` speaks of the case that it does.
- *RwLock*: each thread runs, and gets the lock if it is free again and again. Between
  two turns a thread sleeps for a second and holds the lock for an instant, so
  that again and again no thread is between lock and unlock: without this, readers
  that overlap for ever would keep writers out, which these delays do not allow.

Four findings come with the violation runs: `lqueue_dequeue_front` assigns the payload
to its own parameter (`lqueue.c:208`) and leaves the head at the freed node
(`lqueue.c:205-210`); the blocking of SIGCHLD that the comments of `sigchld.c:33,55`
announce is not there; the receive loop of `test_uart_v2` goes on after an answer has come
whole, where its comment has it exit when there are no more bytes
(`test_uart_v2.c:265-279`); and `compare_json` finds any two Bools equal
(`cJSON_Utils.c:695-700`), so that `cJSONUtils_GenerateMergePatch` does not give "a patch
to move from -> to" (`cJSON_Utils.h:72`).

The properties of the passing runs name the exceptions the code really makes: the
history variables `mixed`, `cut`, `flood`, `skipped`, `late`, `spoiled`, `turned`,
`forgotten`, `partial`, `dropped`, `nameless`, `lost` and `orphan` stand for behaviour
that a reader might not expect, and each property says that nothing beyond it
happens. For texts and patches the exceptions are of the documents themselves and are
operators (`Said`, `RoundsUp`, `AddedToLost`, `NeedEscape`, `Twins`, `SameOrder`), each
with the lines of the code it comes from. The plainest is that a merge patch made
without case leads from `{"b":1}` to `{}` when it should lead to `{"B":1}`
(`cJSON_Utils.c:1440`).

## Proofs

| Module | Theorem | Says | For any |
|---|---|---|---|
| `SQueueProofs` | `TypeCorrect` | `Spec => []TypeOK` | threads, producers, consumers, blocks, owner, size of at least one (`SQueueAssumption`) |
| | `RingSafe` | `Spec => []RingConsistent` | same |
| | `OwnershipSafe` | `Spec => []SoleOwner` | same |
| | `CheckThenActSafe` | `Spec => []CheckedCallsSucceed` | same |
| | `LeakSafe` | `Spec => LeakOnlyOnReject` | same |
| | `RefinesFifo` | `Spec => ImplementsFifo` | same |
| `LQueueProofs` | `CircleSafe` | `Spec => []CircleClosed` | nodes, payloads, size (`LQueueAssumption`) |
| | `HeadSafe` | `Spec => HeadLostOnlyThere` | same |
| | `DequeSafe` | `Spec => StepsLikeADeque` | same |
| `WaitProofs` | `AtRight` | `AtSpec => []RightUnlessLate` | pieces in the buffer, pieces that are late (`AtAssumption`) |
| | `TypesSafe` | `Spec => []TypeOK` of `SemBuffer` | size of the ring, items, crashes (`SemBufferAssumption`) |
| | `SlotsSafe` | `Spec => []SlotsAccounted` | same |
| | `ItemsSafe` | `Spec => []ItemsInOrder` | same |
| | `LoveSafe` | `RwSpec => []LoveBounded` | writers, readers, limit (`RwAssumption`) |
| `EchoProofs` | `EchoSafe` | `Spec => []EchoUnlessMixed` | clients, bytes, sizes of `line` and of the kernel's buffer (`EpollAssumption`) |
| | `CutOffSafe` | `Spec => []OnlyFloodersAreCutOff` | same |
| `ArrivalProofs` | `AllIsRead` | `EbSpec => []NothingLeftUnread` | connections, pieces, events per call (`BlockAssumption`) |
| | `ServedSafe` | `FsSpec => []ConnectionsServed` | clients, children, descriptors, backlog, volume (`ForkAssumption`) |
| | `SentencesOnce` | `Spec => []EachSentenceOnce` of `GpsReader` | buffer, failed reads, descriptors, items (`GpsAssumption`) |
| | `TickKept` | `Spec => []TicksRemembered` | same |
| `SerialProofs` | `LineSafe` | `SlSpec => []LineAsAsked` | speeds, requests, openings (`SerialAssumption`) |
| | `AnswersSafe` | `StSpec => []AnswersFresh` | buffer, attempts, lines, bytes (`ToolAssumption`) |
| | `TypeCorrect` | `Spec => []TypeOK` of `PppCall` | processes, start timeout, ping count (`PppCallAssumption`) |
| | `OneDialerSafe` | `Spec => []OneDialer` | same |
| | `BranchSafe` | `Spec => []LoopHasABranch` | same |
| `CJsonProofs` | `CJsonForest` | `Spec => []CJsonInv` | items, names, number of them at once (`CJsonAssumption`) |
| | `CJsonTypeOK` | `Spec => []TypeOK` of `CJson` | same |
| | `CJsonItemsAccounted` | `Spec => []ItemsAccounted` | same |
| | `CJsonMembersFound` | `Spec => []MembersFound` | same |
| `RecordProofs` | `RowsSafe` | `SqlSpec => []RowsAsTold` | processes, rows, calls of the busy handler (`SqlAssumption`) |
| | `UpdatesSafe` | `KvSpec => []KvKeepsUpdates` | keys, values, open files (`KvAssumption`) |
| | `CalendarSafe` | `BtSpec => []CalendarRight` | years, days, hours (`BtAssumption`) |
| | `FixSafe` | `GfSpec => []FixTold` | sentences of a receiver, their number (`FixAssumption`, `ReceiverAssumption`) |
| | `FixDatesSafe` | `GfSpec => []CalendarRight` | same |
| | `MessagesSafe` | `MqSpec => []MessagesGivenOnce` | types, lengths, receivers, limit of the queue, retries, polls (`MqAssumption`) |

The assumptions are what the constants of the code are: sizes and numbers are naturals,
names that stand for nobody are not names of somebody, and there are finitely many clients
of the echo server and items of cJSON. Two say more. `GpsAssumption` asks of the reader's buffer that the part not
kept free holds three bytes, which is one more than half a sentence has in the model
(the program has 2048 bytes, keeps 64 free, and a sentence has some 80): with less, `memcpy`
may move half a sentence onto itself and garble it, and TLC finds `EachSentenceOnce`
violated. `ReceiverAssumption` says of the GPS receiver, which is external, that an hour is one of
0 to 23, an angle a natural number and a date a day of the calendar. A date that is none
would leave `utc2btc` with a month it has no length for.

**SQueue.** None of the six is inductive by itself. That `count` stays within the size
needs that a call which has stored still has room when it advances; that needs mutual
exclusion; and single ownership needs to know that the one slot outside the window that
may hold a payload is the slot at `tail`, in a thread's hands at the same time. The
inductive invariant `IInv` has these layers, each inductive relative to those before it:

1. `TypeOK`: ranges;
2. `SectionInv`: only the holder of the mutex is past `Lock`, in a call it may make, with
   (enqueue) or without (dequeue) a payload in its hands;
3. `RingInv`: `tail` is `count` places after `head`; the occupied slots, the slot being
   stored into and the slot being copied from are exactly those that hold a payload;
4. `SoleOwner` and `CheckedCallsSucceed`.

`TypeStep` uses `RingInv` of the state before. `WrapOnce` and `WrapNext` replace the
remainder by a case distinction, which is what lets the SMT solver reason about the
slots. `AdvanceGives`, `AdvanceTakes` and `DestroyTakes` are the steps that move a payload into
the window or out of it. `LeakStepHolds` goes through the actions showing that the same blocks stay
reachable, except in `EnqueueReject`.

For the refinement the queue as a sequence is `Items`, the `count` slots from `head` on,
and `Hand` is what a thread holds, except a pointer it is still copying, which counts
as queued until the slot is cleared. So a dequeue takes effect at `DequeueAdvance`, an
enqueue at `EnqueueAdvance`, and every other step of the body stutters. `PopTail` and
`PutAppend` relate the moves of head and tail to `Tail` and `Append`; `FifoStep` maps
each action.

**SemBuffer.** `SlotsAccounted` counts the slots by the values of two semaphores and the
places of two threads; it speaks only of runs that inherited nothing. `OpenedInv` says
which semaphores exist while main opens and unlinks them, `FreshInv` that those opened
so far have their first values when nothing was inherited. `Inv` is the conjunction
with `TypeOK`. For `ItemsInOrder` comes `ContentInv`: every item that was stored and not
yet checked is in its slot. `SlotsApart` (two items less than `NBUFF` apart have different
slots) and `SlotsAccounted` (producer and consumer are no further apart) show that a
store overwrites none of them (`StoreKeepsContent`), and `CheckMeetsItem` that the
consumer meets the item it expects.

**LQueue.** `CircleClosed` follows the `next` pointers from the head, which says nothing of
a node that a call is about to link elsewhere. `LqInv` says instead that some function
`c` lists the nodes: `next` and `prev` lead from each place of `c` to its neighbours, all
round, and no node and no payload comes twice (`Circle`); the nodes from the head on are
the allocated ones (`Left`). While `lqueue_destroy` runs, `c` is the circle it began with
and the head is at its `k`-th place. Each call gives the next `c` (`LinkFirst`, `LinkBack`,
`LinkFront`, `BackTaken`). `WalkIs` shows that walking `next` from the head goes along `c`,
`InvCloses` that `CircleClosed` follows, and `DequeHolds` that the sequence of payloads
along `c` changes as a deque does.

**PppCall.** `OneDialer` holds because `pppd_start` forks only where everything alive has
been told to end (`AllToldToEnd`), and the loop that forks has time left (`PollHasTime`).
`StatusKnown` lists for every place of the main loop the values of the status word, and
of the register in a load and store that the handler may interrupt; a lost update is
one of them, and still has a branch.

**EpollEcho.** `EchoUnlessMixed` speaks of the bytes that came back, which says nothing of
those still in `line`. `EeInv` follows what a client is owed as one sequence, `Stream`: what
it got, what is on its way, what `line` holds of it (`Held`), and what was not read. As long
as the client stays and no other connection was read between, these are the bytes it sent,
in order, and all of them if nothing was cut (`StreamOf`). A read, a receipt and a write
that is not cut leave `Stream` as it is (`FrontMoves`, `HeadMoves`), a short write cuts bytes
out of its middle (`MiddleCut`), a send adds one (`OneMore`). `Fits` bounds what a client
that does not flood has in `line` and before it, so that the read of a full line meets only
floods. `ReadingMixes` and `BatchOpen` say whose bytes `line` holds: a step on one connection
leaves the others alone (`Untouched`) or they have met it (`Mixed`).

**EpollBlock.** `NotForgotten`: a readable connection is in the kernel's list, or edge
triggered and among the events of this call, or the one being read. `EventsHold` says what
an event of a level-triggered connection still means when its turn comes.

**ForkServer.** `FsInv` says who may hold what: a connection is in one place of the backlog
or was accepted by one process (`BacklogNew`, `ForkingNew`, `ServedOnce`); in the time
servers the first process accepts and keeps every connection open (`TimeRoles`, `TimeHolds`),
so that descriptors run out and a client sees no end (`TimeEnds`); in `largedata` what was
written is read or on its way (`LargeRead`).

**SerialLine.** `RawWhileUsed` is what a program of `uart/` relies on when `ttystate` keeps it
from making the line raw again; `MuartLine` follows `muart.c` through its calls. The lemmas
before them say what each function does to settings, one field at a time.

**SerialTool.** Bytes are numbered as they arrive. Those in the driver come later than those
in the buffer and are in order; `Flushed` and `ReadFresh` hold of the tool that flushes,
`AllInOrder` of the others: what is in the buffer and in the driver is one run of numbers.

**SqlStore.** `WrittenInv`: what a process has written and not committed is the one row
`modify_sql` is about to commit, or it belongs to a transaction left open, inside which no
other can begin; so a later commit never carries it.

**KvFile.** `FileSays` holds until the file is truncated and `BufferSays` from then on: the lines
in memory say what is wanted with the new value in it (`ChangedSays`, `AppendSays`). A
process killed while it writes leaves a part of them (`PartSays`), and from then on `Torn`
allows a key to be missing. Once two lines were joined nothing is said.

**MsgQueue.** What was given out and, behind it, what is in the queue is one sequence, `Out`, of
which `Handed` says that numbers of one type increase, that its messages were sent and not
lost, and that every other one that was sent is lost or went with the queue. A send adds
one at the end (`Adds`), a receiver that is given a message moves it forward past others
of other types (`Moves`), one that takes an empty message for a failure leaves a gap
(`Misses`), and removing the queue cuts off the end (`CutOff`). `FirstOfType` says what
`msgrcv` takes. `NextIsSent` and `Numbered` tie the numbers to the places in `sent`.

**GpsReader.** `GrInv` speaks of the stream: what is unread in `rx_buf`, on the line and
still to be sent, in one sequence, wherever its bytes are. `Fine` says of it that items are
in order and no carriage return has lost its line feed, that of a sentence already parsed
nothing but the line feed is left (`Passed`), and that each clean sentence which was not
parsed is whole and stands where `parse_buf` will begin a packet (`Ready`, `Boundary`): at
the front, behind an end of line, or behind a line feed that the next read brings.
`Searched` adds that no carriage return is left behind when a parse is over, and that the
byte `from` skips is none. Each action then is one thing done to the stream: bytes are
dropped up to a `$` (`Begun`), a packet is cut off (`Cutout`), an item is added (`Grown`),
noise is garbled (`Garbled`), the middle is lost (`Reopened`). That a full buffer holds
noise follows: a clean sentence in it would end in a carriage return before its last two
bytes.

**AtModem.** `AnswerOwn`: as long as nothing is late a command is sent on a quiet line, and what
is in the buffer followed by what is on its way is the fresh beginning-to-end answer to it. A
read that ends with nothing outstanding has therefore read the whole answer (`WholeAnswer`), in
which a name has both its quotation marks (`QuotesPaired`), does not fit only if it is a long
one (`OverrunLong`), and which the driver accepts exactly if it is a good one (`AcceptsGood`).
The invariant also says that the check is `refused` exactly if it is not. `OperatorFirst`
follows the state of the SIM, since `get_signal` asks for the operator in an earlier check
than for the signal.

**CJson.** `ItemsAccounted` and `MembersFound` follow the links with the recursive functions `Kids`
and `Chain`, and a call that rewires a pointer may change what any of them leads to.
`CJsonInv` says instead that some `K` gives every item the sequence of what is in it, and
speaks of `K` alone: no item is in two places (`Apart`); none is below itself (`Grounded`:
no set of items other than the empty one has each of its members in a list of another);
the items in no list are those the client holds or has lost (`Owned`), and have nothing
after them (`Loose`); members without a name are those in `nameless` (`Named`). Only `Listed`
ties `K` to the pointers, one container at a time: `child` is the first of its list, `next`
leads through it to NULL, `prev` back and from the first to the last. `Grounded` cannot be
left out: without it an array hung into its own member would satisfy the rest, and no
item in the client's hands would lead to either.

Every call is made of a few changes to the pointers, and each has two lemmas: what it does
to the lists, and that the forest stays one. An item comes into a list (`Spliced`,
`SplicedList`, `StatePut`) or out of it (`Unspliced`, `StateOut`), takes the place of another
(`Replaces`), is made (`Newly`), renamed (`Renamed`) or deleted with what is below it (`Erased`,
`Erases`); `cJSON_Duplicate` puts a tree beside the old one (`Copied`, `Doubled`, `StateCopy`).
That the item to hang is not above its new place (`Below`) is the client's discipline, which
the guard `MayHold` states (`MayHang`): cJSON does not look. `Steps` has one case for each call. `KidsAre`
shows that following the pointers of a container gives its list, and `ChainIs` that what
`cJSON_Delete` frees is the least set of items that has the first and, with each, the next
and the first below it. With these, the properties follow: `OneOwner` counts the lists an
item is in, `NoneLost` and `NoneShared` say that from the client's items each one is
reached, and from one of them only. MCCJson's bounds are not used: the items are any
finite set, as large as memory.

**RwLock.** `love` alone may pass the limit. `AddingInv` bounds `love` together with the
number of writers that have passed the test and have not added yet: each of these was
let in when the sum allowed it.

**BeijingTime.** `BtInv` ties the table to the history: it has 29 days exactly when it was
turned. `ConvertRight` compares `utc2btc` with the calendar month by month.

**GpsFix.** `FixTold` speaks of what is printed; `Remembered` says the same of what is in
`gps` at any time, after every sentence (`RmcRemembered`, `GgaRemembered`). `GivenAppend`
says what one more sentence does to the last one that gave a field. `Said` keeps what is in
`gps` to what a receiver says, which `AngleRight` and `ConvertRight` need.

Where a proof needs induction over the numbers, the property is denied of a least number
(`NatLessThanWellFounded` with `WFMin`), which needs no operator as a parameter: `WalkIs` in
`LQueueProofs`, `MinOfNats` and `MaxOfNats` in `RecordProofs`, `LeastOfNats` in `ArrivalProofs`,
`Least` in `CJsonProofs`. From it `Counting` and `Iterates` of `CJsonProofs` are proved, with a
set where an induction theorem has an operator: they say that a function may be
defined step by step, and so what the recursive functions of `CJson` are.

Only model-checked:

- liveness (`MutexReleased`, `ZombiesReaped`, `DialsAgain`, `CleanRunEnds`, `Served`,
  `LockDemoEnds`, `LateExitReapsAll`, `DriverResyncs`), because fairness and ENABLED are
  beyond the prover;
- modules with RECURSIVE operators or Bitwise, where the prover has no SMT: `JsonTree`,
  `JsonText`, `JsonPatch`, `MKey`, `Codec`, `Checksum`, with their invariants `TextsReadBack`,
  `PatchesLead`, `SettingsWhole` and `EncodingReadsBack`.

## Plan

Done: the modules above. What is left, in this order:

1. An abstract specification of a serial exchange, which `AtModem` and the hex mode
   of `init_uart` would implement as long as no answer is late.
2. The flag of the MQTT client against the thread of libmosquitto.

## Not modelled

- `json/demo_s2j` has the same `cJSON.c` and `cJSON_Utils.c` as `json/mkey_str2j`, byte for
  byte, and `json/demo` and `json/mkey` an older version of `cJSON.c` without the integer
  type: about 10,900 lines that the modules of `mkey_str2j` speak of without naming them.
  struct2json (`s2j.c`, a layer of macros) and the short programs around these copies
  fill a struct or print one.
- In `cJSON.c`: the allocation hooks, the version string and the error position.
- `log` formats output. `net` sets interfaces and routes by netlink and ioctl, `flock`
  takes one lock: their state is the kernel's. `mqtt` is one flag around calls of
  libmosquitto.
- `epoll/epoll_commonfd.c` and `epoll/select_commonfd.c` wait for the terminal and print
  what comes. `socket/client.c` is a client with keep-alive options. `ipc/queue/bak/msg_send.c`
  and `msg_receive.c` are loops around the calls of `mmsg.c`.
- `pthread/sem/base` and `pthread/deadlock` show one primitive each; the deadlock of the
  latter is what they are written to show.
- `database/sqlite.c`: the queries, which print.
- `number`, `object`, `struct`, `memory`, `assert.c` and `cmd.c` show features of the
  language or the shell. `queue/klist/list.h` is a copy of the Linux list macros that
  nothing in the repository uses.
