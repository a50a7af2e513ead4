# Verification of unix-linux-works

`unix-linux-works` is a collection of programs written along *Advanced Programming in the UNIX Environment* (the
`aupe-chapter*` directories), *The Linux Programming Interface* (`tlpi-chapter*`) and *UNIX Network Programming*
(`socket-chapter*`). Most of them call one function of the kernel and print what it returns. A few keep state of
their own, share it between threads, processes or machines, and can go wrong in ways no run of them shows:
a binary tree with a lock, five designs of the same TCP server, their client, a datagram server, a daemon behind a
socket file, programs that live by one signal, and a few loops over files and tables. These are modelled in TLA+, checked by TLC on small instances and, where it matters most, proved by TLAPS for every instance.

To check a run: `tlc -config MCPoolServer.cfg PoolServerProperties.tla`. To check a proof: `tlapm PoolServerProofs.tla`.
`PROJECT.json` lists the runs, the theorems, the lines of the source each definition stands for, and the hazards.

## 1. Inventory

### Components that are modelled

| Component | Source | State it keeps | Operations |
|---|---|---|---|
| Binary tree | `tlpi-chapter29-33/binary-tree.[ch]` | nodes with key, value, two children, two counters; root, count, mutex | initialize, add, del, lookup, print_info, terminate |
| Select server | `socket-chapter6/server-select.c` | table of descriptors, two fd_sets, maxfd, max_index | select, accept, scan of the table, handle_info, close |
| Iterative server | `socket-chapter6/server-io.c` | the connection in hand | accept, handle_info, close |
| Forking servers | `socket-chapter26/procs-server.c`, `socket-chapter5/server-ex.c` | descriptors of each process, zombies, a pending SIGCHLD | accept, fork, close on either side, the handler's waitpid loop |
| Process pool | `socket-chapter26/procpool-server.c` | the pids of the workers, a connection per worker | create_child, child_main, sig_int |
| Thread server | `socket-chapter26/thread-server.c` | descriptors, blocks that hand them over, threads | accept, malloc, pthread_create, handle_info, close, free |
| Select client | `socket-chapter6/client-io.c`, `socket-chapter26/thread-client.c` (the same text) | what it still selects on, whether its input ended | select, read of the socket, read of standard input, shutdown, quit |
| UDP echo | `socket-chapter8/server-udp.c`, `client-udp.c` | address and length of the last sender, one line in hand | recvfrom, sendto on both sides |
| AF_UNIX daemon | `tlpi-chapter56-61/server.c`, `client.c` | the socket file, the connection in hand, `exit_flag` | bind, listen, accept, read, close, remove; connect, write |
| File-writing daemons | `tlpi-chapter37-38/create-daemon.c`, `tlpi-chapter41-42` | a counter of signals, a log | alarm, write, pause, the handler |
| Alarm examples | `aupe-chapter10/alarm.c`, `time-limit.c` | the alarm clock, a jump buffer | alarm, pause, read, longjmp |
| Zombie reaping | `tlpi-chapter24-26/create-zombie.c` | a child, SIGCHLD blocked or pending | fork, system, kill, sigsuspend, the handler's waitpid loop |
| Client factory | `socket-chapter26/client-factory.c` | five children | fork, wait |
| Abort | `tlpi-chapter21/abort-demo.c` | disposition and mask of SIGABRT, stdio's buffers | abort_like |
| Directory walk | `aupe-chapter4/filetree.c` | one path buffer, counters, the current depth | show_tree, main |
| Options | `global.c` | the table of options and values | option_new, option_iterator, option_item, option_get_opt, option_get_val |
| Process list | `tlpi-chapter12/getproc-info.c` | two static buffers | show_proc_list, read_file, show_info |
| File copy | `aupe-chapter4/copy.c`, `tlpi-chapter13/copy.c`, `aupe-chapter3/cpstd.c` | a buffer or two | the loop of each |
| dup2 replacement | `aupe-chapter3/dup2.c` | the table of descriptors | dup2_ex |

How they interact. The tree is called by threads that share it (`use-tree.c` calls it from one). The servers and the
clients share nothing but connections: bounded socket buffers each way, the end of file, resets, and SIGPIPE. Inside
the servers processes share inherited descriptors and signals, and threads share the table of descriptors, the heap
and their end. The daemon and its clients meet at a file, which no process owns. The programs with a signal meet
themselves: their handler runs between any two of their steps. The rest interact with the kernel only, whose calls may fail, do less
than asked, or find that the world has changed.

What is hard in each, and what makes it correct:

* **Binary tree.** `add` and `del` hold the mutex; `lookup` and `print_info` do not; `terminate` must be alone.
  `del` of a node with two children unlinks it, walks to the bottom of one subtree and grafts the other there.
  Correct: mutual exclusion on every error path, one parent for each node and no leak after every `del`, search
  order at every instant, `count` equal to the number of nodes (`terminate` frees nothing when it is 0), every call
  atomic between its invocation and its return, and every call returns.
* **Select server.** The table, the sets, the two high-water marks and the connections must tell the same story after
  any sequence of arrivals and closes; descriptor numbers come back; three different limits can be met first. The
  single thread blocks in `handle_info`. Correct: no connection forgotten or doubled, the table never fills, everybody
  is served in the end.
* **Iterative server and select client.** Two loops that block on each other through two bounded buffers. Correct: they
  never block in `write` at the same time, nobody is cut off while he may still speak, and both ends come to an end.
* **Forking servers.** `fork` duplicates descriptors, and a connection ends only when all of them are closed; one SIGCHLD
  may stand for many children. Correct: each process has the connection it serves and no other, no child stays a
  zombie.
* **Process pool.** Workers die without replacement; `fork` may fail half-way; ^C may come at any time, to the whole
  group. Correct: each connection with one process, the parent is the last to go, and `sig_int` ends.
* **Thread server.** The descriptor is handed over in a heap block while main already accepts the next; numbers
  are used again while old threads still run. Correct: every descriptor and every block has one owner at all times.
* **UDP echo.** No connection, no numbers on the datagrams, no timeout, an in-out length kept between calls. Correct: the
  answer a client reads is to its last line, and everyone whose line arrived is answered.
* **AF_UNIX daemon.** `bind` fails as long as there is a file, and only a daemon that stops in an orderly way removes it; the
  others wait while one client is read. Correct: the file is that of the daemon that listens, nobody is cut off by a
  daemon that goes on, everything written is printed, and "server stop" is heard.
* **Programs that live by one signal.** The signal may come before the wait it is to end; a pid kept over a wait may be
  another's. Correct: each comes to its end, and no `kill` goes astray.
* **The loops.** State shared by all levels of a recursion; buffers that still hold what was there before; answers of −1 in
  unsigned variables; loops that end only if one descriptor comes up. Correct: what they compute is what one can say
  without the loop, also when calls fail.

### Not modelled

Programs that make one call and print what it returns, or whose state is the kernel's, so that a model would say
only what the kernel does: the time server and client (`socket-chapter5`: accept and close; connect and read), the signal examples
(handlers that print, `aupe-chapter10/signal-test.c`, `sig2str.c`, `tlpi-chapter20`), the process, session and thread
examples (`aupe-chapter8`, `aupe-chapter9`, `tlpi-chapter24-26`, `tlpi-chapter34-36`, `create-thread.c`, `join-self.c`), the
file examples (`seek.c`, `access.c`, `cavity.c`, `chmod.c`, `info.c`, `chmod-a-x.c`), the error reporting of `error-handle.c`, the
system information. `use-tree.c` is a fixed sequence of calls of one thread, each of which `BinaryTree` makes. `client-ex.c`
and `multiple-clent.c` write and read in turn: all they do a client of `TcpService` may do in `ForkServer`. In the
modelled servers the calls before the main loop (`socket`, `bind`, `listen`, parsing of
arguments) either succeed or end the program, and are behind `Init`; only in the daemon, where `bind` and `listen` are what
matters, they are actions. Texts, sizes and formats are abstracted: a line
is a line, `"server quit"` is told apart because the code tells it apart.

## 2. Plan

| Order | Module | Composes | Abstract specification | State |
|---|---|---|---|---|
| 1 | `BinaryTree` | | `Dictionary` | modelled, checked, safety and refinement proved |
| 2 | `BinaryTreeReader` | `BinaryTree` and a history variable | | checked |
| 3 | `TcpService` | | | modelled; lemmas in `TcpServiceProofs` |
| 4 | `SelectServer` | `TcpService` | | checked, safety proved |
| 5 | `ForkServer`, `PoolServer`, `ThreadServer` | `TcpService` | | checked, safety proved |
| 6 | `SelectClient`, `IterativeServer` | both, on `TcpService` | | checked, safety proved |
| 7 | `UdpEcho` | | | checked, safety proved |
| 8 | `UnixDaemon` | | one owner of the socket file (an invariant) | checked, safety proved |
| 9 | `SignalPrograms` | | | checked, safety proved |
| 10 | `FileTree`, `Options`, `ProcessList`, `FileCopy`, `Dup2` | `SmallPrograms` runs them all | what each computes, said without its loop (an invariant each) | checked, safety proved |

Theorems to come: the simulation of one service loop per connection that all five servers share.

## 3. Modules

Each component has a module for its state and actions, one for its properties (`...Properties`), one that
TLC instantiates (`MC...`) if the instance needs definitions of its own (`MCPrograms` runs `SmallPrograms` or `SignalPrograms`, one program in each behaviour; otherwise `MC....cfg` instantiates the properties' module) and, where theorems are proved, one for them (`...Proofs`).
Definitions such as `OtherMixedUp` just before `Other`, of the same parameters, are slips one could make in the code;
no action uses them. Each property that a run checks is known to fail when the definition is replaced by such a slip.

**`BinaryTree`** (`binary-tree.c`). Memory is a set of blocks, each `free`, `raw` (after `malloc`) or `node` (after
`init_node`). A thread is at a label between two accesses to shared memory: `AddDescend` and `DelDescend` are one
turn of the recursions of `add_node` and `del_node`, `DelUnlink` the assignments before `get_bottom_child_node`, `DelBottom`
one step of its loop, `DelGraft` the assignment after it, `Visit` one turn of `traverse_tree`. `path` is what the
unwinding recursion corrects counters along. Following `NULL`, a freed or an uninitialised pointer is undefined: the
model stops, with the reason in `fault`. `initialize` leaves `root` as `malloc` returned it, and `FreshRoots` says what
that may be. A key argument is the 63 characters a node keeps and whether there are more, since `strncmp` compares 64.

**`Dictionary`** is what `binary-tree.h` promises: a store of entries, calls that take effect in one step.
`BinaryTreeProperties` maps the tree to it: the store is what the blocks that are nodes hold, so that `add` takes effect
in `init_node` and `del` in `free`.

`AloneSpec` is the tree of a program that reads only while nobody else is in a call: what a reader meets beside a writer is
the next module's.

**`BinaryTreeReader`** adds one variable, whether the key a reader looks up was in the tree ever since its call began.

**`TcpService`** is one connection per client, and `handle_info` (the same loop in all servers): `Read` takes one or more
messages and perhaps the beginning of the next (64 bytes are the most it takes), recognises `"server quit"` when it comes first
in what was read, and treats the −1 of a reset as the enormous length it is in a `size_t`: one more line. `Message` is what
clients write at a time. What is left of one after a cut (`Rests`) is a line, never `"server quit"` any more, unless the message
only ended in these words (`"say server quit"`): then it may have become a request to stop. `Write` blocks while the client's socket is full, and brings SIGPIPE
(`Sigpipe`) after a reset was told. `Connect`, `Send`, `HalfClose`, `Receive`, `Leave` are what `client-io.c` does to the
connection, in any order it can; `ResetArrives` is the network.

**`SelectServer`**: one action for `select`, for `accept` with the search for a free slot (`Watch`), for a turn of the scan,
for each `read` and `write` of `handle_info`, for `close` with the reset of slot and bit, and for the end of a turn
(`NextSlot`). The kernel hands out the lowest free descriptor. `FD_SET` beyond `FD_SETSIZE` is undefined: `Overflow`.

**`ForkServer`** is both programs, with the difference in `program`: `procs-server.c` ends when `accept` or `fork` fails,
`server-ex.c` logs and goes on, but ends when the parent's `close` fails (`CloseError`); its child says farewell before it closes.
The child of `procs-server.c` closes at once, serving nobody, when `getsockname` fails (`Begin`). `holders` says which processes have a
connection open, `pending` and `sig` whether SIGCHLD is pending and whether its handler runs.

**`PoolServer`**: the parent creates, pauses, and in `sig_int` kills and waits; each worker accepts, serves (or, when `getsockname` fails, does not), closes. ^C
goes to all processes of the group at once. When `fork` fails, the parent itself enters `child_main`, as the code has it.

**`ThreadServer`**: `Accept`, `Malloc`, `Create` of the main thread, `Start`, `Serve`, `Close`, `FreeBlock` of the others;
`block` is the heap, `client` the descriptor table. `CreateError` changes nothing but what was handed over is now lost:
nothing looks at the result of `pthread_create`. `main` returning and SIGPIPE end all threads.

**`SelectClient`** is the loop of `client-io.c` in full: `Select`, `ReadSocket`, then `ReadStdin` if both are ready, and
`SendLine`. **`IterativeServer`** puts it together with `server-io.c`; there the client's half of the connection has a life
of its own after the server has closed (`seof`, `rest`, `creset`).

**`UdpEcho`** is both programs: `Recvfrom` stores the address as far as `len` allows and then sets `len`; `Sendto`
to the zero address goes nowhere. Both programs use the loopback interface, which neither loses nor reorders: a
datagram is dropped when nobody is bound to the port or the socket is full.

**`UnixDaemon`** has several starts of the server and of the client, and the file between them: `file` is the daemon whose socket
it is. `Start` is the two forks, whose parents exit with 0 whatever becomes of the grandchild. `Bind`, `Listen`, `Accept`, `Read`,
`Close`, `CloseListening`, `RemoveFile` are the calls of `create_server`; `Die` is any failing call and any signal (there is no handler), and
leaves the file; `Tidy` is somebody's `rm` of a file whose daemon is dead. `CloseListening` cuts off the connections nobody has accepted; until then
one can connect. A read of 64 bytes may cut the last line it takes (`part`): "server stop" is not recognised in the pieces of a line, but the
rest of a line that ends so may be.

**`SignalPrograms`** has one behaviour for each of its programs, chosen by `Init`. `Tick` is the program's own alarm, `Stray` a SIGALRM
from elsewhere; both run the handler (`Handle`) wherever the program is. `Sigchld` runs `proc_end`, or leaves the signal pending
while it is blocked. `Look` is `sleep` and `system`, whose shell is a child too: its end may leave a SIGCHLD pending.
`early` says that the alarm went off before the program came to its `pause`.

**`FileTree`, `Options`, `ProcessList`, `FileCopy`, `Dup2`** are operators: what a program has in its variables when it comes to its
loop (`Walk`, `Raw`, `NothingShown`, `Opened`, `Dup2Ex`), and what one turn makes of that (`NextEntry` and `Returned`, `Turn`, `ShowProc`,
`Turned`, `Dupped` and `ClosedNext`). **`SmallPrograms`** is their state machine: a behaviour is one run of one program on one
input, a step one turn of a loop. The recursion of `show_tree` is its stack: a frame for each call that is in its loop, with the
path it was called for, `cur_size`, and what `readdir` has still to return; the path the program is given may be a directory, a file, missing or
locked, with or without a slash behind it; `WalkTurn` takes the next entry of the top one and
makes the call for it, `WalkReturns` is the return of a call whose directory is read, and `WalkCrashes` the turn whose `realloc` fails. What is shared by all calls (`NAME_BUFF`,
`FILE_INFO`) is outside the frames. What the kernel answers is input (which directories cannot be opened, which processes
and files have gone) or chosen in the step (what each read and write of a copy returns). A read or scan beyond a buffer (`copy.c`
after a failing read) runs on through the stack and is taken to end the process: `crashed`. A `dup2_ex` that can only call
`dup` in vain does so for ever. One whose second loop has passed the end of the table, because `newfd` is the lower number, comes to the
overflow of `begin_fd++`, which C leaves undefined (`Overflowed`): it goes on through the negative numbers and from 0 up to
`newfd`, as it does where the number wraps around, or never ends.

## 4. Runs

| Run | Instance | What it shows |
|---|---|---|
| `TreeCalls` | 2 threads, one of which also reads while the other is idle, 3 blocks, 3 keys, 2 values | every call refines `Dictionary` (`Linearizable`), under the mutex (`MutexHeldInside`), and `count` is right (`CountIsPopulation`) |
| `TreeLong` | 1 thread, 4 blocks, 4 keys, 1 of them cut off, garbage root allowed, fairness | shape (`TreeIntact`), order in the middle of a `del` too (`SearchOrder`), counters never too high (`CountersNeverOverstate`), no leak (`NothingLeaked`), two faults only (`OnlyKnownFaults`), every call returns (`CallsReturn`) |
| `TreeMissed` | 1 writer, 1 reader, 3 blocks | **violated**: `SteadyKeyFound` |
| `Select` | 3 clients for ever, one of which may vanish, 4 slots, 4 descriptors, 2 above `FD_SETSIZE`, fairness | `TableConsistent`, `OneDescriptorEach`, `NeverTooMany`, `EveryoneServed` |
| `ForkServer` | 2 clients, 2 children, both programs, fairness | `NoZombieForgotten`, `OwnConnectionOnly`, `EveryoneServed`, which here says of every child that it ends and is waited for |
| `PoolServer` | 2 workers, 2 clients, fairness | `OneProcessEach`, `AllWorkersTold`, `InterruptEnds`, `EveryoneServed` |
| `IterativeServer` | 2 clients, 5 lines and 1 line, two messages in a socket on the way to the server, one back, fairness | `NeverStuck`, `NotCutShort`, `ClientEnds` |
| `ThreadServer` | 2 clients, 2 threads, 2 blocks, 2 descriptors, fairness | `OneThreadEach`, `OneBlockEach`, `EveryoneServed` |
| `UdpEcho` | 3 clients, room for 2 datagrams, fairness | `OneUnderWay`, `LinesAnswered` |
| `UnixDaemon` | 2 daemons, 2 clients, 1 place in the backlog, 2 lines, fairness | `OneOwner`, `NobodyCutShort`, `AllPrinted`, `StopHeard` |
| `Programs` | the programs of `SmallPrograms`: all trees of 4 entries, starts of every kind, up to 6 arguments, 3 processes, 3 bytes, tables of 4 descriptors, fairness | what each program has done when it ends, and a copy at any time: `WalkComplete`, `OptionsKept`, `ProcessesShown`, `CopyFaithful`, `ReplacedAsTold`; walks end, and `dup2_ex` returns when it can: `LoopsEnd` |
| | those of `SignalPrograms`: 5 children, 3 stray signals, fairness | `KillHitsChild`, `ComesToItsEnd` |
| `Dup2Same` | all tables of 4 descriptors | **violated**: `SameAsDup2` |

The type invariants (`TypeOK`) are no part of the runs, since they are proved (section 5) for the modules that have one.

**Bounds and why they are enough.** A `del` is hard when the victim hangs left or right, has two children, and the one
the other is grafted under has depth: three nodes make every case of `del_node`, four make the loop of
`get_bottom_child_node` take a step. Equal keys need a cut-off argument added twice, for which the fourth key
leaves room. Two writers show every interleaving at the mutex, a third would wait like the second. A table of four
slots with three clients has every pattern of holes that the search and the high-water marks can meet, and
two descriptors on either side of `FD_SETSIZE`. Two clients with two children, workers, threads and two of each
resource let one be closed while the other is opened, which is what reuse needs, and let each resource run
out; more of a kind repeat this. Buffers hold one message, and two on the way to the server in `IterativeServer`: a full buffer, a read that takes
more than was sent at once and one that cuts a message (of five lines, there) all happen. In `UdpEcho` three lock-step clients overflow room for two.
Two daemons let one be stopped, killed or tidied after while the other binds; two clients let one wait, and two lines
let "server stop" come alone and with another. Four entries nest a tree deep enough for the buffer to grow twice, and
a link, followed once, brings a path deeper still; a failing entry can stand before, between and after others. Six
arguments have every order of options, values and lone values three deep. A buffer of two bytes and files of three need two reads, the second short.
The theorems below are for any number of all of these.

**What is constrained.** `Message`: what clients write, where it matters "say server quit" too. `Inbox`, `Outbox`, `Room`: bytes a socket buffers, in messages. `Backlog`: as `listen` has it. `Again`: whether clients come
back. `Leaving`: who may vanish. `Lines`: how many lines each user types. `FreshRoots`, `LongKeys`: see above. `Limit`, `OpenMax`:
the limit on descriptors. `Num`, `Strays`: children of the client factory, SIGALRM from elsewhere. `NAME_MAX`, `LinkMax`, `RdSize`, `RetSize`, `BufferSize`: the length of a
name, the links the kernel follows, what one read takes of a status, the room for the line found in it, and what one read takes of a file. `Trees`, `Lengths`, `ArgLists`, `Directories`, `Sources`, `Files`, `Chars`: the inputs
of the small programs (file systems, lengths of the path given, arguments, contents of `/proc`, of a file, of the descriptor table, of a line of a status). `ReaderAlone`, of `TreeCalls`: see `AloneSpec`. There is no other bound: all counters are finite in these instances. `CHECK_DEADLOCK FALSE`
stands wherever the program may end, be lost in undefined behaviour, or wait for a client that says nothing.

**Fairness and why the code justifies it.** Weak fairness everywhere: the kernel runs each thread and process that can
take a step. It is put on the steps, never on a failure: `accept`, `malloc`, `fork` and `pthread_create` may fail at any
time but need not, except when the model's last descriptor, block or thread is gone, where waiting for success would be
wrong. Users must end: a client that stays reads its answers (`Receive`; `client-io.c` does whenever select says so)
and closes its half in the end (`HalfClose`); a reset that is on its way arrives. Without a client that ends, no server
here would owe anybody anything, for each serves a connection to its end. In `IterativeServer` there is no such
assumption about closing: the client's own loop runs, and a user types finitely many lines and ends the input. Nobody need connect, type, press
^C, kill or restart. In `BinaryTree` a running call takes its next step; nobody need call. In `UnixDaemon` a daemon that can go on
does, and every user ends his client; nobody need start a daemon, kill or tidy. In `SignalPrograms` the program runs, the
alarm it has set goes off, and children end; no other signal need come, and no input.
In `SmallPrograms` only the walk and `dup2_ex` must go on (`WalkGoesOn`, `Dup2GoesOn`): they wait for nobody.

**What the violated runs show.** `TreeMissed`: `binary-tree.h:9` calls the tree thread-safe. While `del` deletes a root that has two
children, the one it hung up as the new root (`binary-tree.c:443`) has the other grafted under it only behind `get_bottom_child_node` (`:452`).
In between a whole subtree hangs nowhere, and an unlocked `lookup` answers that a key which nobody deletes is not there. For a victim that is
not the root `del_node` has the same window from `:205` to `:211`; it takes a fourth block, which this run does not have. (What a reader beside a
writer may find besides, in nodes not yet filled in or already freed, is no part of this property; see below.)

`Dup2Same`: `dup2.c:4` says that `dup2_ex` does what `dup2` does. It ends with `oldfd` closed, and every descriptor up to `newfd`
with it. (`ReplacedAsTold` says exactly what it leaves, since that is what a caller gets.)

**Other things the models say about the code**, without a run of their own:

* A `lookup` or `print_info` beside a writer may also read a node before `init_node` has filled it in or after it was
  freed (`fault`). `del` on an empty tree follows `NULL`, and the first call on a fresh tree follows a root that
  `initialize` never set: `OnlyKnownFaults` says that there is nothing else. `lookup` returns 0 whether it found the key or not.
* A key of 64 characters or more is stored shorter than it is compared: it can be added twice, and is never found.
* `left_count` and `right_count` fall behind after a graft: `CountersNeverOverstate` holds, equality does not.
* `server-select.c:54` and `:59` say that the loop is driven by the descriptors `select` found readable. Line 170 tests
  `all_set`, in which every connection is: the loop serves, and blocks on, a silent client.
* `fd_num` is spent on connections that `select` did not report and each scan starts at slot 0, so
  that clients who come back for ever can starve one in a higher slot: without its last case (`Overtaken`) `EveryoneServed` is violated. It
  says that newcomers are the only reason for being passed over, and that some one of those who wait is then served before all of them are.
  With more descriptors than `FD_SETSIZE` allowed, `FD_SET` writes out of bounds before "too many clients!" could be said.
* In `procpool-server.c`, ^C before `sig_int` is installed ends the parent, and a worker that is forked after it came goes on without one:
  no property speaks of that, and `AllWorkersTold` starts when `sig_int` runs. A pool never replaces a worker: `EveryoneServed` holds while one is left.
* `server-ex.c` hangs up on a client when `fork` fails. `thread-server.c` leaves him waiting when `pthread_create` does,
  with his descriptor and block lost; its joinable threads are never joined. (The comment above its `main` is that of the
  iterative server.)
* `server-udp.c` starts the address length at 0, so that the first `recvfrom` stores no address and the first line of all is
  never answered; its client waits for ever, and says "server has been terminated!" never, since no datagram is empty.
* The socket file of a daemon that was killed stops every later start without a word: the parents have exited with 0 by
  then. The comment at `tlpi-chapter56-61/server.c:67` has the daemon catch signals and exit; no handler is installed. "server stop" is not
  recognised when a read returns it with another line or only a part of it, and whoever waits in the backlog loses his lines when the daemon stops.
* An alarm that goes off between `alarm` and `pause` is not waited for: `sleep1` and the log daemons then sleep until some other
  signal comes. In `create-zombie.c` the SIGCHLD of a shell of `system` may be pending still and lets `sigsuspend` return at once.
  `abort_like` does not outlast a handler that leaves by `longjmp`, as the comment at `abort-demo.c:36` claims it does: nothing comes after
  `kill` then. When a `fork` of `client-factory.c` fails, its earlier children are not waited for.
* `filetree.c`: each directory that cannot be opened or has gone ends the loop of its parent, and leaves the depth one too high for
  all that follows. `max_depth` counts those too. When `realloc` fails, the message about it is printed and the walk goes on with a `NULL` buffer.
* `global.c`: an option with a value leaves an entry at the end of the table unused, which nobody clears: the iterator goes on
  through what `malloc` left there.
* `getproc-info.c`: a process that ends during the scan ends the scan. A process whose name contains `Pid:` is shown with what
  follows it in its name.
* `copy.c`, of either chapter, copies a file onto itself by emptying it. A failing `read` crashes the one of
  `aupe-chapter4`; in that of `tlpi-chapter13` `write` then fails as well, both answers are the same number, and the loop goes on, for
  ever if the error stays. `cpstd.c` exits with 0 after errors, and ends at a read that is shorter than "exit" if the buffer still holds the rest
  of it. The comment at `tlpi-chapter13/copy.c:65` says that only what is not a hole is copied; a hole reads as NUL bytes, and the loop writes
  them like any others: `CopyFaithful` has them in the destination of a finished copy.
* `dup2_ex` closes every descriptor from `oldfd` up to `newfd`, `oldfd` included, and opens
  the free ones below `oldfd`. It does not return when `oldfd` is closed or `newfd` is out of reach. With `newfd` less than `oldfd` it
  increments `begin_fd` past the greatest `int`: if that wraps around it returns `newfd` with every other descriptor below `newfd` and from
  `oldfd` on closed. `dup2_ex(fd, fd)` returns `fd` even if that is closed, where `dup2` fails.
* `getproc-info.c` copies the line it finds into a buffer half as long as the one it reads into, and trusts that none is longer.

## 5. Proofs

All theorems are about `Spec` (`DaemonSpec`, `SignalSpec`, `SmallSpec` in `SmallSystemsProofs`), that is without fairness, and for every value of the constants that the named assumption
of each module allows. In each `...Proofs` module the argument is the same: an invariant `IInv`
holds initially (`InitInv`) and is preserved by each action (one lemma each, put together in `NextInv`), and implies what
the theorem says.

| Module | Theorem | States | Assumption | Inductive invariant and why it is needed |
|---|---|---|---|---|
| `BinaryTreeProofs` | `TypeCorrect` | `TypeOK` | `ConstantsAssumption` | adds that a thread at a label has what the label works on (`CallInv`): the call it is in, the node in `cur` or `tmp` |
| | `MutexCorrect` | `MutexHeldInside` | | adds that nobody is in `add` or `del` unless the tree is up, and that `terminate` is alone (`MutexInv`): `initialize` sets the mutex anew |
| | `HeapCorrect` | `TypeInv /\ MutexInv /\ HeapInv` | | `HeapInv` says what the heap looks like at each label: a `Forest` whose one root is `tree->root`, except where `add` has published a raw block (`init`), where `del` has cut a subtree off (`bottom`) and before it frees what it unlinked (`free`); and, for `terminate`, the forest of what its recursion has still to visit |
| | `TreeCorrect` | `TreeIntact` | | `HeapInv`: in a forest with one root everything is under it, and has one parent |
| | `CountCorrect` | `CountIsPopulation` | | `HeapInv`, with what `count` lacks between a change and the unlock |
| | `NothingLeakedCorrect` | `NothingLeaked` | | `HeapInv`: when the recursion of `terminate` ends, the forest has no roots left, thus no nodes |
| | `SearchOrderCorrect` | `SearchOrder` | | `OrderInv`: all of memory is sorted, not only what is reachable; a walk knows that its key belongs where it stands, and `get_bottom_child_node` that the orphan belongs below where it looks |
| | `CountersCorrect` | `CountersNeverOverstate` | | `SizeInv`: `path` is the ancestors of where the walk stands, and who changed the tree has yet to correct exactly their counters |
| | `FaultsKnown` (of `AloneSpec`) | `OnlyKnownFaults` | | `ReadersInv`: what a reader that runs alone may follow is a node, or the root that `initialize` left |
| | `TreeIsDictionary` (of `AloneSpec`) | `Linearizable` | and `LongKeys = {}` | all of the above, with `FindInv` (a key is in one node, and a search whose key is in the tree has its node before it), `PrintInv` (what is printed is ascending and below all that waits on the stack of the recursion, and each node is printed or waits) and `AnswerInv` (a thread has its answer from the step that gives it until it returns) |
| `SelectServerProofs` | `TableCorrect` | `TableConsistent` | `SelectAssumption` | `TableInv`, with the descriptor in hand in slot `i` (`ServeInv`), one client for each open descriptor (`ClientInv`), and every open descriptor below `FD_SETSIZE` (`FitInv`) |
| | `DescriptorsCorrect` | `OneDescriptorEach` | | the same |
| | `NeverFull` | `NeverTooMany` | | the slots in use inject into the descriptors between `lfd` and `FD_SETSIZE`, which are fewer than the slots |
| | `TypeCorrect` | `TypeOK` | | |
| `ForkServerProofs` | `ZombiesNoticed` | `NoZombieForgotten` | `ForkAssumption` | one conjunct of `IInv`, preserved on its own given the types |
| | `DescriptorsCorrect` | `OwnConnectionOnly` | | adds that a process that serves has a connection to serve, and that before `fork` only the parent holds the new one (`TaskInv`) |
| | `TypeCorrect` | `TypeOK` | | |
| `PoolServerProofs` | `ConnectionsCorrect` | `OneProcessEach` | `PoolAssumption` | inductive with the types |
| | `WorkersTold` | `AllWorkersTold` | | `KillInv`: every worker was created by the time sig_int may run (`CreatedInv`), none was waited for, and it is the one ^C that started it (`InterruptedInv`), so that no signal of a worker is taken back |
| | `TypeCorrect` | `TypeOK` | | |
| `IterativeServerProofs` | `NoMutualWait` | `NeverStuck` | `LinesAssumption` | a client takes a line only after it has emptied its socket (`Polite`), and what a close left fits (`RestInv`, `FitInv`): every answer since then is to a message that left room |
| | `NobodyCut` | `NotCutShort` | | `Courtesy`: what a client and its connection know of each other (`Honest`: a reset comes from who is gone, half a connection is closed at the end of the input only), and that the loop over a client that has not asked for the end stops only behind its last message (`Untroubled`) |
| | `TypeCorrect` | `TypeOK` | | |
| `ThreadServerProofs` | `DescriptorsCorrect` | `OneThreadEach` | `ThreadAssumption` | the two ownership properties need each other (a descriptor is read through a block), and what main has at hand (`MainInv`) |
| | `BlocksCorrect` | `OneBlockEach` | | the same |
| | `TypeCorrect` | `TypeOK` | | |
| `SmallSystemsProofs` | `AnswersCorrect` | `OneUnderWay` | `UdpAssumption` | inductive with the types |
| | `TypeCorrect` | `TypeOK` | | |
| | `OwnerCorrect` | `OneOwner` | `DaemonAssumption` | inductive with the types; proved as part of `DaemonInv` |
| | `ConnectionsKept` | `NobodyCutShort` | | `DaemonInv`: whom a daemon reads, or has waiting, is connected to it, and it closes on a client only when that client has ended or it has been told to stop (`HeldInv`, `LinkInv`) |
| | `KillAimed` | `KillHitsChild` | `SignalAssumption` | `MaskInv`: SIGCHLD is blocked from before the fork until after the kill |
| | `WalkCorrect` | `WalkComplete` | `SmallAssumption`, `FileTreeAssumption` | `WalkInv`: between two turns every directory shown is either in the stack, with what is left of it behind all that was shown (`OpenedRight`, `Framed`), or finished (`Visited`); each path has one line and one count (`Counted`); lines and `cur_depth` stand where depth and leaks put them (`Indented`, `Levelled`); the buffer has room for one more name behind each open directory (`RoomLeft`), though it grows only for the deepest |
| | `OptionsCorrect` | `OptionsKept` | `SmallAssumption` | `OptsInv`: the table up to `i` is the pairs of the arguments read, the last option perhaps still without its value, none of them empty, and what follows is as `malloc` left it |
| | `ProcessesCorrect` | `ProcessesShown` | `SmallAssumption`, `ProcessListAssumption` | `ListInv`: the lines are those of the entries read, none of which had gone; the buffers may hold anything, and what is read into them (`ReadInto`) and copied is found again behind its own NUL |
| | `CopyCorrect` | `CopyFaithful` | `SmallAssumption`, `FileCopyAssumption` | `CopyInv`: the destination followed by what is to be kept of the rest is what is to be kept of the source, and the write buffer is empty between two turns |
| | `ReplacedCorrect` | `ReplacedAsTold` | `Dup2Assumption` | `DupInv`: in the first loop the free descriptors below some number are open on the file (`Filled`), in the second those from `oldfd` up to `begin_fd` are closed again (`Emptied`) |

`SmallSystemsProofs` holds the theorems of the systems that share nothing, one after the other. That it can extend them all is
why the names of the specifications are prefixed (`DaemonSpec`, `SignalSpec`, `SmallSpec`, ...).

The five theorems about the small programs say what a loop computes for inputs of any length. Induction is on the steps of the
program, which is what its invariant is for. Where it must be on numbers or lengths (the next entry `readdir` returns,
the first empty entry of the table, the bytes of a file that are not NUL), the argument is about the least element of a set, or
the least counterexample (`Least` and `Induct`, from the well-foundedness of `<` on the naturals). Their constants are as free as the code's inputs: `IsTree` asks no more of a file
system than that entries have a kind and a directory, so that a walk may meet itself; such a walk need not end, but
`WalkCorrect` is about those that do.

`TcpServiceProofs` holds the lemmas all TCP servers rest on (what a step of a client, of `handle_info`, and the end of a
set of connections does to types and stages), under `ServiceAssumption`.

`TreeIsDictionary` maps each action of the tree to an action of `Dictionary`, or to none (`StartMaps`, `HiddenMaps`, `AddMaps`,
`DelMaps`, `ReadMaps`, `EndMaps`): `add` takes effect where the node is filled in, `del` where it is freed, `lookup` and
`print_info` where they end. Its hypotheses are where the code keeps the promise: a reader beside a writer misses keys
(`TreeMissed`), and an argument longer than `init_node` keeps is never found again (section 4). `TreeCalls` checks it under the same two.

**Only model-checked.** Everything with fairness (`CallsReturn`, `EveryoneServed`, `InterruptEnds`,
`ClientEnds`, `LinesAnswered`, `AllPrinted`, `StopHeard`, `ComesToItsEnd`, `LoopsEnd`): liveness and `ENABLED` are out of reach of the prover. `SteadyKeyFound`
and `SameAsDup2` are violated. Every other property of the runs is a theorem.
