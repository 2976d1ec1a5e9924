# TCPIPNP in TLA+

The repository holds the programs its author wrote while reading a book on
TCP/IP network programming: some sixty small programs for Linux, one directory
per chapter, each a `main` and a few functions around system calls.  They share
no code (the vendored formatting library in `include/fmt` aside), so a
"component" here is a program, or the programs of a chapter that talk to each
other.  What is worth modelling is what a program cannot control: the order in
which clients connect, type and leave, what one `read` returns, which thread or
process runs next, which signals merge, what a peer that has gone does to
`write`.

## Inventory

| component | state it keeps | operations | talks to | hard behaviour |
|---|---|---|---|---|
| chat server, `ch18/chat_server.cpp` | `clnt_socks`, `clnt_cnt`, `mutex`; per thread its socket and buffer | accept and register; read; broadcast; remove and close | chat clients over TCP; its own threads through shared memory | threads, the address of a stack variable shared by all of them, a lock held while `write` blocks, a removal loop that removes somebody else |
| chat client, `ch18/chat_client.cpp` | socket, name | two threads: type, print | chat server | ends from one thread while the other reads |
| select echo server, `ch12/echo_selectserv.cpp` | `read_set`, `fd_max`, the snapshot `copy` | select, accept, read, echo, close | echo clients | a snapshot used while descriptors close and reopen; one blocking write stalls everybody |
| epoll echo servers, `ch17/*.cpp` | epoll set, event array | epoll_wait, accept, read, echo, close | echo clients | level and edge triggering, a loop that goes on after `close` |
| process-per-client servers, `ch10/echo_mpserv.cpp`, `ch11/echo_storeserv.cpp` | process table, descriptors shared by `fork`, a pipe | accept, fork, echo, SIGCHLD handler, log through the pipe | echo clients; parent, child and logger | merged signals, zombies, children that never exit, a full pipe |
| process programs, `ch10/{fork,zombie,wait,waitpid,remove_zombie,signal,sigaction}.cpp` | process table, pending signals | fork, exit, wait, alarm | the kernel | order of exits, merged signals, `sleep` cut short by a signal |
| pipes, `ch11/pipe1.cpp`, `ch11/pipe2.cpp` | a pipe | write, read | parent and child | one pipe used in both directions, kept in order by `sleep` |
| thread programs, `ch18/{thread1,thread2,thread3,thread4,mutex,semaphore}.cpp` | a shared number, a mutex, two semaphores | create, join, add, wait, post | threads | lost updates, handing over one value at a time |
| TCP echo, `ch4/*.cpp`, `ch5/echo_*2.cpp`, `ch9/reuseadr_eserver.cpp`, `ch10/echo_mpclient.cpp`, `ch15/echo_*.cpp` | one connection at a time, number of clients left | accept, read, echo; write, read back | each other | partial reads, messages larger than the buffers, a client that waits for ever |
| calculator, `ch5/op_server.cpp`, `ch5/op_client.cpp` | request buffer, result | send operands, compute, answer | each other | a request cut in two by TCP, 32-bit overflow |
| UDP, `ch6/*.cpp` | datagrams in flight | sendto, recvfrom | each other | loss, duplication, message boundaries, two peers on one socket |
| file transfer and half close, `ch7/*.cpp`, `ch16/*.cpp` | file position, the two directions of a connection | send the file, shut down one direction, read the thanks | each other | half-closed connections, one descriptor behind two streams |
| out-of-band and peeking, `ch13/*.cpp` | urgent mark, receive queue | send/recv with flags, SIGURG handler | each other | a handler that runs between any two instructions |
| news by multicast and broadcast, `ch14/*.cpp` | file position, datagrams | send a line every two seconds, print | each other | lost datagrams, the end-of-file loop |
| copies, `ch15/*cpy*.cpp`, `ch16/dup.cpp` | buffers | read, write | files | what is copied at the end of the file |
| web server, `ch24/webserver.cpp` | per thread its streams | accept, parse one request line, answer, close | browsers | the same shared stack variable as the chat server, descriptors never closed |
| hello and conversions, `ch1`, `ch2`, `ch3` | none to speak of | connect, print; convert addresses | | the static buffer of `inet_ntoa` |
| names and options, `ch8/*.cpp`, `ch9/{get_buf,set_buf,sock_type}.cpp` | none | ask the resolver or the kernel and print | | none |

What makes each of them correct is listed, line by line, under "hazards" in
`PROJECT.json`, with the properties that would notice it going wrong.  In short:

- *chat server*: messages reach everybody in one order; nobody's text is lost,
  doubled or reordered; the lock is always given back; the count of clients is
  right whatever joins and leaves; a client that leaves is noticed.
- *echo servers*: a client gets back what it sent, once and in order, and
  nothing of another client's; no call of a loop that serves many blocks on
  one; nobody is forgotten; leaving is noticed.
- *threads*: no update is lost under the lock, and a bound holds without it;
  each value is handed over once, and the program ends.
- *processes*: a handler looks at a status that was written; records that
  share a pipe stay whole; processes end when their client leaves.
- *one client at a time*: a client that waits for an answer gets one, and the
  right one; a server outlives its clients; an answer is the sum or the product
  of what was sent; half-closed connections deliver what was sent before, and
  both programs end.
- *web server*: who asks is answered with what he asked for; descriptors are
  given back.
- *UDP*: an answer belongs to the line that was typed; a receiver prints the
  whole text, each part as often as it was sent, and otherwise only what is left in
  its buffer from there.

## The modules

| module | of the repository | kind |
|---|---|---|
| `TcpConn` | the kernel's connections, as the programs use them | operators on a connection record; external |
| `ChatServer` | `ch18/chat_server.cpp`, client side `ch18/chat_client.cpp` | state machine, uses `TcpConn` |
| `Broadcast` | what the chat server promises | abstract specification |
| `SelectServer` | `ch12/echo_selectserv.cpp`, client side `ch4/echo_client.cpp` | state machine, uses `TcpConn` |
| `EpollLevel` | `ch17/echo_epltserv.cpp` and `ch17/echo_epollserv.cpp` | state machine, uses `TcpConn` |
| `EpollEdge` | `ch17/echo_epetserv.cpp` | state machine, uses `TcpConn` |
| `ForkServer` | `ch10/echo_mpserv.cpp` and `ch11/echo_storeserv.cpp` | state machine, uses `TcpConn` |
| `EchoService` | what an echo server promises | abstract specification |
| `PaddedEcho` | the same, with the old text that a server adds which writes its whole buffer | abstract specification |
| `LossyEcho` | what is left of it when writes do not block | abstract specification |
| `Number` | the number, `main` and the rounds that the thread programs share | constants and variables |
| `Counter` | `ch18/mutex.cpp` and `ch18/thread4.cpp` | state machine, uses `Number` |
| `Semaphore` | `ch18/semaphore.cpp` | state machine, uses `Number` |
| `OneSlot` | a channel with room for one value | abstract specification |
| `Stream` | a connection with both its ends | operators; external |
| `Session` | what the programs share that serve one client at a time | state and actions, uses `Stream` |
| `EchoDialogue` | `ch4`, `ch5/echo_*2.cpp`, `ch9/reuseadr_eserver.cpp`, `ch10/echo_mpclient.cpp`, `ch15/echo_*.cpp` | actions and properties, uses `Session` |
| `Calculator` | `ch5/op_server.cpp`, `ch5/op_client.cpp` | the same |
| `Transfer` | `ch1/hello_*`, `ch2/tcp_*`, `ch7/file_*`, `ch16/sep_*`, `ch13/peek_*` | the same |
| `WebServer` | `ch24/webserver.cpp` | state machine |
| `Datagram` | UDP | operators on a bag of datagrams; external |
| `UdpEcho` | `ch6/uecho_*.cpp` | actions and properties, uses `Datagram` |
| `News` | `ch6/bound_host*.cpp`, `ch14/*.cpp` | the same |
| `MCSessions`, `MCDatagrams` | the programs of the last groups, one pair of which runs | composition |
| `MCChatServer`, `MCForkServer` | | instances for TLC |
| `Small_proofs` | | theorems about `Counter`, `Semaphore`, `WebServer` and `MCDatagrams` |
| `Sessions_proofs` | | theorems about `MCSessions` |
| `*_proofs` | | the others: theorems about the module they are named after |

Where two programs differ in a few lines, one module models both: a variable
(`program`, `locked`) is chosen in `Init` and never changes.  Definitions that
nothing in `Spec` uses and that sit just before another one
(`AcceptIntoBatch`, `ReadLeavingOne`, ...) are plausible mistakes: put in place
of the definition that follows, each must make TLC find the property violated
that "mutants" in `PROJECT.json` names.

### Connections: `TcpConn`

Data is counted in *pieces*: a piece is a stretch of the byte stream that no
call cuts.  A client sends pieces 1, 2, 3, ...; a `read` returns any number of
the pieces that have arrived, up to the size of the buffer.  `peer` says what
the other end did: a client that closes with everything read sends FIN (`read`
gives 0); one that closes with something unread resets the connection (`read`
gives -1 once, then 0); a write to a client that sent FIN succeeds and provokes
a reset, and the next one raises SIGPIPE, which no program here handles.
`Window` is the room of the socket buffers; a blocking write waits for it.

### `ChatServer`

| state | code |
|---|---|
| `clnt_cnt`, `clnt_socks`, `mutex` | the globals (17-19); slots never written are 0 |
| `mpc`, `clnt_sock` | where `main` is (41-54) and its stack variable (44) |
| `pc`, `sock`, `msg` | where each thread is in `handle_clnt` and `send_msg`, its `clnt_sock`, its buffer |
| `i` | the loop variable of `send_msg` |
| `file`, `backlog`, `conn`, `alive` | the kernel: descriptor table, connections to accept, connections, whether SIGPIPE has struck |
| `log`, `turn` | history: the messages in the order of the lock, signed by the thread that sends them; which one each thread sends |
| `meant` | history: the descriptor and the client each thread is started for |

A step ends where another thread can see the difference: at system calls, at
lock and unlock, and at the two accesses to `main`'s variable `clnt_sock`
(`Accept` writes it, `Start` reads it through the pointer).  `Without` is the
removal loop of lines 66-73, with its increment before the copy.  Every
message of every client is written to `clnt_socks[0..clnt_cnt-1]` one `write`
at a time (`SendOne`), which is where a client that does not read holds the
mutex, and where SIGPIPE may end the process.

A thread may read its argument after any number of later accepts (`Late`: what it
got is not what it was started for), `accept` may give -1, which enters the array
like any descriptor, and `pthread_create` may fail, which leaves the socket in the
array without a handler.  Then `pthread_detach` is given an id nobody has set; that
it does no harm is assumed.  `Threads` bounds the calls of `pthread_create`.

### `SelectServer`

`read_set`, `fd_max`, `copy`, `i`, `buf` are the variables of `main`.  `Select`
takes the snapshot; `Accept`, `ReadData`, `ReadError`, `ReadEof` are what the
walk does at its next descriptor (`IsNext`: the iterations that find nothing in
`copy` are no steps of their own); `WritePiece`, `WriteToGone`, `WriteDone` are
the blocking write.  A timeout of `select` changes nothing.

### `EpollLevel`, `EpollEdge`

`ep_events` holds the events of the current `epoll_wait` that the loop has not
reached.  They are a set, taken in any order, since the order is not the
program's to choose.  In `EpollEdge`, `rdlist` is what the kernel has to report:
an arrival puts a watched descriptor into it, `epoll_wait` takes it out.
`"spin"` is the loop that reads a descriptor after closing it: it never leaves,
because `EBADF` is not `EAGAIN`.

In `EpollLevel`, `buf` is the one buffer of the process, which all clients share
and nobody clears: whose piece stands at which place, or `Unset`.  `todo` is what
is left to write of an answer.  `Reply` is the whole-buffer write of
`echo_epollserv.cpp:77`: it adds one `Padding` for each place of `buf` behind the
answer, and `leak` keeps what the last such place held when it was written.  After a
failed read (`ReadError`) the answer is all of the old buffer.

### `ForkServer`

`pc`, `clnt_sock` belong to the first process; `proc[c]` is what the process
forked for client `c` does, `proc[Logger]` the one that stores.  `Exit` makes a
zombie and sets `sigchld`; two exits before `Deliver` make one signal, and
`read_childproc` (`Reap`) waits for one child.  As `sa_flags` is 0 a child that is
stopped or continued raises the signal too (`Pause`), and `Reap` may find nobody;
`pauses` counts the former up and the latter down.  What is stopped is taken to be
continued, so a pause is not told apart from a slow child.  The handler interrupts the
first process anywhere; an `accept` it interrupts gives -1 and is called again,
which changes nothing.  The child of `echo_mpserv.cpp` does not return but
falls into the accept loop with the listening socket closed: `"spin"`.  `pipe`
holds pieces with their client; `write` to it is atomic (30 bytes are less than
`PIPE_BUF`) and waits for room; `LogRead` may cut between any two pieces.  Every
process keeps both ends open, so there is no end of file and no SIGPIPE on it.

### `Counter`, `Semaphore`

`num += 1` is a load, an addition and a store.  With the mutex (`mutex.cpp`)
they happen between `Lock` and `Unlock`.  Without (`thread4.cpp`) they interleave,
and as an unprotected loop may be compiled to keep `num` in a register, a
thread may do many additions between one load and one store.  Threads with an
odd number add, the others subtract, as in the code.

In `Semaphore`, `Extract` is `std::cin >> num`: a number, text that is none
(which stores 0), or the end of the input; after a failure nothing is stored any
more and the five rounds go on.  `put` and `taken` are history.

### `Stream`, `Session` and the programs on top

Here both programs of a pair are modelled, so a connection has two ends, each
with its unread pieces, its direction (`open`, `shut`, `closed`) and its error.
`Session` holds the state and the system calls: `spc`, `cur`, `buf`, `heard` are
the server's position, socket, buffer and what it read; `cpc`, `out`, `got`,
`asked` the same for each client.  A `write` is put piece by piece (`ServerPut`,
`ClientPut`) and waits while the other end has `PieceRoom` unread; a write to
an end that has closed is `ServerPutGone`, with -1 for the programs that look at it
and SIGPIPE for all.  `Exit` closes all that a process had open, and refuses who
still waits for `accept`.  `Interrupt` is a user's control-C.

- `EchoDialogue`: five pairs.  `Show` is the read of the client: once in ch4,
  until everything is back in ch5 (`echo_client2.cpp:53-59`), to the end of the
  line in ch15.  `SendAgain` is the round of `echo_stdserv.cpp:56-60` whose `fgets`
  fails: it sends the old message, or a buffer that was never set, to a client
  that has gone.  What the clients print is left out (`echo_client.cpp:50-52` prints
  its string at the size of the typed line, however much it read).  The client of
  ch10 has two processes, `WriteRoutine` and `ReadRoutine`; it compares a word that
  cannot hold a newline with `"q\n"`, so it has no way to quit.  A client's `asked`
  has the number of the last piece of each line it typed, so that the lengths of
  its lines need not be added up.
- `Calculator`: a piece is a byte, `Base` values wide; a request is a count,
  operands of `IntSize` bytes and an operator.  `ReadRequest` takes any beginning
  of it; `Operand` is any number where the buffer was not filled, `Plain` any
  number where an `int` overflows, both undefined in C++.
- `Transfer`: `HalfClose` is what follows the text: nothing, `shutdown`, or the
  `fclose` of `sep_serv.cpp:30` that closes the socket for both streams.
  `peek_recv` polls (`Peek`) and reads (`RecvAgain`).

### `WebServer`

`lpc`, `clnt_sock` are `main`'s; `tpc`, `sock`, `wr`, `kind` each thread's position, its
two descriptors and what it takes the request for.  `fd` is the descriptor
table, so that a number that was closed twice, or given out again, means what it
means in the kernel.  `Start` reads `clnt_sock` through the pointer, and `raced`
remembers that a thread found another number there than `main` gave it.
Requests are of five `Kinds`; where `fgets` fails, the buffer holds any.  A method
or a name that its array does not hold (`webserver.cpp:72-74`, `95-96`) makes `strcpy`
write past the array, which is undefined: in `Overrun` the process ends or the
request is taken for any other.  `pthread_create` may fail, which nobody looks at
(`CreateWorker`); what `pthread_detach` then does is left out.
`NoFile` and `SendPage` leave open what `send_data` leaves open.

### `Datagram`, `UdpEcho`, `News`

`net` is a bag: a datagram may be lost, come again, or be overtaken, and is never
cut.  `lost` and `extra` remember which hosts that happened to, so that the
properties can say what holds otherwise.  `UdpEcho` has the server, which may be
stopped and started at any time, and two kinds of client: a connected socket
takes datagrams of its server only, and is told (`Unreachable`) when nobody
has the port.  `News` reads a file of lines by `fgets` into a buffer of
`BUF_SIZE` (`SendChunk`) or by `getline` (`SendWhole`); receivers `Cut` what they get.
`str` is the receiver's buffer: `news_receiver_brd` prints every byte of it, so that
behind the NUL of a short text comes the rest of a longer one, which `again` records.
The other receivers print up to the NUL.

## The runs

| run | instance | properties |
|---|---|---|
| `chat_race` | 2 clients, one with 2 pieces, 2 threads | `CountMatchesHandlers`, `OneHandlerPerSocket`, `StreamIntact`, `AtomicBroadcast`, `BroadcastSpec` |
| `chat_live` | 2 clients with 1 piece, 2 threads | `LockReleased`, `LeaverClosed` |
| `chat_sends_to_all` | 3 clients, 3 threads | `SendsToAll`: *violated* |
| `select` | 2 clients with 2 pieces, 2 descriptors | `WatchesAll`, `SnapshotValid`, `EchoSpec`, `AllEchoed`, `LeaverClosed` |
| `epoll_level` | both programs, 2 clients with 2 pieces, buffer of 2 | `BatchValid`, `EchoSpec`, `AllEchoed`, `ResetKills` |
| `epoll_edge` | 2 clients with 3 pieces, buffer of 2 | `NoLostEdge`, `LossySpec`, `LeaverEndsService` |
| `fork` | both programs, 2 clients, one with 2 pieces; pipe of 2, logger of 1 read | `StatusSet`, `LogIntact`, `AllEchoed`, `LeaverEnds` |
| `counter` | both programs, 4 threads, 2 rounds each | `NothingLost`, `RaceBounds` |
| `semaphore` | 5 rounds as in the code, 2 numbers and both failures | `NumExclusive`, `SumComplete`, `Handover`, `Ends` |
| `sessions` | 12 pairs of programs, 2 clients that type 2 lines of 0, 2 or 4 pieces, room for 1 piece, buffers of 2, 2 clients served; requests of 2 operands in bytes of 4 values | `InStep`, `ServerSurvives`, `AnswerRight`, `Delivered`, `Answered`, `BothEnd` |
| `web` | 2 clients, 2 threads, 2 to 4 descriptors | `AnswerFits`, `LeakPerRequest`, `AllServed` |
| `datagrams` | 5 programs, 2 clients with 3 lines, 1 receiver, files of 2 lines, one intruder each | `AnswersOwn`, `NewsWhole` |

The type invariants are not among the properties of the runs: they are proved,
each with the invariant of its program (`op_server` has types of its own,
`CalcTypeOK`).

What they show:

- All this holds of the chat server with its race and its failures.  The count is
  always the number of handlers at work and of threads that could not be created,
  even when two threads serve one socket, one client has none and the array holds
  stale entries; so line 74 never makes it negative.  Messages reach any two
  clients in the same order (`Broadcast`), because each is sent under the lock.
  What a client types is broadcast once and whole, also when two threads read from
  its socket: then each broadcasts in order what it got (`StreamIntact`).  An open
  socket is served by its own thread, except when this one was late or does not
  exist, and by two only when somebody was late (`OneHandlerPerSocket`).
  Leavers are noticed, with the exceptions that `LeaverClosed` names: their thread
  was late or could not be created, or an endless reader of a closed descriptor
  always gets the mutex first.
- The select loop works on a snapshot that is stale in general, but never where
  it matters: the listening socket has the lowest number and is visited first,
  and a descriptor is closed only when it is visited.  The epoll batch stays
  valid for a different reason: each descriptor occurs in it once, and a new one
  not at all.  What the level-triggered programs write is the echo, each piece once
  and in order.  Behind an answer `echo_epollserv.cpp` also writes what earlier
  reads left in its buffer, which is text of this client or of another one, or
  memory nobody has written to (`PaddedEcho`, `leak`).
- The edge-triggered server forgets nothing it has been told once
  (`NoLostEdge`), loses answers that do not fit (`LossySpec` allows gaps and
  nothing else), and serves nobody after the first client has left
  (`LeaverEndsService`).
- `echo_epollserv.cpp` answers a failed read too: a client that resets its
  connection ends the server (`ResetKills`).
- The handler of the forking servers examines a status nobody wrote only when
  somebody stopped or continued a child, once for each time at most; the merged
  signals of children that end leave zombies but never do that (`StatusSet`).  The
  log is whole; and once the logger has ended, the full pipe stops every client for
  good (`AllEchoed` names this exception).
- The echo clients of ch4 fall out of step (a read that gets part of an echo
  leaves the rest to the next prompt), but what they read is always the
  beginning of what they typed; those that read until all is back prompt with
  nothing left behind (`InStep`).  A client of ch4 that leaves with part of its
  echo unread ends the server, by read's -1 or by SIGPIPE; those of ch5 and ch15
  do so only when they are interrupted (`ServerSurvives`), although the server of
  ch15 writes to every client after it has gone.  Two programs wait for each
  other for ever in exactly two ways (`Answered`): a line that exceeds the
  buffers of both ends, with both in `write`, and an empty line, with both in
  `read`.
- The calculator answers right unless TCP cuts the request or the answer, or an
  `int` overflows (`AnswerRight`).  Every half-closed connection delivers text and
  thanks; `sep_serv` never sees the thanks (`Delivered`), and all these programs end
  (`BothEnd`).
- The web server answers everybody with what he asked for as long as every
  thread reads its argument before the next `accept` (`AnswerFits`); each GET
  uses up one descriptor (`LeakPerRequest`).  `AllServed` lists what may leave a
  client waiting: its own thread could not be created, two threads took one socket, or
  the server has ended, by a name without a dot, a name or method too long for its
  array, a client that was to get a page and left before it was sent, or because the
  descriptors are used up.  A client that leaves later harms nobody.
- A UDP client needs no numbers on its lines while nothing is doubled: loss,
  delay and a server that was restarted cannot put it out of step, only stop it
  (`AnswersOwn`).  A connected client whose server is not there prints its own
  line as the server's.  The multicast sender sends its last piece twice when the file
  ends in a newline or with a full buffer, and the broadcast receivers print only
  the beginning of longer lines, and the rest of an earlier line behind a shorter one
  (`NewsWhole`).

### The finding

`chat_sends_to_all` checks the comment "`// send to all`" of
`ch18/chat_server.cpp:80` and TLC refutes it.  The removal loop increments `i`
before it copies (line 69, which carries the comment "`// ?`"), so a leaver's own
entry stays in the array and the entry behind it is dropped: a client that is
still connected no longer gets what others send.

### Bounds

- Two clients are enough for two streams to be mixed up, for one client's
  descriptor number to be given to another, for a write to one to stop the
  other.  `Fds` has two numbers, as `accept` always takes the lowest free one.
  Two threads are enough for the chat server's race: a late one that serves the
  other's socket, or -1.  (With three threads and three clients of one piece each
  the invariants hold as well, in 5.8 million states.)  `SendsToAll` needs three
  clients: a sender, a leaver and a victim.
- `MaxPieces` bounds what a client types: two pieces give reads of one and of
  two, a third one a read behind a full buffer.  In the runs with many
  processes one client (`Talker`) types twice, the other once.
- `Window = 1` makes a write block after one piece nobody has read; the sizes
  of the receive buffers are small for the same reason.
- `LogReads` is 10 in the code and not 0, `PipeSize` 64 KiB and `MAX_CLNT` 256: small
  values reach the states behind them.  `Cardinality(Threads) < MAX_CLNT` keeps
  to the part of the code that stays inside its array; the 257th client is left
  out, as writing past an array has no defined outcome.
- In `fork`, `MaxPauses` lets children be stopped or continued twice in
  `echo_mpserv`, and not in `echo_storeserv`, whose handler is the same; the theorem
  covers both.
- In `sessions`, `PieceRoom = 1` and lines of 4 pieces make both ends block in
  `write`; lines of 0 and 2 are the empty one and one that a read may cut.
  `Serves` is 5, 4 and 5 in the code: 2 reach a second client and the end.  Bytes of
  4 values and ints of 2 bytes make sums and products of 3 overflow.  One client
  at most is interrupted, and only one calls the calculator.
- In `web`, 2 descriptors are used up by one connection, 4 are enough for two
  threads that race and hold two each.
- In `datagrams`, 3 lines let a doubled answer shift two later ones.  Receivers of
  news do not affect each other, so one is enough; `BUF_SIZE = 3` and two lines of 0 to
  4 characters give every way to meet the end of a line, of the buffer and of the
  file.  A character is named by its place in the text, so that each is told from
  the others.
- Sums are integers: `num` in `mutex.cpp` is a `long long` that no run of the
  program can overflow; the sum of `semaphore.cpp` overflows only on inputs
  beyond 400 million, which are left out.

### Fairness and deadlock

Every thread and every process runs whenever it can (weak fairness of its steps
together: the kernel's scheduler), and a client that listens reads what comes back
(`Show`), as `recv_msg` and `echo_client.cpp` do in a loop.  Nobody is obliged to
connect, type or quit.  `LockReleased`, `AllEchoed` and `LeaverClosed` need the
fairness of `Show`: while `write` blocks on a client that never reads, nobody else
is served.  `EpollEdge` needs the server's fairness only, since its writes do not
wait.  In `sessions` every server, client and writing process runs whenever it
can; in `web`, `main` and every thread.  `datagrams` assumes no fairness: its
properties say what must be on its way, not that it arrives.  The programs may
really stop, for ever in `accept`, `select` or `read` when no client does
anything, or because SIGPIPE killed them; so no run checks for deadlock, and the
properties say what must be reached.  What clients do after the server's process
is gone is left out.

## The proofs

| module | theorems | argument |
|---|---|---|
| `ChatServer_proofs` | `TypeCorrect`, `MutualExclusion`, `CountIsExact`, `BroadcastIsAtomic`, `ChatImplementsBroadcast`, `BroadcastOrder`, `MessagesInOrder` | an inductive invariant, `IInv`; the refinement carries the order over |
| | `OneHandler`, `StreamsStayWhole` | `HandlerInv` for who serves what, `StreamInv` for the text |
| `SelectServer_proofs` | `TypeCorrect`, `NobodyForgotten`, `SnapshotStaysValid`, `SelectImplementsEcho` | `IInv` |
| `EpollLevel_proofs` | `TypeCorrect`, `BatchStaysValid`, `LevelImplementsPaddedEcho` | `IInv` |
| `EpollEdge_proofs` | `TypeCorrect`, `NoEdgeIsLost`, `EdgeImplementsLossyEcho` | `IInv` |
| `ForkServer_proofs` | `TypeCorrect`, `StatusIsSet`, `LogStaysWhole`, `StuckStays` | `IInv` |
| `Small_proofs` | `CounterTypeCorrect`, `NoUpdateLost`, `PrintsZero`, `LossIsBounded` | `CounterInv`, and `RaceInv` for `thread4.cpp` |
| | `SemTypeCorrect`, `NumIsExclusive`, `ImplementsOneSlot`, `SumIsComplete` | one token; a running sum |
| | `WebTypeCorrect`, `AnswersFit`, `OneLeakPerGet`, `NobodyShares` | `WebInv` |
| | `AnswersAreOwn` | `UdpInv` |
| | `NewsIsWhole` | `NewsInv` |
| `Sessions_proofs` | `EchoInStep`, `EchoSurvives` | `EchoInv`: a chain of places |
| | `CalculatorAnswers` | `CalcInv`, and lemmas on bytes and on recursive functions |
| | `TextDelivered` | `TextInv`, and `PeekInv` for `peek_recv` |
| `TcpConn_proofs` | lemmas on connections | types, what each call leaves alone, and what it does to a client's stream |

They hold for all clients, threads, rounds and sizes that the named assumptions
of the modules allow.

- *Chat server.*  `TypeOK` alone is not inductive: `clnt_cnt - 1` must not be
  negative and `clnt_socks[clnt_cnt]` must exist.  Both follow from
  `CountMatchesHandlers`, and the second also from `RoomInv` (`main` creates a
  thread only while one is left).  `AtomicBroadcast` needs `MutexInv`; that the
  newest message is the one being sent (`TurnInv`) makes every `SendOne` a
  `Deliver` of `Broadcast` and every `SendLock` a `Publish`.
  `BroadcastOrder` says what this means for any two receivers of the abstract
  broadcast, and `MessagesInOrder` that it holds of the server, race and failures
  included.  For `OneHandler`, `OwnInv` says that an open descriptor belongs to
  `main` or to the thread it was meant for, and `SocketInv` that descriptors meant
  for two threads that serve them differ; `SocketInv` holds as long as no thread was
  late, and a thread that was late stays in the set (`LateStays`).  `StreamInv` adds
  to `StreamIntact` that what was broadcast or is in a thread's hand has been read,
  so that a read brings pieces nobody has: `StreamReadData` moves them into one
  hand, `StreamPublish` from there to the end of the log.
- *Select server.*  The walk stays valid because the listening socket is below
  all descriptors, a descriptor has one holder (`OneHolder`), and what is still
  to be visited was ready at the snapshot and only the walk consumes it.  For
  the echo, `Streams` says that what was written, what is in `buf` and what is
  unread are together the client's text.
- *Level-triggered epoll.*  The same two ideas, but `BatchValid` needs no order: a
  descriptor that `accept` gives out is not in the batch, since what is in the
  batch is open.  `PaddedStream` lets padding stand behind the pieces that were
  echoed, and only in `echo_epollserv.cpp`; `MemoryInv` says that every place of
  the buffer, and so what padding leaks, holds a piece that its client has sent, or
  is unset.
- *Edge-triggered epoll.*  `NoLostEdge` is inductive with `Dialled`, `Watched` (a
  descriptor in use is in the epoll set) and `LoopInv` (which one the loop has in
  hand): each arrival puts the descriptor on the ready list again, and the loop
  lets go of it only where a read gave `EAGAIN`, or never.  Writes may be dropped,
  so `LossyStream` is about order and not about gaps: all that was echoed is
  before all that is held, and that before all that is unread.
- *Forking servers.*  `StatusSet` alone is not inductive: a signal may be pending
  while the handler runs, and the handler will take a zombie away. `SignalInv`
  gives each of the two a cause of its own, a zombie or a pause.  That a child
  which ends was no zombie before needs `ForkInv`: `main` forks once for each
  client.  For the log, `StoreInv` cuts a client's text into what file and pipe
  have, the record that a process holds, and what is unread, and bounds what was
  echoed by the first two; a record that is appended continues its own client's
  entries and disturbs nobody's (`RecordsAppend`), and the logger's reads move the
  cut between pipe and file only (`LogReadMoves`).  A logger without a file
  crashes at its first read (`IdleInv`), so that the condition of `LogIntact`
  covers no state too many. `StuckStays` says that the exceptions of `AllEchoed`
  and `LeaverEnds` last: nobody makes room in the pipe after the logger has gone,
  and nobody leaves the accept loop, so a process that is stuck stays so.
- *Counter.*  `LockInv` (a thread holds the mutex exactly from lock to unlock)
  gives `RegInv` (while a thread has `num` loaded nobody changes it), and each
  store adds exactly one round to the set that `NothingLost` counts.
  `PrintsZero` needs `MainInv` too: `main` prints after every thread returned.
  `RaceInv` is the weaker invariant that survives without the lock.
- *Semaphore.*  A token is either a free place, `read`'s, a value, or `accu`'s
  (`TokenInv`), and where it is says how far `put` is ahead of `taken`.  The sum of a
  sequence is a recursive function; `SumInv` carries along, from step to step of
  the program, that for the numbers taken so far there is a function which
  satisfies the recursion, and that all such functions agree, which is what
  `SumIsComplete` needs.

- *Web server.*  All of `WebInv` but the types is conditional on `~raced`, and a
  race is never undone.  `OwnInv` says that a descriptor a thread holds is its own
  client's, or, for the file and the dropped stream, nobody's; `ApartInv` that no
  two threads serve one client, which is what makes `close` safe; `QueueInv` and
  `ServeInv` follow a client from `backlog` over the descriptor that only `main`
  knows to the thread that serves it.  `AnswerInv` is then about one thread: what
  it has written so far and what it takes the request for. For `LeakPerRequest`
  the two sides are sets, and each action adds to and takes from both the same
  number of elements.
- *Echo, one client at a time.*  The pieces of a client stand in a row of
  places: what it read, what is unread at its end, what the server still has
  to write, what is unread at the server's end, what the client still has to
  write.  `Chain` says that these are, one behind the other, the pieces
  1, 2, 3, ... that were typed; every step moves a piece from one place to the
  next.  `InStep` reads the first place, and `ServerSurvives` follows because
  only who leaves with pieces in the middle of the row resets its connection.
  `SendAgain` writes to a client that has gone and so adds nothing to the row.
- *Transfers.*  The same with two rows, of the text and of the thanks; what a
  half-closed direction still delivers is what stands in its row.  `peek_recv`
  has an invariant of its own, because a piece it peeked at is in two places.
- *Calculator.*  The server reads once, so what it heard is a beginning of what the
  client wrote (`CalcAsks`), and its answer and what the client reads are beginnings
  of one another (`CalcGets`).  The rest is arithmetic: the bytes that `ntohl` puts
  together are those that `htonl` took apart (`DecodedEncoded`), the words of a
  request lie where the server looks for them (`RequestIs`), and its loop, which may
  come to any number where an `int` overflows, comes to one number where none does
  (`ResultsAre`).  The recursive functions behind these are followed without an
  induction schema: a set of numbers that is not all of `0..m` leaves out a least
  one (`Induct`), and that a function satisfies its recursion follows once one such
  function exists (`Recursive`).
- *UDP echo.*  Whatever the network does, what is under way to and from a client
  are lines it sent or a stranger's datagrams (`Sane`), and there is something
  under way for a client that waits, or a history variable says why not
  (`Awaits`).  `Kept`: for each line that was answered one message was shown, and
  it is one of the lines sent earlier.  `Single` holds only as long as nothing
  intruded: the one datagram under way belongs to the line that is awaited.  `Few`
  bounds, for each line, the copies printed and under way together, so that
  `Trouble` can only move it by the `extra` it counts.

- *News.*  `Walk` says where the sender's loop can stand in the text: at the start
  of a line, or, with `fgets`, a whole number of buffers behind one; and that at the
  end of the file what is still in the buffer, and is sent once more, is the last
  piece.  `Sent` is how often a character was sent by then.  What a receiver has
  printed and what is under way to it (`OnPage`) is together at most that and the
  datagrams that came again, and exactly that for one who missed nothing.
  Whatever is in the buffer of `news_receiver_brd` was in that column of a text it has
  printed (`PageInv`), and so was all that it prints behind the NUL.
  `bound_host1` leaves after three messages, which are the three that were sent
  unless one of them intruded (`ReceiverOf`).  Bags are counted as sets of units, one
  for each copy, so that a step that sends or takes a datagram adds or removes one
  element.

Only model-checked: liveness, which needs fairness.

## The plan

1. *done*: chat server with its broadcast; select server with the echo service.
2. *done*: both kinds of epoll server; thread programs; forking servers.
3. *done*: TCP dialogues, the calculator, transfers and half-closed connections.
4. *done*: web server; UDP echo, bound hosts and news.
5. *done*: proofs about all servers on one machine: both kinds of epoll server,
   the forking servers, the rest of the chat server, the sum of the semaphores.
6. *done*: proofs about the web server, the dialogues, the calculator, the transfers
   and UDP.

## Not modelled

- The vendored formatting library, `include/fmt`.  It is five sixths of the
  lines in the repository and none of them is the author's, so the modules
  cover a small share of all lines, and most of the lines of the programs.
- Set-up failures that end a program at once (`socket`, `bind`, `listen`), command
  lines, output, and signal handlers that print while the interrupted code prints.
- Programs that make one call after another: `ch1/low_*`, `ch3`, `ch8`, most of
  `ch9`, the copies of `ch15` and `ch16/dup.cpp`, `ch12/select.cpp`.
- Programs whose order is kept by sleeping, which is an assumption about time:
  `ch11/pipe2.cpp`, `ch18/thread1.cpp`, the process programs of `ch10`, whose one
  handler is that of `echo_mpserv.cpp`.
- The urgent mark of `ch13/oob_*`, which belongs to the kernel.
- Of the modelled programs: what a client does after its server has gone, the
  end of input at a prompt, lines longer than a buffer of `fgets`, an `fopen` that
  fails in `ch7`, browsers that do not read, negative or huge operand counts.

`PROJECT.json` lists each component with its status and the reason.
