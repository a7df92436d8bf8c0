# Voyager in TLA+

TLA+ modules, TLC configurations and TLAPS proofs for Voyager, a C++11
multi-threaded network library in the reactor style (`src/voyager`). Each
`EventLoop` runs on one thread and owns its connections and timers; other
threads reach it through a queue of functions and a wakeup pipe. Almost
everything that is hard in this code is about that border: which thread runs
what, in which order, and what has happened in between.

The modules model the release build (`NDEBUG`): an `assert` does not stop the
program. What an assertion claims is stated as a property instead.

## The system

| Component | State | Operations | What is hard | What makes it correct |
|---|---|---|---|---|
| `EventLoop` (`core/eventloop.cc`) | `exit_`, `run_`, `funcs_`, the wakeup socketpair, `connection_size_` | `Loop`, `RunInLoop`, `QueueInLoop`, `Exit`, `RunFuncs`, `WakeUp`, `HandleRead` | push and wakeup are two steps; the loop thread queues to itself; a blocking pipe with one reader | no function or exit is slept on; functions run once, in order; the loop never blocks outside `Poll` |
| `Dispatch` and pollers (`core/dispatch.cc`, `event_*.cc`) | interest, `add_write_`, `index_`, the poller's map | `Enable*`, `Disable*`, `RemoveEvents`, `HandleEvent` | three records of one registration; `Dispatch*` held from `Poll` to `HandleEvent` | the kernel watches what the `Dispatch` says; no pointer outlives its object |
| `TcpConnection` (`core/tcp_connection.cc`) | `state_`, `writebuf_`, its `Dispatch` | `SendMessage`, `ShutDown`, `ForceClose`, `StartRead`, `StopRead`, the handlers | called from any thread and from its own callbacks; partial writes; several ways to close | the byte stream is intact; one close; nothing left registered; shutdown drains and completes |
| `TimerList` (`core/timerlist.cc`) | `timers_`, `timer_ptrs_`, `last_time_out_` | `Insert`, `Erase`, `TimeoutMs`, `RunTimerProcs` | ids are addresses that are used again; callbacks insert and erase; the wall clock is set back | the two sets agree with the timers; erased timers do not fire; due ones do |
| `TcpConnector`, `TcpClient` | two states, `connect_` (twice), `retry_time_`, `dispatch_`, `weak_ptr_` | `Connect`, `Close`, `Start`, `Stop`, `Retry`, `HandleEvent` | a retry timer, a queued destruction and a poll result outlive what they refer to | one attempt at a time; a stop holds; a start is answered |
| `Buffer` (`core/buffer.*`) | a vector and two indices | `Append`, `ReadV`, `Retrieve`, `MakeSpace` | moving and growing; a `readv` split over two buffers | a byte queue of bounded capacity |
| `TcpServer`, `TcpAcceptor`, `Schedule`, `BGEventLoop` | loops and their threads, the round-robin index, the idle descriptor | `Start`, `Accept`, `AssignLoop`, construction and destruction of a background loop | start-up and join race with the loop; counts lag behind assignments | every connection lives on one loop; a background loop stops when told to |
| `TcpMonitor` | counters per address and in total, allow and deny sets | `OnConnection`, `OnClose` | refused connections count until they close; shared by loops | counters equal the open connections |
| RPC (`rpc/`), codec (`protobuf/`) | `call_map_`, `seq_`, a timer per call; the connection's context | `CallMethod`, `OnResponse`, `OnTimeout`, `OnRequest`, `Done` | a response or timeout before the call is entered; a late timer; answers in another order | each call is concluded once, with its own answer |
| `HttpServer` (`http/http_server.cc`) | parser states, idle buckets | parsing, keep-alive, idle timeout | closes queued to the loop, references that expire | idle connections close, busy ones do not; limits hold |
| `HttpClient` and the parsers (`http/`) | the queue of callbacks, `timer_`, `client_`, parser states | `DoHttpRequest`, `HandleMessage`, `HandleClose`, `HandleTimeout`, `ParseBuffer` | attempts abandoned while they connect, timers nobody names any more, text in pieces | every callback gets its own response or an error, once |
| coding, CRC, base64, JSON (`util/`) | none beyond a call | encode, decode, extend | boundaries, alignment, escapes, torn input | what was written is read back; what was torn is refused where the reader looks at the end |
| rest of util | none to speak of | strings, logging, status, hash | | |

Components interact by direct calls on the loop thread, by functions queued in
a loop from other threads, by callbacks, and by the poller reporting events for
descriptors. `PROJECT.json` lists every component and, under `hazards`, the
places in the code where a test would hardly reach.

## Modules

| Module | Models | Correspondence |
|---|---|---|
| `TaskQueue` | what `EventLoop` promises | a FIFO of functions, each executed at most once |
| `EventLoop` | `eventloop.cc` | one process for the loop thread (`pc`), one per other thread (`tpc`); an action per access to shared state: push under `mutex_`, store to `exit_`, `write` and `read` of the pipe, swap of `funcs_`, start and end of a function |
| `Dispatch` | `dispatch.cc`, `event_epoll.cc` | operators on a record that holds the `Dispatch`'s interest, the poller's index and map, and the kernel's view |
| `TcpConnection` | `tcp_connection.cc` | `EXTENDS Dispatch`; the loop's iteration around one connection; operations called on the loop thread in the windows where caller's code runs, and by other threads in two steps (look at `state_`, push) |
| `TcpConnectionProofs` | | theorems about `TcpConnection` |
| `TimerList` | `timerlist.cc`, the timer part of `Loop` | timers at addresses (`heap`), `timers_` as a set of pairs, the clock as a variable that ticks and may be set back |
| `TimerListProofs` | | theorems about `TimerList` |
| `TcpConnector` | `tcp_connector.cc` | state and steps on the loop thread |
| `TcpClient` | `tcp_client.cc` | `EXTENDS TcpConnector`; loop, callbacks and other threads, whose `Connect` and `Close` are split at each access to `connect_` and `weak_ptr_` |
| `TcpClientProofs` | | theorems about `TcpClient` and its connector |
| `TcpServer` | `tcp_server.cc`, `schedule.cc`, `bg_eventloop.cc`, `tcp_acceptor.cc` | the base loop's thread and the loop threads, with their start (thread created, `eventloop_` published, `Loop` entered) and end; each read of a load in `GetMinLoop` is a step; descriptors are counted |
| `TcpServerProofs` | | theorems about `TcpServer` |
| `HttpServer` | `http_server.cc`, `tcp_monitor.cc`, the states of `http_request_parser.cc` | a loop's callbacks, timer and queued closes are its actions; a `Bucket` is a set of entries, an entry lives while a bucket holds it; a use of a `Context` that is gone sets `broken`, a parser that does not return puts its loop into `stuck` |
| `HttpServerProofs` | | theorems about `HttpServer` |
| `ByteQueue` | what `Buffer` promises | bytes out in the order in |
| `Buffer` | `buffer.h`, `buffer.cc` | the vector, the indices, and each operation on them |
| `Pollers` | `event_poll.cc`, `event_select.cc`, `event_kqueue.cc`, `modify_` and `index_` of `dispatch.cc` | the same calls of the same `Dispatch`es drive all four pollers at once (epoll through `INSTANCE Dispatch`); an action is a call and everything each poller does in it; `...Report` is what the next `Poll` would return |
| `LoopProofs` | | theorems about `EventLoop`, `Buffer` and `Pollers`, which share no state; the latter two prefix the names of their specifications (`BufferSpec`, `PollersSpec`) so that one module can extend all three |
| `Rpc` | `rpc_channel.cc`, `rpc_server.cc`, `protobuf_codec.h` | the channel's loop, another thread that calls `CallMethod` in its three steps (send, timer, entry), the server's loop and its services; a frame is header units and one unit of message |
| `RpcProofs` | | theorems about `Rpc` |
| `HttpParser` | `http_request_parser.cc`, `http_response_parser.cc`, the writers of messages, names of methods and versions | a turn of `ParseBuffer` as an operator on parser and buffer, iterated by a recursive function; text is a sequence of lines and body bytes |
| `HttpClient` | `http_client.cc`, with `HttpServer::OnMessage` at the other end | `EXTENDS HttpParser`; callbacks of the client's loop and of the server's, two streams between them |
| `HttpClientProofs` | | theorems about `HttpClient`, and what `ParseBuffer` does on a stream of messages |
| `Coding`, `Crc32c`, `Base64`, `Json` | `coding.cc`, `crc32c*.cc`, `base64/`, `json/` | pure operators; a word is the set of its one-bits, a byte of base64 or JSON a number |
| `Codecs` | | a writer, a tear, a reader and a stream under checksum, over the operators of the four modules and the names of `HttpParser` |
| `MC*` | | the instances for TLC |

Data are abstracted: functions and bytes are numbers, a message is its sender
and number, a socket is the number of its attempt. Control is kept: every early
return, both results of every test, and the order of assignments wherever
another thread or a callback can look in between.

Variants of a definition that no specification uses (`ExitSilently`,
`RetryWithoutTimer`, ...) stand before the definition they alter. They are the
mistakes that the properties must catch; `PROJECT.json` pairs them under
`mutants`.

## Runs

Run with `tlc -workers 2 -config <cfg> <module>`.

| Run | Configuration | Shows |
|---|---|---|
| `eventloop` | 2 threads, 3 functions, 2 exits, 2 calls of `Loop` | the inductive invariant `IInv`, of which `NoLostExit` is a part and which implies `NoLostWakeup`; refinement of `TaskQueue`; functions are executed and exits obeyed (`HandedOverRun`, `ExitReturns`) |
| `tcpconnection_safety` | 2 threads, 2 messages of 2 bytes, 2 other calls, 1 input | `StreamOrder`: the peer gets the bytes once and in order, each sender's messages in the order it sent them; `CloseOnce`: one close, and nothing left registered or reported after it; `WriteInterest`; `ShutDownDelivers`: a shutdown ends the stream only behind the bytes it found |
| `tcpconnection_live` | 1 thread, 1 message, 2 calls, all operations from everywhere | `ShutDown` and `ForceClose` complete |
| `timerlist` | 2 timers at 2 addresses, time 0..2, one clock step | the inductive invariant `IInv`, of which `ListsAgree` is a part and which implies `OneShotOnce`; `OnceAndNotEarly`; erasure; poll timeout; due timers fire |
| `tcpclient` | 2 threads, 1 connect, 1 reconnect after a loss, 2 closes, 3 failures; connections close anywhere, inside callbacks too | `OneAttempt`: one attempt at a time and no pointer to a `Dispatch` that is gone; `StopHolds`; `StartAnswered` |
| `tcpserver` | 4 connections; 0, 2 or 3 loop threads, of which 3 take turns; 3 descriptors | connections belong to loops that exist; the choice of the loop; the backlog drains; the destructor returns |
| `httpserver` | 3 connections from 2 addresses on 2 loops, 2 ticks, limits 2 and 1 | `LimitsHold`: counters equal the open connections and stay within the limits; idle connections are shut down and active ones are not; refused ones are closed |
| `buffer` | a vector of 3 bytes, backup of 2, up to 11 bytes | a byte queue; bounded capacity and indices in order |
| `pollers` | 3 descriptors | `WatchedExactly`: every poller reports for every `Dispatch` what it asks for and nothing else, in whatever order they were opened, changed, removed and opened again |
| `rpc` | 2 calls, with and without a timeout, on the loop thread or another one as well | `ReleasedOnce`: `done` is run or deleted at most once; `OwnAnswerOnly`; `Concluded` |
| `httpclient` | 3 requests; bodies of 0 or 1 byte, announced or not; closes asked for, made or taken back by the server's program | `AlwaysAsked`: the assertion of `HandleMessage`, for bodies that are announced; `OwnResponse`; `EveryRequestTold`; `KeepAliveNeverSpins`: the parser's endless loop is entered only behind a request that asked for a close |
| `codecs` | see below | `RoundTrip`, `TornRefused`, `JsonStable`, `ChecksumOfStream` |

### Bounds

Every bound is a constant named `Max...` and appears in a guard. They count
calls of the environment (functions queued, messages, connects), never steps of
the library, so the library's own behaviour after the last call is complete.
The instances are the smallest in which the interesting cases meet: two threads
race with the loop thread; two functions make an order; a message of two bytes
is written in part; two addresses and two timers give reuse of an address and
two timers at one time; the retry delay doubles past its cap; 11 bytes on a
vector of 3 are appended, moved, grown and split by `readv` in every mix; four
connections exceed the descriptors and three loops, so that loads differ, turns
wrap and a connection is refused; three connections exceed both limits of the
monitor, and two ticks wrap around. `MinLoopMax` is 5 in the code and 2 here, to
have both ways of assignment with few threads. In
`eventloop` `PipeCap` exceeds the wakeups that can be written, which is the
ordinary case. `high_water_mark_` is 3 bytes (2 in the live run), so that it is
crossed. Three descriptors have `pollfds_` swap an entry that is neither first
nor last, and leave `select` a highest descriptor to lose. Two calls pass each
other, and pass each other's timers. Three requests are one kept alive, one that
follows it on its connection, and one after that connection was closed; a body
of one byte arrives with its headers or behind them, and is left over when
nothing announces it.

`codecs` enumerates inputs. Integers are all runs of one-bits, so all powers of
two and their neighbours in both widths (64 bits with the ends at the 7-bit,
32-bit and 64-bit boundaries); slices of 0, 1, 127 and 128 bytes, where the
length prefix grows; streams of two pieces of 0 to 19 bytes at every alignment
modulo 8, which makes the head, the 16-byte, the 4-byte and the single steps of
`Extend` happen; base64 of up to six bytes, so all remainders; JSON strings of up
to two of the characters that are escaped in different ways, in arrays and
objects, and texts of up to three words, among them malformed ones.

`tcpconnection_safety` leaves `StartRead` out and lets timers call only what the
library itself calls from timers, because with them the assertion of
`HandleClose` fails (below).

### Fairness

* `EventLoop`: weak fairness of the loop thread's own steps and of each
  thread's pending `write`. `PollOther` gets none: no property leans on the
  5 s limit of `Poll` or on other descriptors.
* `TcpConnection`: the same, with strong fairness of polls that report room to
  write and of writes that make progress; both are up to a peer that keeps
  reading. A peer that stops reading is the environment's right, and then
  `ShutDown` may wait for ever; the properties say nothing about that case.
* `TimerList`: the loop thread runs; strong fairness of executing a queued
  function is what `HandedOverRun` of `EventLoop` provides. Time need not pass:
  `DueFires` speaks of timers that are due.
* `TcpClient`: threads run, set timers come due, and a socket that is connected
  or has failed is reported.
* `TcpServer`: every thread runs. That queued functions are executed and that
  `Exit` ends `Loop` is what `eventloop` shows. Nothing is assumed of peers, so
  `BacklogDrains` does not lean on a connection that closes.
* `HttpServer`: loops execute what is queued to them. Timers need not fire: the
  idle properties count ticks.
* `Rpc`: sockets deliver, loops run what they are given, set timers fire, a
  thread inside `CallMethod` goes on, and services answer. Connections may be
  lost at any time.
* `HttpClient`: set timers fire, what arrives is read, and a server that does
  nothing else shuts the connection down in the end, as the idle buckets of
  `HttpServer` do. Nothing is assumed of connecting, and no connection has to be
  reset.

`tcpserver` and `httpserver` do not check for deadlock: a server that was
destroyed stops, and so does one whose destructor waits for a thread that lost
its `Exit` (below); `broken` is the end of the program. `rpc`, `httpclient` and
`codecs` do not either: they may stop when the calls, requests and inputs that
the bounds allow are used up.

## What the models show of the code

Four places where the code does not do what an assertion or a comment of it
expects. The runs pass beside the first, second and fourth; each says which
constant to change to see it.

1. The wakeup socketpair is blocking and has one reader, the loop thread.
   Functions that queue functions (every `ForceClose`, every `ResetDispatch`
   inside a function) each write a word during `RunFuncs`, when nobody reads. A
   full pipe stops the loop for good; a larger one moves the limit and nothing
   else. `EventLoop.cfg` with `PipeCap = 1` ends in that deadlock.
2. A send from a timer, or from another connection's handler, that fails between
   `Poll` and `HandleEvent` closes the connection; the polled event then closes
   it again, against the assertion of `HandleClose`. `StartRead` on a connection
   that has just closed has the same effect. `TcpConnection_safety.cfg` with
   `TimerOps <- SafeOps` violates `CloseOnce`.
3. Nothing sets the connector back from `kConnected`, so the reconnect that
   `TcpClient::Connect` provides for fails the assertion of `StartInLoop`. A
   release build carries on, and `tcpclient`, which has the reconnect, shows that
   it then works. A `Connect` while the first attempt is under way fails the same
   assertion and in a release build starts a second attempt over the first
   (`MaxConnects = 2`).
4. `connect_failure_cb_` and `connection_cb_` run inside the `Dispatch`'s
   `HandleEvent`, and so does a `close_cb_` that is nested in `connection_cb_`
   because a send in it fails (`tcp_connection.cc:248`). A `Connect` in any of them
   destroys that `Dispatch`; after `connection_cb_` the connector also resets the new
   socket (`tcp_connector.cc:145`), and the reset that is queued (`:175`) destroys
   the new `Dispatch`. In the model such a `close_cb_` is `"early"`, up to the
   queued reset. The run has early closes and `Close` in them, but reconnects only
   in a `close_cb_` that is not; `TcpClient.cfg` with `ConnectIn <- AlsoEarly`, or
   `AnyCallback`, violates `OneAttempt`. A client that sends in `connection_cb_`
   and reconnects in `close_cb_` is exposed to it.

Also in the models, or met while writing them, where no document says what
should happen:

* A function the owner queues before `Loop` gets no wakeup and may wait for the
  limit of `Poll`, a case that the comment in `QueueInLoop` does not list.
* A `Close` of a `TcpClient` on another thread, between the success of the
  attempt and the store to `weak_ptr_`, closes nothing.
* `HandleWrite` closes a connection that is being shut down once its buffer has
  drained, and does not look at the buffer again after `writecomplete_cb_`
  (`tcp_connection.cc:130-135`). A `writecomplete_cb_` that sends a message, which
  the kernel takes in part, and then shuts down loses the rest.
  `ShutDownDelivers` exempts this case (`AfterDrain`) and no other; with
  `Promise` counting `Len(accepted)` always, `tcpconnection_safety` violates it.
* `Loop` clears `exit_`. A `TcpServer` destroyed before one of its threads has
  entered `Loop` waits in `join` for ever; `DestructorReturns` is stated for
  threads that have.
* With more than five threads `Schedule` takes turns, while `src/README.md:25`
  says that the loop with the fewest connections is chosen; with fewer, the
  choice is right if no connection is on its way (`LeastLoadedIfQuiet`).
* `~TcpAcceptor` calls `RemoveEvents` even if it never listened
  (`tcp_acceptor.cc:33`); every poller asserts that it knows the descriptor. `Pollers` has removal of registered descriptors only.
* `EventSelect::Poll` passes milliseconds as microseconds
  (`event_select.cc:25`): waits are shorter than asked for, which is harmless to
  the properties, since a `Poll` may always return early.
* Bytes that reach `HttpServer::OnMessage` on a refused connection find no
  `Context`; a 400 that cannot be sent deletes the `Context` that is used next;
  bytes after a request with `Connection: close` keep `ParseBuffer` in its loop.
  `OnMessage` resets the parser by the request's header and shuts down by
  `response.CloseState()` (`http_server.cc:85-98`), which `http_cb_` may have
  taken back: then the connection goes on with a parser in `kEnd`, and its next
  bytes are caught. `takenBack` marks this; in no other case is a thread caught
  before the connection is shut down (`KeepAliveNeverSpins`).
* A body that does not arrive in one piece with its headers fails to parse
  (`BodyTurn`): the server answers 400, the client shuts the connection down.
* `RequestMessage` and `ResponseMessage` write the headers the program has set
  and no other (`http_request.cc:98-106`, `http_response.cc:17-25`). A body without
  `Content-Length` ends at the empty line (`http_response_parser.cc:97-100`), its
  bytes are taken for the beginning of the next message, and the client meets
  them with an empty `queue_cb_`: the assertion of `http_client.cc:68` fails, and
  without assertions `front()` of an empty deque may follow (`broken`). Likewise a
  request's body is read with POST only (`http_request_parser.cc:104`); that of
  a PUT stays in the server's buffer, and the next request is refused. `framed` is
  true as long as neither has happened; `AlwaysAsked` is stated for it and
  violated without it. `OwnResponse` holds all the same: what is left over
  only joins a later line.
* `HttpServer` with `keep_alive_time_out` below `tick_time` has no buckets, and
  `UpdateBuckets` uses one all the same. The models assume at least one tick.
* A second request of an `HttpClient` that is still connecting drops the first
  attempt, and its timer goes on; what was asked for on it is told at the end of
  a later connection or timeout. A callback that requests again from inside
  `HandleClose` appends to the deque that is being iterated
  (`http_client.cc:87`); the model leaves this out.
* A callback of `HttpClient` that requests again sends on the connection; when
  that write meets EPIPE or ECONNRESET, `HandleClose` runs inside `HandleMessage`
  and deletes the parser that `http_client.cc:80` resets. The model resets
  connections between callbacks only (`HandleReset`).
* `client_.reset` in `FirstRequest` (`http_client.cc:48`) destroys a connector in
  the middle of its attempt, whose `Dispatch` may still be registered. The model
  abandons the attempt cleanly.
* An `RpcChannel` called from another thread than its loop's may see the answer
  before the call is in `call_map_`, and then keeps the call until its timeout,
  without one for good; and a timer whose insertion is still queued outlives the
  call it was for. `OwnAnswerOnly` and `Concluded` are stated for the loop's
  thread.
* An error reply that comes after the timeout reports the call a second time
  through `error_cb_` (`rpc_channel.cc:101`): `OwnAnswerOnly` is about calls that
  were answered.
* `RpcServer` keeps one request id per connection. Two requests whose services
  have not answered share it: the second `Done` reads a context that the first
  has deleted. `overlap` marks these behaviours.
* JSON: numbers are read and never stored (`json.cc:343`); `true`, `false` and
  `null` are looked for behind their first letter and so refused; an empty array
  at the end of a text is refused; a string that ends in an escaped quote is
  taken for closed (`json.cc:236`); `GetHex` ignores digits that are none
  (`json.cc:518`); text after the value is ignored.
* `DecodeFixed32` and `DecodeFixed64` read their bytes without a bound, as their
  comment says (`coding.h:113`); `TornRefused` is about the other codecs.
* `GetVarint32` drops the high bits of a fifth byte; leftover bits of base64 are
  ignored; `SetMethod` and `SetVersion` take an abbreviation for the first name
  it begins.

## Proofs

`tlapm <module>.tla` checks the proofs of each of the eight modules named
`...Proofs`. Each states the invariant its component needs, shows that every
action keeps it, one lemma or step per action, and derives the properties. Every
inductive invariant was first checked with TLC on the bounds of the component's
run, except `HInv` of `HttpClient`, which quantifies over sequences of messages
and was checked in what it implies.

**EventLoop**, for every set of threads, every bound and every pipe capacity:

* `Invariance`: `Spec => []IInv`. `NoLostWakeup` alone is not inductive: it
  speaks of `"poll"` only, and a step into `"poll"` needs to know what held
  before. `IInv` adds `FlagsInv` (`run_` and `woken` are what `pc` says; a batch
  is left over only inside `RunFuncs`) and `WakeUpInv` (outside `"handle"`, a
  waiting function has a wakeup in the pipe or on its way). The delicate step is
  `HandleRead`, which takes a word out of the pipe: it happens in `"handle"`,
  and `RunFuncs`, which empties `funcs_`, comes before the next `Poll`.
* `WakeUpsSuffice`, `ExitsSuffice`: the two safety properties.
* `ImplementsTaskQueue`: the refinement under `todo <- batch \o funcs_`; the
  swap in `RunFuncs` is a stuttering step because the batch is empty before it.

**TimerList**, for every set of addresses, every choice of delays and intervals
and every bound:

* `Invariance`: `Spec => []IInv`, with `IInv` the conjunction of
  * `TypeOK`;
  * `ListsAgree`: the entries of `timers_` are the timers of `timer_ptrs_`, each
    alive and under its own time;
  * `QueuedApart`: insertions that are still queued refer to live timers that
    are not in the list, and no two to the same one. Without it `ListsAgree` is
    not inductive: executing a queued insertion must not meet an entry for the
    same address, and freeing a timer must not pull it from under a queued one;
  * `IdsApart`: live timers have different numbers, none of them erased, and a
    live one-shot has not fired, so that what is said about an erased timer is
    not about its successor at the same address.

  The steps that need care are the clock adjustment, which changes every entry
  and every timer together, and the firing of a periodic timer, which goes out
  of the set and in again under its new time before the callback runs.
* `ListsAlwaysAgree`, `OneShotsFireOnce`: the two safety properties.
* `ErasedStayErased`: the action property that a step fires no timer whose
  erasure was executed.
* `FiresOnceAndNotEarly`, `PollWakesInTime`: `OnceAndNotEarly` and `WakesInTime`,
  from `TimeInv`, which adds `ClockInv` (until the clock is set back, every live
  timer stands in the list at its due time or later) and `PassInv` (a timer that
  has fired in this call of `RunTimerProcs` and is still there stands behind the
  time the call goes by, so the loop over `timers_` cannot come to it again).

**TcpConnection**, for every set of threads, every message size, high water mark
and bound:

* `Invariance`: `Spec => []IInv`. `StreamOrder` alone knows nothing of messages
  that are still queued. `IInv` is
  * `ConnInv`: the `Dispatch`, the poller and the kernel agree and `add_write_`
    is set whenever writing is asked for (without it `DisableWrite` would leave
    `POLLOUT` on); `POLLOUT` is asked for exactly while bytes are buffered; what
    was sent and what is buffered are what was taken on; `StartWorking` comes
    first and once;
  * `OrderInv`: the messages of one thread are in order along the whole way from
    the thread through `funcs_` and the batch of `RunFuncs` to the stream.
* `StreamInOrder`, `WatchedWhileBuffered`: the properties `StreamOrder` and
  `WriteInterest`. They hold whatever threads, callbacks and timers call, so for
  more callers than the run has.
* `ShutDownKeepsItsPromise`: the action property `ShutDownDelivers`, for every
  caller. `PromiseInv` adds that inside the end of `HandleWrite`, where the buffer
  is not looked at again, nothing is owed that is not sent: it is entered with an
  empty buffer, and what is sent inside it is exempt.
* `ClosedOnce`: `LibraryCalls => (Spec => []CloseOnce)`. The hypothesis is the
  choice of calls of `tcpconnection_safety` (no `StartRead`; no send from a
  timer); without it the theorem is false, as said above. `CloseInv` adds to
  `ConnInv` that no `StartRead` is queued and that no polled event is left for a
  closed connection where `HandleEvent` would act on it.

**TcpServer**, for every set of connections, finite or not, every choice of
thread numbers and every limit:

* `Invariance`: `Spec => []IInv`. `OwnedByLiveLoop` is not inductive: assigning a
  connection needs that every loop of `loops_` exists, leaving a loop that no
  other is being joined. `IInv` adds
  * `LoopsInv`, `ThreadsInv`: what `loops_` holds in each phase; `Start` has
    waited for every loop in it; a loop that was told to exit is the one being
    joined, and there is one;
  * `PlaceInv`: a connection waits in one place, the backlog, the scan or the
    queue of its owner, once;
  * `CountInv`: `connection_size_` is the number of connections at work in each
    loop;
  * `ScanInv`: what `GetMinLoop` has found is the minimum of what it has read, if
    nothing was queued at its start and nothing closed since.
* `LiveLoopsOwn`: `OwnedByLiveLoop`.
* `LeastLoaded`: the action property `LeastLoadedIfQuiet`; with no `StartWorking`
  queued a loop's load is its `connection_size_`.

**HttpServer**, for every set of connections and loops, every assignment of
addresses and owners and all options with at least one tick:

* `Invariance`: `Spec => []IInv`, with `CountsInv` (the counters are the numbers
  of open connections), `ServedInv` (what was let in stays within the limits) and
  `WheelInv` (a connected connection is in the bucket it was last put into, that
  bucket is as old as its last activity, and no older bucket holds it). Ages are
  differences modulo `idle_ticks_`, and the step to watch is the tick, which
  reuses the oldest bucket for the newest.
* `CountedWithinLimits`, `SilentShutDown`, `ActiveSpared`: `LimitsHold`,
  `IdleShutDown` and the action property `ActiveKept`.

**Buffer**, for every initial size, backup and size of an append:

* `CapacityInvariance`: `CapacityBounded`, which is inductive as it stands.
* `BufferIsByteQueue`: the buffer implements `ByteQueue`; each operation is a put,
  a take or, where only space is made, a stuttering step. It rests on lemmas about
  the window between the indices under copying, moving and growing.

**Pollers**, for every set of descriptors:

* `PollersAgree`: `WatchedExactly`. `PollersInv` is one invariant per poller: `index_`
  is a bijection between the `Dispatch`es of `EventPoll` and `pollfds_`
  (`PollInv`; the swap with the last entry needs it); `nfds_` is beyond every key
  of `worker_map_` (`SelectInv`); a write filter of kqueue that is off is one
  `add_write_` remembers (`KqueueInv`); epoll's index says whether the kernel
  knows the descriptor (`EpollInv`).

**Rpc**, for every number of calls:

* `DoneReleasedOnce`: `ReleasedOnce`, from `IInv`: the streams are whole frames
  however reads cut them (`NetInv`), and the id a caller on another thread holds
  between its send and its entry is released by no one (`CallInv`).
* `AnsweredOnceWithOwn`: `OwnAnswerOnly`, from `OwnInv`, which adds that a call is
  in at most one place, the request stream, the service or the reply stream, once
  (`PlaceInv`), that a set timer belongs to an entered call (`LoopInv`), and that
  no further message is to come for a call that was answered (`AnswerInv`).

**TcpClient**, for every set of threads, every retry time and every bound:

* `StoppedStaysStopped`: the action property `StopHolds`, for every caller.
* `OneAttemptFromRest`: `Spec /\ [][StartsAtRest]_vars => []OneAttempt`.
  `TcpConnector::Start` does not look at what is under way, so its callers have
  to: every `connect()` that is not a retry's must find neither a `Dispatch` nor a
  retry timer. Without this the property is false: a `Close` and a `Connect` that
  end up in one batch of functions, a `Connect` in `connect_failure_cb_` and a
  `Connect` while a retry timer is set all start a second attempt. The inductive
  `CInv` says what may still refer to the `Dispatch` in each position of the loop
  thread: a poll result only to the current one (`PollInv`), a `HandleEvent` that
  is calling back runs on it (`HandlingInv`), the destruction of one that is done
  with is queued once and executed before the next timers and the next `Poll`
  (`ResetInv`), a retry timer is set once and only while disconnected (`TimerInv`),
  and an attempt under way has its own socket in the poller (`ConnectingInv`).
* `OneAttemptOfClient`: a client with one `Connect`, and then one in each
  `close_cb_` at most that is not early, keeps to that contract; the connection may
  close anywhere, inside `connection_cb_` too. `KInv` adds where the first start
  is on its way (`FirstStart`) and that there is one connection at most, gone in
  `close_cb_` while the connector still says `kConnected`, and with no `Dispatch`
  but the one it was made with (`OneConnection`).
* `OneAttemptAtATime`: with at most one reconnection, as in the run, nothing is
  assumed of the steps. Both are false without the restriction on early closes
  (finding 4).

**HttpClient**, for every number of requests and every set of kinds of requests
and replies, with bodies of any size, announced or not:

* `ResponsesAreAwaited`, `ResponsesAreTheirOwn`, `KeptAliveEnds`: `AlwaysAsked`,
  `OwnAnnounced` and the action property `KeepAliveNeverSpins`. `OwnAnnounced` is
  `OwnResponse` with its second part, whose response a callback gets, for
  announced bodies only; that it also holds without is left to TLC. `HInv` has to say
  what is under way in both directions although reads cut the text anywhere; it
  can as long as bodies were announced (`framed => Clean`).
  `Spells(kind, p, st, ms)` says that a parser in state `p` has before it, in the
  stream `st`, the messages `ms` and nothing else: `p` has taken some tokens of the
  head of the first one, and `st` is the rest of it and the others. `Streams` then
  counts: responses before the client's parser and, while the server answers,
  requests before the server's are together no more than the callbacks waiting;
  and they are the first callback's when requests are made one at a time.
  `QueueOf` says that who waits was never told, and `Ends` that the server's
  parser is in `kEnd` on an open connection only if a close was taken back.
* The argument about the parser is `ParseEnds`: on the rest of a message, followed
  by anything, `ParseBuffer` ends, and it ends inside the head, before the body, or
  behind the message. It is an induction over the turns of the loop, carried out
  on the set of turns a statement holds of (`UpTo`, from the least element of a set
  of numbers), and over `TurnStep`, which has one case per state and token.
  `SpellsParse` lifts it to streams: a parse leaves the messages or takes the first.
* `ParseStops` says of any text and any parser not in `kEnd` that `ParseBuffer`
  ends: each turn that goes on leaves less to read (`TurnTakes`, `LeftBelow`). This
  is what `KeptAliveEnds` needs where bodies are not announced.

The proofs rest on the named assumptions about the constants, which TLC evaluates
in the runs: bounds are natural numbers, sizes and the pipe are not 0, delays are
natural numbers, descriptors are natural numbers, the loop is none of the other
threads, an idle timeout has at least one tick. No set needs to be finite.

Only model-checked:

* all liveness: fairness and ENABLED are beyond the prover;
* `RoundTrip`, `TornRefused`, `JsonStable` and `ChecksumOfStream` of `Codecs`:
  `Coding`, `Crc32c`, `Base64` and `Json` are written with recursive operators, as
  the code is with loops and recursion, and the prover loses its arithmetic in a
  module that reaches one. What they compute for every input would besides be an
  induction over data of its own for each.

## Not modelled, and what is left

Left out for good:

* sockets and addresses, which are wrappers of system calls;
* logging, status, slices, strings and time, which format and wrap; `hash`, which
  has no property beyond its values;
* `NewTimer`, which nothing in the library uses;
* copies and moves of `Buffer` and `ShrinkToFit`: a buffer that was moved from
  keeps its indices over an empty vector, but nothing in the library looks at one;
* the allow and deny sets of `TcpMonitor`, which `HttpServer` leaves empty;
* the literals of the look-up tables: `Crc32c` computes `table0_` to `table3_` from
  the polynomial and `Base64` names a character by its place in the alphabet, so
  that a wrong entry in `crc32c.cc:17-192` or `modp_b64_data.h` would not show in
  `ChecksumOfStream` or `RoundTrip`, which are about the loops around the tables;
* the destruction of an `EventLoop`, and protobuf itself;
* the tests, examples, benchmarks and the tutorial, which were read for how the
  library is called.

What would come next is an encoding of `Coding` and `Base64` with recursive
functions in place of operators, whose round trips could then be proved the way
`ParseEnds` is, by induction on a set of lengths.
