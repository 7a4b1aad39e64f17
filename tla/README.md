# A TLA+ model of hyper_ruby

hyper_ruby is a Ruby extension in Rust: an HTTP/gRPC server on hyper and tokio,
with syslog listeners beside it, whose requests and messages are handled by
Ruby threads. The difficult part is not any one function but how tokio tasks,
bounded channels, Ruby's global VM lock (GVL) and `stop()` meet. This directory
models those meetings, checks them with TLC on small instances and proves most
of the safety results with TLAPS for every instance.

Source paths below are relative to `ext/hyper_ruby/src/`.

## The system and its modules

| Part | Source | Module | Proofs |
|---|---|---|---|
| Syslog delivery: listeners, readers, permits, delivery tasks, datagrams, counters, drain | `syslog.rs` | `SyslogDelivery` | `SyslogDeliveryOrder`, `SyslogDeliveryAdmission`, `SyslogDeliveryHandler` |
| What delivery promises | `lib/hyper_ruby.rb` 16, 34-42 | `SyslogAdmission` (abstract) | `SyslogDeliveryAdmission` |
| Ruby workers sharing two queues, the GVL | `lib.rs` 215-306, 610-694, `gvl_helpers.rs` | `WorkerLoop` | `WorkerLoopProofs` |
| HTTP accept loop, connections, `handle_request`, reply, `stop()` | `lib.rs` 424-503, 536-608, 736-912 | `HttpServer` | `HttpServerProofs` |
| RFC 6587 framing of a stream | `syslog/framing.rs`, `syslog.rs` 711-780 | `Framing`, `Rfc6587` (reference) | `FramingProofs` |
| PROXY v2 header in front of a stream | `syslog/proxy.rs`, `syslog.rs` 683-699, 840-887 | `ProxyHeader` | `ProxyHeaderProofs` |
| Unix socket files of successive servers | `lib.rs` 362-397, 575-590, `syslog.rs` 432-454, 539-562 | `SocketFile` | `LifecycleProofs` |
| Life of a server object: configure, start, stop, run_worker, syslog_listening? | `lib.rs` 122-231, 308-593, `syslog.rs` 395-537 | `Lifecycle` | `LifecycleProofs` |
| gRPC prefix, responses, request accessors, configuration parsing, Ruby glue | `grpc.rs`, `response.rs`, `request.rs`, parts of `lib.rs`, `syslog.rs` | not modelled, see the end | - |

The parts meet in `stop()`. `Lifecycle` models it whole but with tasks and
connections as single states; `HttpServer` and `SyslogDelivery` each follow one
generation through it in detail; `SocketFile` looks at its last lines from the
side of several processes. A `ProxyHeader` that ends "serving" or "closed" is
`ProxyHeaderComplete` or `ProxyHeaderFails` of `SyslogDelivery`, and the buffer
it leaves is the `src` that `Framing` starts from.

`MC*` modules hold what only TLC needs (chunks, inputs).

### SyslogDelivery

A stream connection is two tasks. `serve_stream` (`reader`, `buffer`) frames
messages, takes a permit of the shared semaphore for each (`FrameMessage`) and
sends it into the connection's bounded channel (`SendPending`).
`deliver_stream_messages` (`task`, `cur`, `attempt`) offers one message at a
time to the worker queue, waits for the verdict and, after a refusal, tries
again until the token is cancelled. A datagram gets one attempt. `fate` records
what became of a message, `credits` is the semaphore that every task takes from
and gives back to by itself. `stats` is `SyslogCounters`, with the
three rejection counters as one and the two PROXY counters as one. Bytes are
abstracted to what the framer makes of them (`Chunks`).

`stop()` is `StopAccepting`, then `DrainCompletes` or `DrainTimesOut` followed
by `RecordAbandoned` (the swap and the addition are two steps, and tasks run in
between), then `DropRuntime`, which is also a second `start()` (`Restarting`).
`ReplaceReceiver` is a second `start()` with no worker running, before or during
the drain: the one way the queue gets disconnected under live tasks.

### SyslogAdmission

At most `MaxPending` messages are held; a connection's messages are settled once
and in order; abandoning needs the server to be giving up. `SyslogDelivery`
implements it with `givingUp <- token \/ ~receivers`.

### WorkerLoop

`next_work_item` step by step: the `try_recv`s in the order the streak asks for,
the select without the GVL, the way back. A queue is the number of its items.
`syslog_streak` keeps its width as a modulus, because it is a u32 that only a
request resets.

### HttpServer

A connection is accepted, told to go (by `GracefulShutdown`, or by the broadcast
when it has a maximum age), and ends when it is quiet. Requests come on it one
after the other or several at a time, and go through `handle_request`: body,
try, poll, await. Workers take them with `next_http_work_item`. `stop()` waits
for the watched connections *with the GVL held*, then releases it if there are
syslog listeners to drain, then drops the runtime. A second `start()` drops it
too (`ReplaceRuntime`), and the workers that run keep the old channel and what is
queued in it; without workers the channel is discarded first (`ReplaceReceiver`).
A `start()` inside a `stop()` is left to `Lifecycle`. The accept loop may accept
after the shutdown was sent, until it sees it. `AcceptErrors` says whether
`accept()` may fail. The answer to a malformed gRPC path (`lib.rs` 259-266) is
left out: `run_worker` gets there only for paths it has just found well formed.

### Framing

`Framer` over byte classes (digits, space, newline, letter, return, not UTF-8),
with `LinesCodec` of tokio-util as an external part. `Read` returns any part of
what was sent, so every split is covered. `usize` keeps a width, `UsizeModulus`:
`from + len` is computed before `len` is compared with the limit and wraps, as in
a build without overflow checks.

`Rfc6587` says what the messages should be: it cuts the whole input into frames,
first frame first, without a buffer, a state or a read.

### ProxyHeader

`proxy::parse` byte by byte, with its own constants, and `read_proxy_header`
around it: every read is followed by a parse of all that has come so far. `Fail`
includes what `serve_stream` does with the failure: it is counted and the
connection closed. Time is a timer that `Tick` counts down.

### SocketFile

Bind to a temporary path, read its inode, rename; at stop, compare and remove as
two steps. `ReuseInodes` lets the file system give a freed number out again.

### Lifecycle

Each `start()` makes a generation. The object's fields (`work_tx`, `runtime`,
`shutdown`, `server_handle`, `syslog_runtime`, ...) say which generation they
belong to, and need not agree: `start()` fails after the channels, after the
runtime or after the HTTP listener, and `stop()` takes some fields before its
drain and the others after it. `start()` is one step because it holds the GVL
throughout; `stop()` is `StopBegins` (GVL held until the server task is joined),
a drain without the GVL, and `StopFinishes`. A runtime lives while the object or
a `stop()` refers to it (`Reap`). `Unreadable` are the starts whose
`symlink_metadata` fails, `.ok()` making that `None` (`Ident`); their files are
`Stray`, since no later call knows them.

## Runs

Deadlock is not checked anywhere: after `stop()`, or at the end of a stream, the
system really stops.

| Run | Shows |
|---|---|
| `syslog_backlog` | `PermitsInHand`, `ConnectionBound` (limit + 2); `EveryMessageSettles` under fairness: four messages of one connection and a datagram, one place in the channel and one in the queue, four permits |
| `syslog_stop` | `PermitsBalanced`, `StatsExact`, `NothingUncounted`, `CleanDrain`, `HandlerOrder`, `ImplementsAdmission`: a connection and a datagram, every kind of decoding outcome, a drain limit that may pass at any moment |
| `syslog_drains` | `ConnectionsCounted`, `AbandonedOnlyAtShutdown`; `EveryMessageSettles`, `DrainFinishes` under fairness: three connections behind PROXY headers, two at a time, one permit |
| `worker_queues` | `RatioBound`, `GvlExclusive`; `RequestsNotStarved`, `MessagesNotStarved`, `WorkersEnd` under fairness |
| `http_requests` | `RejectedNeverRun`, `OneRunPerAnswer`, `GracefulStop`, `WaitedForIsTold`, `NoReplyWhileStopWaits`; `EveryRequestEnds` under fairness: two connections, two requests, `stop()` or a second `start()` |
| `framing_splits` | `FramesAsDefined`, `BufferBound`; `DecodingEnds` under fairness |
| `proxy_header` | `OutcomeAsDefined`, `PayloadIntact`, `HeaderBufferBound`, `OneDeadline`; `HeaderEnds` under fairness |
| `socket_takeover` | `NothingLeftBehind`, `TakesOnlyRaced` with inode reuse |
| `lifecycle` | `StoppedClean`, `ListeningAccurate`, `DrainKeepsWorkers`, `SenderKept`; `StopReturns`, `WorkersReleased` under fairness: two calling threads, three starts |

The type invariants are no part of a run: each is a theorem.

`EveryMessageSettles` starts when a message has been decoded, not when it has its
permit. `syslog_backlog` has the waits inside one connection: behind a refused
message, in the channel, for a slot, for the queue. `syslog_drains` has the wait
for a permit that another connection holds.

Three runs end in a counterexample, each to something the repository says:

| Run | The code | The text |
|---|---|---|
| `http_max_age_stop` | connections with a maximum age are not waited for | `lib.rs:444-445` |
| `http_accept_error` | one failed `accept()` ends HTTP accepting | `syslog.rs:627`, of the other listener |
| `framing_overlong_line` | the rest of an overlong line can be read as an octet count | `framing.rs:37-38` |

More differences from the documentation, and limits of what the code does, show
in the statements that hold, not in a run of their own:

- One connection can hold `max_pending_per_connection` + 2 messages
  (`ConnectionBound`), where `lib/hyper_ruby.rb:18` says "undelivered messages
  allowed for one connection": a permit is taken before the wait for a slot, and
  one message is with the delivery task.
- A request can wait for one message more than `syslog_work_ratio`
  (`lib/hyper_ruby.rb:26`) when the streak, a u32, wraps in a build without
  overflow checks (`RatioBound`). It takes 2^32 messages without a request on
  one worker.
- `StatsExact` speaks of the pending and abandoned counters only until a drain
  reaches its limit. The gauge is then swapped to zero under running tasks, and a
  message framed later stays in it; `NothingUncounted` is what still holds.
- `lib.rs:382-383` says an older server "never unlinks a newer generation's
  socket". The check and the removal are two system calls, so a server that
  starts between them loses its file; so does one that was given the inode number
  of a closed one. `TakesOnlyRaced` says that there is no other way.
- `StoppedClean` excepts a `bind_address` configured anew under a socket file:
  `stop()` removes the file of the address configured by then (`lib.rs:575`).
  And it excepts a file whose metadata could not be read at bind (`lib.rs:384`,
  `syslog.rs:552`): without an identity `stop()` removes nothing.
- `ListeningAccurate` excepts listeners whose runtime another `start()` replaced
  or another `stop()` dropped: the flag is cleared only through the handle.
- `DrainKeepsWorkers` excepts a drain during which another `start()` or `stop()`
  came in: that call takes or replaces the channels (`lib.rs:570`), and the
  workers may leave with messages undelivered.
- A `start()` over a running server that cannot build its runtime has replaced the
  shutdown sender by then (`lib.rs:327`), and the old task serves on. `SenderKept`
  says that nothing else takes the sender from a task. A `stop()` of that task
  waits, with the GVL, for one that hears nothing (`Hung`), and every other call
  waits behind it: the exception of `StopReturns` and `WorkersReleased`.
- A connection with a maximum age that is accepted after the shutdown was sent
  subscribes too late to see it (`lib.rs:448`) and goes on until its age, or with
  the runtime.

Two remarks that no model is about: a block that fails answers gRPC requests
with the plain 500 that `lib.rs:887` calls one "For non-gRPC requests"; and
`GrpcResponse#status` reads headers while the status is sent in trailers.

`BufferBound` has an exception taken from the code: `octet_decode` returns as
soon as it has seen an oversize length (`framing.rs:179-181`), so what the same
read brought of that body stays in the buffer, and the error unreported, until
the next read.

### Bounds

`MaxOutcomes` bounds what a peer sends, `AttemptLimit` how often the block
refuses before a stop, `MaxGen` the calls of `start()`. The limits
(`MaxPending`, channel capacities) are 1 or 2, so that full, empty and
contended all occur (four permits in `syslog_backlog`, so that a connection
meets its own limit first). Two connections suffice to contend for permits and
the queue, and a third is refused. Two HTTP requests suffice for a queue of one;
with two connections they come on one or on both. Framing: `MaxLength` 2 allows
one-digit lengths within and beyond the limit, and `UsizeModulus` 5 lengths whose
end wraps; six bytes hold two frames with a split in each, and an oversize frame
whose body alone reaches the buffer's bound. PROXY headers: `MaxHeader` 60 lets
both address families fit and a longer block not; the streams vary each field of
the prefix, with a message behind. Three servers allow an old, a current and a
racing one. `StreakModulus` 3 stands for 2^32. Three generations and two threads
give a `start()` or `stop()` inside another `stop()`, failed starts before, after
and between good ones, and a `start()` after a sender was lost; the second
start's file is the one whose metadata cannot be read. One of the threads calls
`configure` and `start` (`Starters`): these are single steps, so which thread takes
them matters only for a `start()` while both are in `stop()`, which takes a third
thread and is covered by the safety proofs only. `BlockVerdicts` are the answers of the block, `DrainMayTimeOut` says whether the drain's limit may
pass: at any moment in `syslog_stop`, and not in the liveness runs, where it
would end every wait. What the small instances leave open, the proofs
close for the safety properties they cover.

### Fairness

tokio polls ready tasks and fires timers, and a thread that waits for the GVL gets
it: weak fairness of each task's and each thread's steps. Strong fairness, for
the semaphore, `select!` and the GVL, which hand on in turn or at random, is
needed in `WorkerLoop` only, where items never stop coming and the workers take
the GVL from each other for ever. Elsewhere a step can be disabled by another task
only as often as peers send, clients connect and calls are made, and the bounds
make that finite. Blocks are assumed to return, and Ruby threads to call `run_worker` on an HTTP server.
Nobody is assumed to connect, send, leave, or call `start()` or `stop()`. That a
refused message is accepted in the end is the bound `AttemptLimit`, an
assumption about the handler.

## Proofs

| Module | Theorem | States |
|---|---|---|
| `SyslogDeliveryOrder` | `TypeCorrect` | `[]TypeOK` |
| `SyslogDeliveryAdmission` | `NoPermitLost` | `[]PermitsBalanced` |
| | `CountersExact` | `[]StatsExact` |
| | `EveryMessageCounted` | `[]NothingUncounted` |
| | `Implements` | `ImplementsAdmission`, the refinement |
| | `PermitsAccounted` | `[]PermitsInHand` |
| | `ConnectionBounded` | `[]ConnectionBound` |
| | `ConnectionsAccounted` | `[]ConnectionsCounted` |
| `SyslogDeliveryHandler` | `NeverGivenUp` | `[]AbandonedOnlyAtShutdown` |
| | `DrainedClean` | `[]CleanDrain` |
| | `HandledInOrder` | `HandlerOrder`, an action property |
| `WorkerLoopProofs` | `TypeCorrect` | `[]TypeOK` |
| | `RatioRespected`, `GvlHeldAlone` | `[]RatioBound`, `[]GvlExclusive` |
| `HttpServerProofs` | `TypeCorrect` | `[]TypeOK` |
| | `TurnedAway`, `RunOnce` | `[]RejectedNeverRun`, `[]OneRunPerAnswer` |
| | `StopsGracefully`, `ToldToGo` | `[]GracefulStop`, `[]WaitedForIsTold` |
| | `StopBlocksWorkers` | `NoReplyWhileStopWaits`, an action property |
| `ProxyHeaderProofs` | `TypeCorrect` | `[]TypeOK` |
| | `OutcomeIndependentOfReads` | `[]OutcomeAsDefined` |
| | `PayloadKept`, `HeaderBounded`, `DeadlineKept` | `[]PayloadIntact`, `[]HeaderBufferBound`, `[]OneDeadline` |
| `FramingProofs` | `TypeCorrect`, `BufferBounded` | `[]TypeOK`, `[]BufferBound` |
| | `FramesCorrect` | `[]FramesAsDefined` |
| `LifecycleProofs` | `TypeCorrect` | `[]TypeOK` |
| | `NothingLeft`, `ListeningTrue` | `[]StoppedClean`, `[]ListeningAccurate` |
| | `WorkersKept`, `SenderNotLost` | `DrainKeepsWorkers`, `SenderKept`, action properties |
| | `RemovalExplained`, `FilesRemoved` | of `SocketFile`: `TakesOnlyRaced`, `[]NothingLeftBehind` |

*Syslog delivery* is proved in three modules, two of which extend the first.
`SyslogDeliveryOrder` has the types and `Order`: a connection's messages lie in
consecutive segments, settled, with the delivery task, in the channel, in
`pending_tx.send`. That a counter is exact is not inductive without it: one must
know that the message being settled was held. It also has `DrainOnce` (the
drain's phases and its history) and `GoneForGood` (what a replaced queue leaves
behind).
`SyslogDeliveryAdmission` has `Accounting` (each step moves one message from one
fate to another and one counter with it, and `credits` goes down with a message
that becomes held and up with one that no longer is), reads off `Order` who has
each message in hand, which turns the sum over held messages into
`PermitsBalanced`, and proves the refinement action by action: a step is Hold, Admit,
Abandon, Drop, GiveUp or a stutter.
`SyslogDeliveryHandler` follows deliveries: `Flight` says that a delivery in the
queue or with a worker is the one its task waits for, and that no source has two.
It adds `Verdicts` (what the block accepted is counted as delivered, or its task
is about to count it, and nothing else is), `Abandons`, `Closed` (what a
connection that has closed no longer holds) and `Seen` (what the block saw last
of a source, against the source's own place), and from them the three properties
about the block. Assumptions: finite sources, limits of at least 1 (the code
clamps the two pending limits; a queue of capacity 0 is left out).

*Workers.* `ahead` is bounded by the streak, a message not yet counted, and one
for a wrap; a worker that reached the select is ahead of nobody. Assumption: the
ratio is below the modulus, both being u32.

*HTTP.* `ReqInv`: a request has one claim to be run (in the queue, with one
worker, or none), its run count follows from that, and a reply exists only after
a run or a discarded queue. `StopInv`: a request in progress is carried by a live
connection, so that when the last watched connection is gone nobody is left to
abort; every live connection is told once the loop has stopped; `stop()` has the
GVL only while it waits. `StopHolds`: from the shutdown to the end of the wait it
does have it, and a worker needs it to start a block and to return from one; that
is `NoReplyWhileStopWaits`. Nothing is assumed but a capacity of at least 1.

*PROXY header.* The buffer is the part of the stream taken so far (while the
header is read), and the parse of a prefix agrees with that of any longer one
unless it is "incomplete"; the verdict is thus that of the whole stream. The
proof goes through the fields one at a time. Assumption: the limit is at
least the prefix.

*Framing.* Types and the bound need `octet` to be a state of the decoder and the
declared length to be a number. The messages need an invariant about the rest of
the stream, `AsDefined`: while the framer can go on, the messages so far followed
by the frames of what is in the buffer and still to come are the frames of the
input; when it cannot, the messages so far are all of them. A decoder that is in
the middle of a counted frame has a buffer that begins with the count
(`Started`), so it goes on as it would from the start of the frame. `DecodeRight`
shows the invariant for each outcome of a `decode`, from `CountedFrames`,
`UncountedFrames`, `LineFrames` and `LastLine`, which say what the first frame of
the stream is once enough of it is in the buffer.
`Frames` and `Number` are recursive functions, and what they compute is proved
by looking at a least counterexample (`Least`, `UpTo`): that a function with the
recursion exists, that there is only one (`FramesExist`, `FramesAgree`), and that
the frames of a stream are its first frame and the frames of the rest
(`FramesUnfold`). Assumptions: those of `Framing` on the limit and the modulus,
and inputs that are finite sequences of its bytes. TLC checked `AsDefined` on the
instance of the run first.

*Socket files.* Who can own the path and the temporary files in each state, and
that a server about to remove finds its own file, one that came after its
check, or one with its inode number.

*Life cycle.* None of the properties is inductive: each speaks of one field
and the fields are of different generations. The invariant says who refers to
what. A generation that `start()` has not made is nowhere (`Made`), so what it
makes cannot be mixed up with what is there; a task runs on a runtime that the
object or a `stop()` holds (`TasksHeld`), and a thread outside `stop()` holds none
(`HoldsNothing`); a socket file belongs to a handle that will remove it
(`SyslogFileOwned`), or is the one whose identity the object has stored
(`FileOwned`). That is `StoppedClean`. For the drain, `Handles` says that the
server task and the listeners of one `start()` are stored and taken together,
that the task serves until then, and that the shutdown sender and the channels
are of one generation. So when `stop()` takes listeners that run, their task
serves; either the shutdown it sends is that task's, and the channels are the
listeners', or the task is never told and `stop()` waits in vain (`Waits`).
The GVL keeps all others out meanwhile. Hence a drain begins with the channels of its
own listeners, which only a call that disturbs it can replace (`Drains`).
`SenderKept` needs `Told`: a `stop()` that has taken the runtime of the newest
`start()` has told its task, so that the sender it lets go of is no longer needed.
Assumptions: none on threads, workers and paths but that the names do not clash.
TLC checked this invariant on the instance of the run before it was proved.

Only model-checked: liveness (`EveryMessageSettles`, `DrainFinishes`,
`RequestsNotStarved`, `MessagesNotStarved`, `WorkersEnd`, `EveryRequestEnds`,
`DecodingEnds`, `HeaderEnds`, `StopReturns`, `WorkersReleased`), which needs
fairness and ENABLED and is out of the prover's reach. Every safety property of a
passing run is a theorem.

## Not modelled

- gRPC framing (`grpc.rs`): a five byte prefix and a status table, conversions
  of one byte string into another without state.
- Responses (`response.rs`): immutable objects; a body is one data frame and one
  trailer frame, whose order hyper decides.
- Request accessors (`request.rs`): readers of an immutable request, and copies
  into Ruby strings whose effect is decided by Ruby's string API.
- Reading of the configuration hash, class definitions, logging. That
  `configure()` may come at any time is in `Lifecycle`.
- Inside a connection: HTTP parsing, flow control, keep-alive pings, hyper's own
  timeouts; they appear as requests that arrive, and connections that end, at any
  moment.
- A worker queue of capacity 0; two stream listeners at once (they share the
  connection counter, so a connection may be refused while another is being
  refused); branches the code cannot reach (a closed semaphore, a failed
  `pending_tx.send`); the instants between two counter updates of one task with
  no await between them.
- The counters across generations: a `start()` over a running server drops the
  old runtime with messages in hand, and their share of the pending gauge is
  never released.
