--------------------------- MODULE SyslogDelivery ---------------------------
(***************************************************************************)
(* The syslog side of the server (ext/hyper_ruby/src/syslog.rs): stream    *)
(* connections that frame messages and hold them until a Ruby worker       *)
(* accepts them, datagrams that get one attempt, the credits that bound    *)
(* what is undelivered, the counters of syslog_stats, and the shutdown     *)
(* that drains the listeners for a limited time and then drops the tokio   *)
(* runtime with every task on it.                                          *)
(*                                                                         *)
(* A connection is two tasks: serve_stream reads and frames (`reader`),    *)
(* deliver_stream_messages offers one message at a time to the workers     *)
(* (`task`).  They are joined by a bounded channel (`chan`).  A datagram   *)
(* has a delivery task only.  Bytes are abstracted to what the framer      *)
(* makes of them: a read brings a chunk of decoding outcomes.              *)
(***************************************************************************)
EXTENDS Integers, Sequences, FiniteSets

CONSTANTS
    Conns,                    \* stream connections a peer may open, each once
    Datagrams,                \* datagrams a peer may send, each once
    Workers,                  \* Ruby threads that may call run_worker
    BlockVerdicts,            \* what the worker block may come to
    Chunks,                   \* what one read may bring: sequences of outcomes
    ProxyProtocol,            \* config.proxy_protocol
    MaxPending,               \* config.max_pending: permits of the semaphore
    MaxPendingPerConnection,  \* capacity of a connection's pending channel
    MaxConnections,           \* config.max_connections
    ChannelCapacity,          \* capacity of the worker queue
    MaxOutcomes,              \* bound: decoding outcomes per connection
    AttemptLimit,             \* bound: attempts the handler may refuse before a stop
    DrainMayTimeOut           \* whether the drain's limit of ten seconds may pass

Sources == Conns \cup Datagrams

\* What Framer::decode makes of the buffer: a message, a recoverable error, a
\* fatal error; "eof" is the end of the stream, after which only what
\* decode_eof still releases is left.
Outcomes == {"message", "skip", "fatal", "eof"}

ASSUME SourcesAssumption ==
    /\ IsFiniteSet(Conns) /\ IsFiniteSet(Datagrams)
    /\ Conns \cap Datagrams = {}

\* What deliver() learns of a call of the block: a truthy value, another one, an
\* exception.
HandlerResult == {"Accepted", "Refused", "Failed"}

ASSUME VerdictsAssumption == BlockVerdicts \subseteq HandlerResult

ASSUME ChunksAssumption == Chunks \subseteq Seq(Outcomes) \ {<<>>}

\* SyslogConfig clamps both pending limits to at least 1 (syslog.rs:137-142).
\* A worker queue of capacity 0 is a rendezvous channel and is not modelled.
ASSUME LimitsAssumption ==
    /\ MaxPending \in Nat \ {0} /\ MaxPendingPerConnection \in Nat \ {0}
    /\ ChannelCapacity \in Nat \ {0}
    /\ MaxConnections \in Nat /\ MaxOutcomes \in Nat /\ AttemptLimit \in Nat

ASSUME SwitchesAssumption ==
    ProxyProtocol \in BOOLEAN /\ DrainMayTimeOut \in BOOLEAN

VARIABLES
    \* serve_stream, one per connection
    reader,     \* "new", "proxy", "read", "send", "closing", "done", "refused"
    buffer,     \* outcomes read and not yet decoded
    sent,       \* outcomes the peer has sent so far (bounded by MaxOutcomes)
    framed,     \* messages framed so far: the n-th one is <<c, n>>
    chan,       \* pending_tx / pending_rx
    connections,\* dispatcher.connections
    \* deliver_stream_messages per connection, the spawned task per datagram
    task,       \* "idle", "offer", "await", "backoff", "done"
    cur,        \* the message in hand
    attempt,    \* its attempt
    gone,       \* workers_gone
    result,     \* the oneshot of the delivery awaited
    \* the worker side
    queue,      \* syslog_work_tx / syslog_work_rx
    receivers,  \* whether the queue still has a receiver
    running,    \* workers inside run_worker
    hand,       \* the delivery each worker is running the block for, or <<>>
    \* stop()
    listeners,  \* listener tasks still accepting
    token,      \* the CancellationToken is cancelled
    phase,      \* "serving", "draining", "recording", "returned", "dropped"
    swapped,    \* the local `abandoned` of drain
    timedOut,   \* history: the drain limit passed
    \* accounting
    fate,       \* what became of each message
    credits,    \* dispatcher.credits: free permits of the semaphore
    stats,      \* SyslogCounters
    \* history of what the worker block saw
    accepted,   \* messages it returned a truthy value for
    seen        \* last message and attempt it was called with, per source

connVars   == <<reader, buffer, sent, framed, connections>>
taskVars   == <<task, cur, attempt, gone>>
workVars   == <<queue, receivers, running, hand>>
stopVars   == <<listeners, token, phase, swapped, timedOut>>
blockVars  == <<accepted, seen>>
vars == <<connVars, chan, taskVars, result, workVars, stopVars, fate, credits, stats, blockVars>>

Messages == (Conns \X (1..MaxOutcomes)) \cup (Datagrams \X {1})
Delivery == [src: Sources, frame: Nat, attempt: Nat]

Counters == {"messages_delivered", "deliveries_refused", "handler_errors",
             "frames_rejected", "udp_truncated", "udp_dropped",
             "connections_opened", "connections_closed", "connections_refused",
             "proxy_errors", "abandoned_at_shutdown", "pending"}

\* Messages with a given fate; a held one has a live PendingMessage, which owns
\* one permit of the semaphore until it is dropped.
WithFate(f) == {m \in Messages : fate[m] = f}
Held == WithFate("held")

\* Readers inside credits.acquire_owned().await.
Waiting == {c \in Conns : reader[c] = "read" /\ buffer[c] # <<>> /\ Head(buffer[c]) = "message"}

\* Until the runtime is dropped its tasks run.
Alive == phase # "dropped"

Init ==
    /\ reader = [c \in Conns |-> "new"]
    /\ buffer = [c \in Conns |-> <<>>]
    /\ sent = [c \in Conns |-> 0]
    /\ framed = [c \in Conns |-> 0]
    /\ chan = [c \in Conns |-> <<>>]
    /\ connections = 0
    /\ task = [s \in Sources |-> "idle"]
    /\ cur = [s \in Sources |-> 1]
    /\ attempt = [s \in Sources |-> 1]
    /\ gone = [c \in Conns |-> FALSE]
    /\ result = [s \in Sources |-> "none"]
    /\ queue = <<>>
    /\ receivers = TRUE
    /\ running = {}
    /\ hand = [w \in Workers |-> <<>>]
    /\ listeners = {"stream", "datagram"}
    /\ token = FALSE
    /\ phase = "serving"
    /\ swapped = 0
    /\ timedOut = FALSE
    /\ fate = [m \in Messages |-> "none"]
    /\ credits = MaxPending
    /\ stats = [k \in Counters |-> 0]
    /\ accepted = {}
    /\ seen = [s \in Sources |-> <<0, 0>>]

-----------------------------------------------------------------------------
(* Counters *)

Count(st, k) == [st EXCEPT ![k] = @ + 1]

ReleasePending(st) == [st EXCEPT !["pending"] = IF @ = 0 THEN 0 ELSE @ - 1]

\* Mutant: an abandoned message stays in the gauge.
AbandonPendingKept(st) == Count(st, "abandoned_at_shutdown")

AbandonPending(st) == ReleasePending(Count(st, "abandoned_at_shutdown"))

\* deliver() counts what the worker answered.
CountResult(st, r) ==
    Count(st, CASE r = "Accepted" -> "messages_delivered"
                [] r = "Refused"  -> "deliveries_refused"
                [] r = "Failed"   -> "handler_errors")

-----------------------------------------------------------------------------
(* Listeners and the reading half of a connection *)

\* The stream listener accepts a connection, or refuses it at the limit.  Its
\* select may still accept after the token is cancelled, until it breaks.
Accepting(c) == Alive /\ "stream" \in listeners /\ reader[c] = "new"

Accept(c) ==
    /\ Accepting(c) /\ connections < MaxConnections
    /\ reader' = [reader EXCEPT ![c] = IF ProxyProtocol THEN "proxy" ELSE "read"]
    /\ connections' = connections + 1
    /\ stats' = Count(stats, "connections_opened")
    /\ UNCHANGED <<buffer, sent, framed, chan, taskVars, result, workVars, stopVars, fate, credits,
                   blockVars>>

RefuseConnection(c) ==
    /\ Accepting(c) /\ connections >= MaxConnections
    /\ reader' = [reader EXCEPT ![c] = "refused"]
    /\ stats' = Count(stats, "connections_refused")
    /\ UNCHANGED <<buffer, sent, framed, connections, chan, taskVars, result, workVars, stopVars,
                   fate, credits, blockVars>>

ListenerStops(l) ==
    /\ Alive /\ token /\ l \in listeners
    /\ listeners' = listeners \ {l}
    /\ UNCHANGED <<connVars, chan, taskVars, result, workVars, token, phase, swapped, timedOut, fate,
                   credits, stats, blockVars>>

\* The bytes that follow the header in the same reads are already buffered.
ProxyHeaderComplete(c) ==
    /\ Alive /\ reader[c] = "proxy"
    /\ \E rest \in Chunks \cup {<<>>} :
         /\ sent[c] + Len(rest) <= MaxOutcomes
         /\ sent' = [sent EXCEPT ![c] = @ + Len(rest)]
         /\ buffer' = [buffer EXCEPT ![c] = rest]
    /\ reader' = [reader EXCEPT ![c] = "read"]
    /\ UNCHANGED <<framed, connections, chan, taskVars, result, workVars, stopVars, fate, credits,
                   stats, blockVars>>

\* Mutant: the connection is not taken off the counter.
ProxyHeaderFailsUncounted(c) ==
    /\ Alive /\ reader[c] = "proxy"
    /\ reader' = [reader EXCEPT ![c] = "done"]
    /\ stats' = Count(Count(stats, "proxy_errors"), "connections_closed")
    /\ UNCHANGED <<buffer, sent, framed, connections, chan, taskVars, result, workVars, stopVars,
                   fate, credits, blockVars>>

\* A bad header, the end of the stream, a read error or the header timeout; the
\* cancelled token is not looked at before the header is complete.
ProxyHeaderFails(c) ==
    /\ Alive /\ reader[c] = "proxy"
    /\ reader' = [reader EXCEPT ![c] = "done"]
    /\ connections' = connections - 1
    /\ stats' = Count(Count(stats, "proxy_errors"), "connections_closed")
    /\ UNCHANGED <<buffer, sent, framed, chan, taskVars, result, workVars, stopVars, fate, credits,
                   blockVars>>

\* The decoder rejects a frame: a recoverable error skips it, a fatal one ends
\* the reading.
RejectFrame(c) ==
    /\ Alive /\ reader[c] = "read" /\ buffer[c] # <<>>
    /\ Head(buffer[c]) \in {"skip", "fatal"}
    /\ stats' = Count(stats, "frames_rejected")
    /\ buffer' = [buffer EXCEPT ![c] = Tail(@)]
    /\ reader' = [reader EXCEPT ![c] = IF Head(buffer[c]) = "fatal" THEN "closing" ELSE @]
    /\ UNCHANGED <<sent, framed, connections, chan, taskVars, result, workVars, stopVars, fate,
                   credits, blockVars>>

\* A decoded message waits for a permit, whatever the token says, and becomes
\* pending.  The semaphore is never closed.
FrameMessage(c) ==
    /\ Alive /\ c \in Waiting /\ credits > 0
    /\ buffer' = [buffer EXCEPT ![c] = Tail(@)]
    /\ framed' = [framed EXCEPT ![c] = @ + 1]
    /\ fate' = [fate EXCEPT ![<<c, framed[c] + 1>>] = "held"]
    /\ credits' = credits - 1
    /\ stats' = Count(stats, "pending")
    /\ reader' = [reader EXCEPT ![c] = "send"]
    /\ UNCHANGED <<sent, connections, chan, taskVars, result, workVars, stopVars, blockVars>>

\* Mutant: the channel of a connection is unbounded.
SendPendingUnbounded(c) ==
    /\ Alive /\ reader[c] = "send"
    /\ chan' = [chan EXCEPT ![c] = Append(@, framed[c])]
    /\ reader' = [reader EXCEPT ![c] = "read"]
    /\ UNCHANGED <<buffer, sent, framed, connections, taskVars, result, workVars, stopVars, fate,
                   credits, stats, blockVars>>

\* pending_tx.send waits for a slot.  It cannot fail: the delivery task keeps
\* the receiver until the sender is dropped.
SendPending(c) ==
    /\ Alive /\ reader[c] = "send"
    /\ Len(chan[c]) < MaxPendingPerConnection
    /\ chan' = [chan EXCEPT ![c] = Append(@, framed[c])]
    /\ reader' = [reader EXCEPT ![c] = "read"]
    /\ UNCHANGED <<buffer, sent, framed, connections, taskVars, result, workVars, stopVars, fate,
                   credits, stats, blockVars>>

\* The three ways out of the select, which is reached once the buffer holds no
\* complete frame: data, an error or idle timeout, the cancelled token.
Selecting(c) == Alive /\ reader[c] = "read" /\ buffer[c] = <<>>

Read(c) ==
    /\ Selecting(c)
    /\ \E chunk \in Chunks :
         /\ sent[c] + Len(chunk) <= MaxOutcomes
         /\ sent' = [sent EXCEPT ![c] = @ + Len(chunk)]
         /\ buffer' = [buffer EXCEPT ![c] = chunk]
    /\ UNCHANGED <<reader, framed, connections, chan, taskVars, result, workVars, stopVars, fate,
                   credits, stats, blockVars>>

StopReading(c) ==
    /\ Selecting(c)
    /\ reader' = [reader EXCEPT ![c] = "closing"]
    /\ UNCHANGED <<buffer, sent, framed, connections, chan, taskVars, result, workVars, stopVars,
                   fate, credits, stats, blockVars>>

ReadFails(c) == StopReading(c)

ReadCancelled(c) == token /\ StopReading(c)

EndOfStream(c) ==
    /\ Alive /\ reader[c] = "read" /\ buffer[c] # <<>> /\ Head(buffer[c]) = "eof"
    /\ buffer' = [buffer EXCEPT ![c] = <<>>]
    /\ reader' = [reader EXCEPT ![c] = "closing"]
    /\ UNCHANGED <<sent, framed, connections, chan, taskVars, result, workVars, stopVars, fate,
                   credits, stats, blockVars>>

\* The sender is dropped ("closing"), the delivery task awaited, the stream closed.
CloseStream(c) ==
    /\ Alive /\ reader[c] = "closing" /\ task[c] = "done"
    /\ reader' = [reader EXCEPT ![c] = "done"]
    /\ connections' = connections - 1
    /\ stats' = Count(stats, "connections_closed")
    /\ UNCHANGED <<buffer, sent, framed, chan, taskVars, result, workVars, stopVars, fate, credits,
                   blockVars>>

-----------------------------------------------------------------------------
(* Dispatcher::deliver, for a stream or a datagram *)

Message(s) == <<s, cur[s]>>

\* try_send succeeds; while the queue is full it is polled.
Offer(s) ==
    /\ Alive /\ task[s] = "offer" /\ receivers /\ Len(queue) < ChannelCapacity
    /\ queue' = Append(queue, [src |-> s, frame |-> cur[s], attempt |-> attempt[s]])
    /\ task' = [task EXCEPT ![s] = "await"]
    /\ UNCHANGED <<connVars, chan, cur, attempt, gone, result, receivers, running, hand, stopVars,
                   fate, credits, stats, blockVars>>

\* deliver() returns once a verdict is in the oneshot.
Answered(s, verdicts) == Alive /\ task[s] = "await" /\ result[s] \in verdicts

\* deliver() returns Unavailable: the queue is disconnected, or the delivery
\* was discarded with it.
Unavailable(s) ==
    /\ Alive
    /\ \/ task[s] = "offer" /\ ~receivers
       \/ task[s] = "await" /\ result[s] = "discarded"

-----------------------------------------------------------------------------
(* deliver_stream_messages *)

\* Mutant: the attempt of the last message is carried over.
ReceiveKeepsAttempt(c) ==
    /\ Alive /\ task[c] = "idle" /\ chan[c] # <<>> /\ ~gone[c]
    /\ chan' = [chan EXCEPT ![c] = Tail(@)]
    /\ cur' = [cur EXCEPT ![c] = Head(chan[c])]
    /\ task' = [task EXCEPT ![c] = "offer"]
    /\ UNCHANGED <<connVars, attempt, gone, result, workVars, stopVars, fate, credits, stats,
                   blockVars>>

Receive(c) ==
    /\ Alive /\ task[c] = "idle" /\ chan[c] # <<>> /\ ~gone[c]
    /\ chan' = [chan EXCEPT ![c] = Tail(@)]
    /\ cur' = [cur EXCEPT ![c] = Head(chan[c])]
    /\ attempt' = [attempt EXCEPT ![c] = 1]
    /\ task' = [task EXCEPT ![c] = "offer"]
    /\ UNCHANGED <<connVars, gone, result, workVars, stopVars, fate, credits, stats, blockVars>>

ReceiveWithoutWorkers(c) ==
    /\ Alive /\ task[c] = "idle" /\ chan[c] # <<>> /\ gone[c]
    /\ chan' = [chan EXCEPT ![c] = Tail(@)]
    /\ fate' = [fate EXCEPT ![<<c, Head(chan[c])>>] = "abandoned"]
    /\ credits' = credits + 1
    /\ stats' = AbandonPending(stats)
    /\ UNCHANGED <<connVars, taskVars, result, workVars, stopVars, blockVars>>

\* Mutant: the reader keeps its sender while it waits for the delivery task.
DeliveryEndsAfterClose(c) ==
    /\ Alive /\ task[c] = "idle" /\ chan[c] = <<>> /\ reader[c] = "done"
    /\ task' = [task EXCEPT ![c] = "done"]
    /\ UNCHANGED <<connVars, chan, cur, attempt, gone, result, workVars, stopVars, fate, credits,
                   stats, blockVars>>

\* recv returns None: the sender is dropped and the channel is empty.
DeliveryEnds(c) ==
    /\ Alive /\ task[c] = "idle" /\ chan[c] = <<>> /\ reader[c] = "closing"
    /\ task' = [task EXCEPT ![c] = "done"]
    /\ UNCHANGED <<connVars, chan, cur, attempt, gone, result, workVars, stopVars, fate, credits,
                   stats, blockVars>>

\* Mutant: the permit of an accepted message is not given back.
StreamAcceptedKeepsPermit(c) ==
    /\ Answered(c, {"Accepted"})
    /\ stats' = ReleasePending(CountResult(stats, "Accepted"))
    /\ fate' = [fate EXCEPT ![Message(c)] = "admitted"]
    /\ task' = [task EXCEPT ![c] = "idle"]
    /\ result' = [result EXCEPT ![c] = "none"]
    /\ UNCHANGED <<credits, connVars, chan, cur, attempt, gone, workVars, stopVars, blockVars>>

StreamAccepted(c) ==
    /\ Answered(c, {"Accepted"})
    /\ stats' = ReleasePending(CountResult(stats, "Accepted"))
    /\ fate' = [fate EXCEPT ![Message(c)] = "admitted"]
    /\ credits' = credits + 1
    /\ task' = [task EXCEPT ![c] = "idle"]
    /\ result' = [result EXCEPT ![c] = "none"]
    /\ UNCHANGED <<connVars, chan, cur, attempt, gone, workVars, stopVars, blockVars>>

\* Mutant: a refusal drops the message.
StreamRefusedAbandons(c) ==
    /\ Answered(c, {"Refused", "Failed"}) /\ ~token
    /\ stats' = AbandonPending(CountResult(stats, result[c]))
    /\ fate' = [fate EXCEPT ![Message(c)] = "abandoned"]
    /\ credits' = credits + 1
    /\ task' = [task EXCEPT ![c] = "idle"]
    /\ result' = [result EXCEPT ![c] = "none"]
    /\ UNCHANGED <<connVars, chan, cur, attempt, gone, workVars, stopVars, blockVars>>

\* A refusal or an exception: try again after a delay, or give up at shutdown.
StreamRefused(c) ==
    /\ Answered(c, {"Refused", "Failed"}) /\ ~token
    /\ stats' = CountResult(stats, result[c])
    /\ task' = [task EXCEPT ![c] = "backoff"]
    /\ result' = [result EXCEPT ![c] = "none"]
    /\ UNCHANGED <<connVars, chan, cur, attempt, gone, workVars, stopVars, fate, credits, blockVars>>

\* Mutant: a message given up at shutdown is forgotten and keeps its permit.
StreamGivesUpLeaks(c) ==
    /\ Answered(c, {"Refused", "Failed"}) /\ token
    /\ stats' = AbandonPending(CountResult(stats, result[c]))
    /\ task' = [task EXCEPT ![c] = "idle"]
    /\ result' = [result EXCEPT ![c] = "none"]
    /\ UNCHANGED <<connVars, chan, cur, attempt, gone, workVars, stopVars, fate, credits, blockVars>>

StreamGivesUp(c) ==
    /\ Answered(c, {"Refused", "Failed"}) /\ token
    /\ stats' = AbandonPending(CountResult(stats, result[c]))
    /\ fate' = [fate EXCEPT ![Message(c)] = "abandoned"]
    /\ credits' = credits + 1
    /\ task' = [task EXCEPT ![c] = "idle"]
    /\ result' = [result EXCEPT ![c] = "none"]
    /\ UNCHANGED <<connVars, chan, cur, attempt, gone, workVars, stopVars, blockVars>>

\* Mutant: the next attempt waits for an answer without being queued.
RetryUnsent(c) ==
    /\ Alive /\ task[c] = "backoff"
    /\ attempt' = [attempt EXCEPT ![c] = @ + 1]
    /\ task' = [task EXCEPT ![c] = "await"]
    /\ UNCHANGED <<connVars, chan, cur, gone, result, workVars, stopVars, fate, credits, stats,
                   blockVars>>

Retry(c) ==
    /\ Alive /\ task[c] = "backoff"
    /\ attempt' = [attempt EXCEPT ![c] = @ + 1]
    /\ task' = [task EXCEPT ![c] = "offer"]
    /\ UNCHANGED <<connVars, chan, cur, gone, result, workVars, stopVars, fate, credits, stats,
                   blockVars>>

StreamUnavailable(c) ==
    /\ Unavailable(c)
    /\ stats' = AbandonPending(stats)
    /\ fate' = [fate EXCEPT ![Message(c)] = "abandoned"]
    /\ credits' = credits + 1
    /\ gone' = [gone EXCEPT ![c] = TRUE]
    /\ task' = [task EXCEPT ![c] = "idle"]
    /\ result' = [result EXCEPT ![c] = "none"]
    /\ UNCHANGED <<connVars, chan, cur, attempt, workVars, stopVars, blockVars>>

-----------------------------------------------------------------------------
(* serve_datagrams *)

Receiving(d) == Alive /\ "datagram" \in listeners /\ task[d] = "idle"

DatagramTruncated(d) ==
    /\ Receiving(d)
    /\ task' = [task EXCEPT ![d] = "done"]
    /\ stats' = Count(stats, "udp_truncated")
    /\ UNCHANGED <<connVars, chan, cur, attempt, gone, result, workVars, stopVars, fate, credits,
                   blockVars>>

\* try_acquire_owned fails when no permit is free, and also when the free ones
\* are already assigned to the readers that queue for them.
DatagramWithoutCredit(d) ==
    /\ Receiving(d) /\ credits <= Cardinality(Waiting)
    /\ task' = [task EXCEPT ![d] = "done"]
    /\ fate' = [fate EXCEPT ![<<d, 1>>] = "dropped"]
    /\ stats' = Count(stats, "udp_dropped")
    /\ UNCHANGED <<credits, connVars, chan, cur, attempt, gone, result, workVars, stopVars,
                   blockVars>>

DatagramReceived(d) ==
    /\ Receiving(d) /\ credits > 0
    /\ task' = [task EXCEPT ![d] = "offer"]
    /\ fate' = [fate EXCEPT ![<<d, 1>>] = "held"]
    /\ credits' = credits - 1
    /\ stats' = Count(stats, "pending")
    /\ UNCHANGED <<connVars, chan, cur, attempt, gone, result, workVars, stopVars, blockVars>>

\* The one attempt is over: anything but acceptance drops the datagram.
DatagramAccepted(d) ==
    /\ Answered(d, {"Accepted"})
    /\ stats' = ReleasePending(CountResult(stats, "Accepted"))
    /\ fate' = [fate EXCEPT ![<<d, 1>>] = "admitted"]
    /\ credits' = credits + 1
    /\ task' = [task EXCEPT ![d] = "done"]
    /\ UNCHANGED <<connVars, chan, cur, attempt, gone, result, workVars, stopVars, blockVars>>

DatagramRefused(d) ==
    /\ Answered(d, {"Refused", "Failed"})
    /\ stats' = ReleasePending(Count(CountResult(stats, result[d]), "udp_dropped"))
    /\ fate' = [fate EXCEPT ![<<d, 1>>] = "dropped"]
    /\ credits' = credits + 1
    /\ task' = [task EXCEPT ![d] = "done"]
    /\ UNCHANGED <<connVars, chan, cur, attempt, gone, result, workVars, stopVars, blockVars>>

DatagramUnavailable(d) ==
    /\ Unavailable(d)
    /\ stats' = ReleasePending(Count(stats, "udp_dropped"))
    /\ fate' = [fate EXCEPT ![<<d, 1>>] = "dropped"]
    /\ credits' = credits + 1
    /\ task' = [task EXCEPT ![d] = "done"]
    /\ UNCHANGED <<connVars, chan, cur, attempt, gone, result, workVars, stopVars, blockVars>>

-----------------------------------------------------------------------------
(* Workers: the syslog half of run_worker *)

\* A Ruby thread enters run_worker and clones the receiver.
StartWorker(w) ==
    /\ receivers /\ Alive /\ w \notin running
    /\ running' = running \cup {w}
    /\ UNCHANGED <<connVars, chan, taskVars, result, queue, receivers, hand, stopVars, fate, credits,
                   stats, blockVars>>

\* A worker takes a delivery and calls the block with it.
TakeDelivery(w) ==
    /\ w \in running /\ hand[w] = <<>> /\ queue # <<>>
    /\ LET d == Head(queue) IN
         /\ hand' = [hand EXCEPT ![w] = <<d>>]
         /\ seen' = [seen EXCEPT ![d.src] = <<d.frame, d.attempt>>]
    /\ queue' = Tail(queue)
    /\ UNCHANGED <<connVars, chan, taskVars, result, receivers, running, stopVars, fate, credits,
                   stats, accepted>>

\* The block returns and its verdict goes back, unless nobody listens any more.
\* The bound on attempts is a bound on how often the block refuses.
CallBlock(w) ==
    /\ hand[w] # <<>>
    /\ LET d == Head(hand[w]) IN
       \E verdict \in BlockVerdicts :
         /\ verdict = "Accepted" \/ d.attempt < AttemptLimit \/ token
         /\ accepted' = IF verdict = "Accepted" THEN accepted \cup {<<d.src, d.frame>>} ELSE accepted
         /\ result' = IF Alive THEN [result EXCEPT ![d.src] = verdict] ELSE result
    /\ hand' = [hand EXCEPT ![w] = <<>>]
    /\ UNCHANGED <<connVars, chan, taskVars, queue, receivers, running, stopVars, fate, credits,
                   stats, seen>>

-----------------------------------------------------------------------------
(* stop(), and a second start() *)

StopAccepting ==
    /\ phase = "serving" /\ receivers
    /\ token' = TRUE
    /\ phase' = "draining"
    /\ UNCHANGED <<connVars, chan, taskVars, result, workVars, listeners, swapped, timedOut, fate,
                   credits, stats, blockVars>>

\* Mutant: the tasks of datagrams are not tracked.
TrackerEmptyOfStreams ==
    /\ listeners = {}
    /\ \A c \in Conns : reader[c] \in {"new", "refused", "done"}

\* Every task of the tracker has finished: the listeners, the connections (each
\* awaits its delivery task) and the datagrams.
TrackerEmpty ==
    /\ listeners = {}
    /\ \A c \in Conns : reader[c] \in {"new", "refused", "done"}
    /\ \A d \in Datagrams : task[d] \in {"idle", "done"}

DrainCompletes ==
    /\ phase = "draining" /\ TrackerEmpty
    /\ phase' = "returned"
    /\ UNCHANGED <<connVars, chan, taskVars, result, workVars, listeners, token, swapped, timedOut,
                   fate, credits, stats, blockVars>>

\* The limit passes, however far the tasks are: the gauge is swapped to zero,
\* then what it held is added to the abandoned messages.  The tasks keep running
\* meanwhile.
DrainTimesOut ==
    /\ phase = "draining" /\ ~TrackerEmpty /\ DrainMayTimeOut
    /\ swapped' = stats["pending"]
    /\ stats' = [stats EXCEPT !["pending"] = 0]
    /\ timedOut' = TRUE
    /\ phase' = "recording"
    /\ UNCHANGED <<connVars, chan, taskVars, result, workVars, listeners, token, fate, credits,
                   blockVars>>

\* Mutant: what the gauge held replaces the count of abandoned messages.
RecordAbandonedOverwrites ==
    /\ phase = "recording"
    /\ stats' = [stats EXCEPT !["abandoned_at_shutdown"] = swapped]
    /\ swapped' = 0
    /\ phase' = "returned"
    /\ UNCHANGED <<connVars, chan, taskVars, result, workVars, listeners, token, timedOut, fate,
                   credits, blockVars>>

RecordAbandoned ==
    /\ phase = "recording"
    /\ stats' = [stats EXCEPT !["abandoned_at_shutdown"] = @ + swapped]
    /\ swapped' = 0
    /\ phase' = "returned"
    /\ UNCHANGED <<connVars, chan, taskVars, result, workVars, listeners, token, timedOut, fate,
                   credits, blockVars>>

\* A second start() has its own channels by now: what it replaced is the last
\* receiver, or the workers that run keep theirs.
Restarting == phase = "serving" /\ (~receivers \/ running # {})

\* stop(), or a second start(), drops the senders and the runtime: every task
\* ends where it is, and the pending messages it owns go with it, uncounted.  The
\* queue stays with its receivers.
DropRuntime ==
    /\ phase = "returned" \/ Restarting
    /\ phase' = "dropped"
    /\ UNCHANGED <<connVars, chan, taskVars, result, workVars, listeners, token, swapped, timedOut,
                   fate, credits, stats, blockVars>>

\* A second start() replaces the receiver the Server holds before it drops the
\* old runtime, also while stop() drains without the GVL.  With no worker
\* running that was the last one: what is queued is discarded and the queue is
\* disconnected.
ReplaceReceiver ==
    /\ Alive /\ receivers /\ running = {}
    /\ receivers' = FALSE
    /\ queue' = <<>>
    /\ result' = [s \in Sources |-> IF task[s] = "await" THEN "discarded" ELSE result[s]]
    /\ UNCHANGED <<connVars, chan, taskVars, running, hand, stopVars, fate, credits, stats,
                   blockVars>>

-----------------------------------------------------------------------------

ReaderStep(c) ==
    \/ Accept(c) \/ RefuseConnection(c)
    \/ ProxyHeaderComplete(c) \/ ProxyHeaderFails(c)
    \/ RejectFrame(c) \/ FrameMessage(c) \/ SendPending(c)
    \/ Read(c) \/ ReadFails(c) \/ ReadCancelled(c) \/ EndOfStream(c) \/ CloseStream(c)

DeliveryStep(c) ==
    \/ Receive(c) \/ ReceiveWithoutWorkers(c) \/ DeliveryEnds(c)
    \/ StreamAccepted(c) \/ StreamRefused(c) \/ StreamGivesUp(c) \/ Retry(c)
    \/ StreamUnavailable(c)

DatagramStep(d) ==
    \/ DatagramTruncated(d) \/ DatagramWithoutCredit(d) \/ DatagramReceived(d)
    \/ DatagramAccepted(d) \/ DatagramRefused(d) \/ DatagramUnavailable(d)

WorkerStep(w) == StartWorker(w) \/ TakeDelivery(w) \/ CallBlock(w)

StopStep ==
    \/ StopAccepting \/ DrainCompletes \/ DrainTimesOut \/ RecordAbandoned
    \/ DropRuntime \/ ReplaceReceiver

Next ==
    \/ \E c \in Conns : ReaderStep(c) \/ DeliveryStep(c)
    \/ \E d \in Datagrams : DatagramStep(d)
    \/ \E s \in Sources : Offer(s)
    \/ \E w \in Workers : WorkerStep(w)
    \/ \E l \in {"stream", "datagram"} : ListenerStops(l)
    \/ StopStep

Spec == Init /\ [][Next]_vars

\* What a task does by itself once it can.
ReaderProgress(c) ==
    \/ ProxyHeaderFails(c) \/ RejectFrame(c) \/ FrameMessage(c) \/ SendPending(c)
    \/ ReadCancelled(c) \/ EndOfStream(c) \/ CloseStream(c)

DatagramProgress(d) ==
    Offer(d) \/ DatagramAccepted(d) \/ DatagramRefused(d) \/ DatagramUnavailable(d)

\* The runtime polls every ready task, time passes (header timeout, backoff,
\* queue polling), and worker threads run and their block returns.  Nothing makes
\* a peer send, or anyone call start() or stop().  A permit or a select branch
\* may go to another first, but only as often as the peers send something.
Fairness ==
    /\ \A c \in Conns : WF_vars(ReaderProgress(c)) /\ WF_vars(DeliveryStep(c) \/ Offer(c))
    /\ \A d \in Datagrams : WF_vars(DatagramProgress(d))
    /\ \A w \in Workers : WF_vars(WorkerStep(w))
    /\ WF_vars(\E l \in listeners : ListenerStops(l))
    /\ WF_vars(DrainCompletes \/ RecordAbandoned \/ (token /\ DropRuntime))

FairSpec == Spec /\ Fairness

-----------------------------------------------------------------------------
(* Properties *)

\* Types of the variables.
TypeOK ==
    /\ reader \in [Conns -> {"new", "proxy", "read", "send", "closing", "done", "refused"}]
    /\ buffer \in [Conns -> Seq(Outcomes)]
    /\ sent \in [Conns -> 0..MaxOutcomes]
    /\ framed \in [Conns -> 0..MaxOutcomes]
    /\ chan \in [Conns -> Seq(1..MaxOutcomes)]
    /\ connections \in Int
    /\ task \in [Sources -> {"idle", "offer", "await", "backoff", "done"}]
    /\ cur \in [Sources -> Nat]
    /\ attempt \in [Sources -> Nat]
    /\ gone \in [Conns -> BOOLEAN]
    /\ result \in [Sources -> HandlerResult \cup {"none", "discarded"}]
    /\ queue \in Seq(Delivery)
    /\ receivers \in BOOLEAN
    /\ running \subseteq Workers
    /\ hand \in [Workers -> Seq(Delivery)]
    /\ listeners \subseteq {"stream", "datagram"}
    /\ token \in BOOLEAN
    /\ phase \in {"serving", "draining", "recording", "returned", "dropped"}
    /\ swapped \in Nat
    /\ timedOut \in BOOLEAN
    /\ fate \in [Messages -> {"none", "held", "admitted", "abandoned", "dropped"}]
    /\ credits \in Int
    /\ stats \in [Counters -> Nat]
    /\ accepted \subseteq Sources \X Nat
    /\ seen \in [Sources -> Nat \X Nat]

\* Where the tasks of a connection keep its undelivered messages.
InHand(c) ==
    {<<c, n>> : n \in {chan[c][i] : i \in DOMAIN chan[c]}}
    \cup (IF reader[c] = "send" THEN {<<c, framed[c]>>} ELSE {})
    \cup (IF task[c] \in {"offer", "await", "backoff"} THEN {Message(c)} ELSE {})

\* What the tasks have in hand altogether.
AllInHand ==
    (UNION {InHand(c) : c \in Conns})
    \cup {<<d, 1>> : d \in {e \in Datagrams : task[e] \in {"offer", "await"}}}

\* While the runtime lives, the undelivered messages are exactly those some task
\* still has in hand: no path of serve_stream, of the delivery task or of a
\* datagram forgets a message it has framed, or keeps one it has settled.
PermitsInHand == Alive => Held = AllInHand

\* Each permit of the semaphore is free or owned by one message that a task has
\* in hand.  None is lost on any path, which would stop all reading in the end,
\* and none is given twice or back twice: at most max_pending messages are
\* undelivered across all listeners (lib/hyper_ruby.rb:16).
PermitsBalanced ==
    Alive => credits >= 0 /\ credits + Cardinality(AllInHand) = MaxPending

\* What one connection can hold: a full channel, one message with the delivery
\* task and one that waits in pending_tx.send with its permit already taken; two
\* more than the "undelivered messages allowed for one connection" of
\* lib/hyper_ruby.rb:18.
ConnectionBound ==
    \A c \in Conns : Cardinality({m \in Held : m[1] = c}) <= MaxPendingPerConnection + 2

\* Until a drain times out the gauge and the counters tell the truth: each is
\* the number of messages that met that fate.
StatsExact ==
    /\ stats["messages_delivered"] = Cardinality(WithFate("admitted"))
    /\ stats["udp_dropped"] = Cardinality(WithFate("dropped"))
    /\ ~timedOut => /\ stats["pending"] = Cardinality(Held)
                    /\ stats["abandoned_at_shutdown"] = Cardinality(WithFate("abandoned"))

\* A timed-out drain clears the gauge while messages are still finishing
\* (syslog.rs:197-198).  Messages may then be counted twice, but none goes
\* uncounted: what was framed and neither delivered nor dropped is abandoned,
\* pending or in the drain's own hands.
NothingUncounted ==
    stats["abandoned_at_shutdown"] + stats["pending"] + swapped
        >= Cardinality(WithFate("abandoned")) + Cardinality(Held)

\* A message is given up only when the server is stopping or nobody can answer,
\* never because a handler refuses it (lib/hyper_ruby.rb:38-42), and one the
\* handler accepted is never counted as abandoned or dropped.
AbandonedOnlyAtShutdown ==
    /\ WithFate("abandoned") # {} => token \/ ~receivers
    /\ accepted \cap (WithFate("abandoned") \cup WithFate("dropped")) = {}

\* When drain returns in time nothing is left over: no message is held, queued
\* or with a worker, and whatever the handler accepted was counted delivered.
CleanDrain ==
    (phase = "returned" /\ ~timedOut) =>
        /\ Held = {}
        /\ queue = <<>> /\ \A w \in Workers : hand[w] = <<>>
        /\ accepted = WithFate("admitted")

\* The block sees the messages of a connection one at a time and in order: the
\* next attempt of the last one, only if that was not accepted, or the first
\* attempt of the next one, only if the last was accepted or the server stops.
\* A datagram is seen once.
HandlerOrder ==
    [][\A w \in Workers : (hand[w] = <<>> /\ hand'[w] # <<>>) =>
        LET d == Head(hand'[w])
            last == seen[d.src]
        IN \/ /\ d.src \in Conns /\ last[1] > 0
              /\ d.frame = last[1] /\ d.attempt = last[2] + 1
              /\ <<d.src, last[1]>> \notin accepted
           \/ /\ d.frame = last[1] + 1 /\ d.attempt = 1
              /\ last[1] = 0 \/ <<d.src, last[1]>> \in accepted \/ token]_vars

\* The tasks, channels and workers together implement the promise of
\* SyslogAdmission: the fate of every message moves only as it allows.
Admission == INSTANCE SyslogAdmission
             WITH MaxFrames <- MaxOutcomes, givingUp <- token \/ ~receivers
ImplementsAdmission == Admission!Spec

\* The connection counter is the number of connections being served, and stays
\* within max_connections.
ConnectionsCounted ==
    Alive => /\ connections = Cardinality({c \in Conns : reader[c] \in {"proxy", "read", "send", "closing"}})
             /\ connections <= MaxConnections

\* With workers that answer, stop() drains: the retries end, no task waits for
\* another for ever, and drain returns.
DrainFinishes == token ~> phase \in {"returned", "dropped"}

\* A message is offered once it is decoded: first it may wait for a permit, then
\* in the channel behind a refused one, then for room in the worker queue.
Offered(m) ==
    \/ fate[m] = "held"
    \/ m[1] \in Waiting /\ m[2] = framed[m[1]] + 1

\* With a handler that accepts in the end, every message is settled, wherever it
\* waits, unless the drain's limit passes or another start() drops the runtime.
EveryMessageSettles ==
    \A m \in Messages :
        Offered(m) ~> \/ fate[m] \in {"admitted", "abandoned", "dropped"}
                      \/ timedOut \/ (~Alive /\ ~token)
=============================================================================
