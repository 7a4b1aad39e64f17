----------------------------- MODULE HttpServer -----------------------------
(***************************************************************************)
(* The HTTP side of the server (ext/hyper_ruby/src/lib.rs): the accept     *)
(* loop, handle_request for every request, the bounded queue to the Ruby   *)
(* workers, next_http_work_item and the worker block, and stop(), which    *)
(* waits for the connections with the GVL in its hands before it drops the *)
(* runtime.  A connection carries requests one after the other, or several *)
(* at a time (HTTP/2).  Heads, bodies and responses are abstracted to the  *)
(* outcomes handle_request tells apart.                                    *)
(***************************************************************************)
EXTENDS Integers, Sequences

CONSTANTS
    Conns,            \* connections clients may open
    Requests,         \* requests they may send on them
    Workers,          \* Ruby threads that may call run_worker
    ChannelCapacity,  \* config.channel_capacity
    MaxConnectionAge, \* whether config.max_connection_age is set
    AcceptErrors      \* whether accept() may fail (descriptor limits)

ASSUME HttpAssumption ==
    /\ ChannelCapacity \in Nat \ {0}
    /\ MaxConnectionAge \in BOOLEAN /\ AcceptErrors \in BOOLEAN
    /\ Workers \cap {"stop", "none"} = {} /\ "none" \notin Conns

VARIABLES
    listening,  \* the accept loop: "accepting", "waiting" (for shutdown only), "stopped"
    conn,       \* connections: "none", "backlog", "open", "closing" (GOAWAY sent), "closed"
    told,       \* whether a connection has been sent the shutdown
    pc,         \* handle_request, per request
    on,         \* the connection a request came on
    answer,     \* the response hyper sends
    reply,      \* the oneshot from the worker
    queue,      \* work_tx / work_rx
    receivers,  \* whether the queue has a receiver
    open,       \* whether the queue has a sender
    wpc,        \* run_worker: "out", "loop", "recv", "wake", "run", "exit"
    hand,       \* the request a worker has taken
    gvl,        \* who holds the GVL
    phase,      \* stop(): "serving", "draining", "drained", "syslog", "dropped"; or
                \* "replaced", by a second start()
    timedOut,   \* history: the ten seconds for the connections passed
    runs        \* history: how often the block was called for a request

connVars == <<listening, conn, told>>
reqVars == <<pc, on, answer, reply>>
workVars == <<wpc, hand, runs>>
stopVars == <<phase, timedOut>>
vars == <<connVars, reqVars, queue, receivers, open, workVars, gvl, stopVars>>

\* handle_request is in progress.
Active == {"body", "try", "poll", "await"}
Ended == {"answered", "failed", "gone", "aborted"}

\* Responses handle_request makes itself: 408, 400, 429 and the two 500s.
Rejections == {"timed out", "bad length", "busy", "shutting down"}
Answers == Rejections \cup {"no reply", "response", "error"}

Alive == phase \notin {"dropped", "replaced"}
Live(c) == conn[c] \in {"open", "closing"}
Quiet(c) == \A r \in Requests : on[r] = c => pc[r] \notin Active

Init ==
    /\ listening = "accepting"
    /\ conn = [c \in Conns |-> "none"] /\ told = [c \in Conns |-> FALSE]
    /\ pc = [r \in Requests |-> "new"] /\ on = [r \in Requests |-> "none"]
    /\ answer = [r \in Requests |-> "none"]
    /\ reply = [r \in Requests |-> "none"]
    /\ queue = <<>> /\ receivers = TRUE /\ open = TRUE
    /\ wpc = [w \in Workers |-> "out"]
    /\ hand = [w \in Workers |-> <<>>]
    /\ gvl = "none"
    /\ phase = "serving" /\ timedOut = FALSE
    /\ runs = [r \in Requests |-> 0]

-----------------------------------------------------------------------------
(* The accept loop and the connections *)

\* A client connects: its connection waits in the backlog.
Connect(c) ==
    /\ Alive /\ conn[c] = "none"
    /\ conn' = [conn EXCEPT ![c] = "backlog"]
    /\ UNCHANGED <<listening, told, reqVars, queue, receivers, open, workVars, gvl, stopVars>>

\* The loop may still accept after the shutdown was sent, until it sees it.  A
\* connection with a maximum age subscribes to the broadcast now.
Accept(c) ==
    /\ Alive /\ listening = "accepting" /\ conn[c] = "backlog"
    /\ conn' = [conn EXCEPT ![c] = "open"]
    /\ UNCHANGED <<listening, told, reqVars, queue, receivers, open, workVars, gvl, stopVars>>

\* A failed accept() does not match the pattern Ok((stream, _)): select!
\* disables that branch and goes on waiting for the other one, the shutdown.
AcceptFails ==
    /\ Alive /\ AcceptErrors /\ listening = "accepting"
    /\ listening' = "waiting"
    /\ UNCHANGED <<conn, told, reqVars, queue, receivers, open, workVars, gvl, stopVars>>

\* Mutant: the watched connections are not told.
AcceptLoopEndsSilently ==
    /\ phase = "draining" /\ listening # "stopped"
    /\ listening' = "stopped"
    /\ UNCHANGED <<conn, told, reqVars, queue, receivers, open, workVars, gvl, stopVars>>

\* The loop sees the shutdown; GracefulShutdown tells the connections it watches.
AcceptLoopEnds ==
    /\ phase = "draining" /\ listening # "stopped"
    /\ listening' = "stopped"
    /\ told' = [c \in Conns |-> told[c] \/ (~MaxConnectionAge /\ Live(c))]
    /\ UNCHANGED <<conn, reqVars, queue, receivers, open, workVars, gvl, stopVars>>

\* graceful_shutdown of one connection, when it is told or reaches its age.
GoAway(c) ==
    /\ Alive /\ conn[c] = "open" /\ (told[c] \/ MaxConnectionAge)
    /\ conn' = [conn EXCEPT ![c] = "closing"]
    /\ UNCHANGED <<listening, told, reqVars, queue, receivers, open, workVars, gvl, stopVars>>

\* A connection without requests in progress ends: it was told to, its client
\* closes it, or the header timeout passes.
ConnectionEnds(c) ==
    /\ Alive /\ Live(c) /\ Quiet(c)
    /\ conn' = [conn EXCEPT ![c] = "closed"]
    /\ UNCHANGED <<listening, told, reqVars, queue, receivers, open, workVars, gvl, stopVars>>

\* A request comes in.  GOAWAY does not stop those already on their way.
Arrive(r) ==
    /\ Alive /\ pc[r] = "new"
    /\ \E c \in Conns : Live(c) /\ on' = [on EXCEPT ![r] = c]
    /\ pc' = [pc EXCEPT ![r] = "body"]
    /\ UNCHANGED <<connVars, answer, reply, queue, receivers, open, workVars, gvl, stopVars>>

-----------------------------------------------------------------------------
(* handle_request *)

Goes(r, from, to) == Alive /\ pc[r] = from /\ pc' = [pc EXCEPT ![r] = to]

AnswersWith(r, a) == answer' = [answer EXCEPT ![r] = a]

BodyComplete(r) ==
    /\ Goes(r, "body", "try")
    /\ UNCHANGED <<connVars, on, answer, reply, queue, receivers, open, workVars, gvl, stopVars>>

\* The body does not come in time, or ends before its declared length.
BodyRejected(r) ==
    /\ Goes(r, "body", "answered")
    /\ \E a \in {"timed out", "bad length"} : AnswersWith(r, a)
    /\ UNCHANGED <<connVars, on, reply, queue, receivers, open, workVars, gvl, stopVars>>

\* An error while reading it ends the connection without a response.
BodyFails(r) ==
    /\ Goes(r, "body", "failed")
    /\ UNCHANGED <<connVars, on, answer, reply, queue, receivers, open, workVars, gvl, stopVars>>

\* Mutant: the polling loop goes on after it has sent the request.
EnqueueAgain(r) ==
    /\ Goes(r, "try", "await") \/ Goes(r, "poll", "await") \/ Goes(r, "poll", "poll")
    /\ receivers /\ Len(queue) < ChannelCapacity
    /\ queue' = Append(queue, r)
    /\ UNCHANGED <<connVars, on, answer, reply, receivers, open, workVars, gvl, stopVars>>

\* try_send, at once or after a delay of the polling loop.
Enqueue(r) ==
    /\ Goes(r, "try", "await") \/ Goes(r, "poll", "await")
    /\ receivers /\ Len(queue) < ChannelCapacity
    /\ queue' = Append(queue, r)
    /\ UNCHANGED <<connVars, on, answer, reply, receivers, open, workVars, gvl, stopVars>>

QueueFull(r) ==
    /\ Goes(r, "try", "poll")
    /\ receivers /\ Len(queue) = ChannelCapacity
    /\ UNCHANGED <<connVars, on, answer, reply, queue, receivers, open, workVars, gvl, stopVars>>

\* Mutant: the time is looked at after the request was sent.
SendTimesOutLate(r) ==
    /\ Goes(r, "poll", "answered")
    /\ AnswersWith(r, "busy")
    /\ queue' = IF Len(queue) < ChannelCapacity THEN Append(queue, r) ELSE queue
    /\ UNCHANGED <<connVars, on, reply, receivers, open, workVars, gvl, stopVars>>

\* send_timeout has passed when the loop comes round, whatever the queue holds.
SendTimesOut(r) ==
    /\ Goes(r, "poll", "answered")
    /\ AnswersWith(r, "busy")
    /\ UNCHANGED <<connVars, on, reply, queue, receivers, open, workVars, gvl, stopVars>>

QueueDisconnected(r) ==
    /\ Goes(r, "try", "answered") \/ Goes(r, "poll", "answered")
    /\ ~receivers
    /\ AnswersWith(r, "shutting down")
    /\ UNCHANGED <<connVars, on, reply, queue, receivers, open, workVars, gvl, stopVars>>

\* response_rx.await: the worker's response, or a 500 when the sender is dropped.
Replied(r) ==
    /\ Goes(r, "await", "answered")
    /\ reply[r] # "none"
    /\ AnswersWith(r, IF reply[r] = "discarded" THEN "no reply" ELSE reply[r])
    /\ UNCHANGED <<connVars, on, reply, queue, receivers, open, workVars, gvl, stopVars>>

\* The client closes the connection, or resets the stream, and hyper drops the
\* future of handle_request.  A request that is already queued stays there.
ClientCloses(c) ==
    /\ Alive /\ Live(c) /\ ~Quiet(c)
    /\ conn' = [conn EXCEPT ![c] = "closed"]
    /\ pc' = [r \in Requests |-> IF on[r] = c /\ pc[r] \in Active THEN "gone" ELSE pc[r]]
    /\ UNCHANGED <<listening, told, on, answer, reply, queue, receivers, open, workVars, gvl, stopVars>>

ClientLeaves(r) ==
    /\ Alive /\ pc[r] \in Active
    /\ pc' = [pc EXCEPT ![r] = "gone"]
    /\ UNCHANGED <<connVars, on, answer, reply, queue, receivers, open, workVars, gvl, stopVars>>

-----------------------------------------------------------------------------
(* run_worker with next_http_work_item *)

StartWorker(w) ==
    /\ wpc[w] = "out" /\ phase = "serving" /\ receivers /\ gvl = "none"
    /\ wpc' = [wpc EXCEPT ![w] = "loop"]
    /\ UNCHANGED <<connVars, reqVars, queue, receivers, open, hand, runs, gvl, stopVars>>

\* The block is called with the head of the queue.
Dequeue(w) ==
    /\ queue # <<>>
    /\ hand' = [hand EXCEPT ![w] = <<Head(queue)>>]
    /\ queue' = Tail(queue)

Runs(r) == runs' = [runs EXCEPT ![r] = @ + 1]

\* try_recv, under the GVL.
TryRecv(w) ==
    /\ wpc[w] = "loop" /\ gvl \in {"none", w}
    /\ Dequeue(w) /\ Runs(Head(queue))
    /\ wpc' = [wpc EXCEPT ![w] = "run"]
    /\ gvl' = w
    /\ UNCHANGED <<connVars, reqVars, receivers, open, stopVars>>

TryRecvEmpty(w) ==
    /\ wpc[w] = "loop" /\ gvl \in {"none", w} /\ queue = <<>>
    /\ wpc' = [wpc EXCEPT ![w] = IF open THEN "recv" ELSE "exit"]
    /\ gvl' = "none"
    /\ UNCHANGED <<connVars, reqVars, queue, receivers, open, hand, runs, stopVars>>

\* recv, without it; nogvl takes the GVL back before the block can be called.
Recv(w) ==
    /\ wpc[w] = "recv"
    /\ Dequeue(w)
    /\ wpc' = [wpc EXCEPT ![w] = "wake"]
    /\ UNCHANGED <<connVars, reqVars, receivers, open, runs, gvl, stopVars>>

RecvClosed(w) ==
    /\ wpc[w] = "recv" /\ queue = <<>> /\ ~open
    /\ wpc' = [wpc EXCEPT ![w] = "wake"]
    /\ UNCHANGED <<connVars, reqVars, queue, receivers, open, hand, runs, gvl, stopVars>>

Wake(w) ==
    /\ wpc[w] = "wake" /\ gvl = "none"
    /\ \/ /\ hand[w] # <<>> /\ Runs(Head(hand[w]))
          /\ wpc' = [wpc EXCEPT ![w] = "run"] /\ gvl' = w
       \/ /\ hand[w] = <<>> /\ UNCHANGED <<runs, gvl>>
          /\ wpc' = [wpc EXCEPT ![w] = "exit"]
    /\ UNCHANGED <<connVars, reqVars, queue, receivers, open, hand, stopVars>>

\* Ruby switches threads while the block runs.
YieldGvl(w) ==
    /\ wpc[w] = "run" /\ gvl = w
    /\ gvl' = "none"
    /\ UNCHANGED <<connVars, reqVars, queue, receivers, open, workVars, stopVars>>

\* Mutant: an exception is not answered.
BlockReturnsSilently(w) ==
    /\ wpc[w] = "run" /\ gvl \in {"none", w}
    /\ LET r == Head(hand[w]) IN
       reply' \in {reply, IF pc[r] = "await" THEN [reply EXCEPT ![r] = "response"] ELSE reply}
    /\ hand' = [hand EXCEPT ![w] = <<>>]
    /\ wpc' = [wpc EXCEPT ![w] = "loop"]
    /\ gvl' = w
    /\ UNCHANGED <<connVars, pc, on, answer, queue, receivers, open, runs, stopVars>>

\* The block returns a response, or anything else, or raises: a 500.  Nobody
\* takes the reply when the client has left or the runtime is gone.
BlockReturns(w) ==
    /\ wpc[w] = "run" /\ gvl \in {"none", w}
    /\ LET r == Head(hand[w]) IN
       \E v \in {"response", "error"} :
         reply' = IF pc[r] = "await" THEN [reply EXCEPT ![r] = v] ELSE reply
    /\ hand' = [hand EXCEPT ![w] = <<>>]
    /\ wpc' = [wpc EXCEPT ![w] = "loop"]
    /\ gvl' = w
    /\ UNCHANGED <<connVars, pc, on, answer, queue, receivers, open, runs, stopVars>>

-----------------------------------------------------------------------------
(* stop(), and a second start() *)

\* Mutant: the GVL is released for the wait.
StopBeginsReleases ==
    /\ phase = "serving" /\ receivers /\ gvl = "none"
    /\ phase' = "draining"
    /\ told' = [c \in Conns |-> told[c] \/ (MaxConnectionAge /\ Live(c))]
    /\ UNCHANGED <<listening, conn, reqVars, queue, receivers, open, workVars, gvl, timedOut>>

\* A Ruby thread calls stop(): it sends the shutdown and blocks on the server
\* task without releasing the GVL.
StopBegins ==
    /\ phase = "serving" /\ receivers /\ gvl = "none"
    /\ phase' = "draining"
    /\ gvl' = "stop"
    /\ told' = [c \in Conns |-> told[c] \/ (MaxConnectionAge /\ Live(c))]
    /\ UNCHANGED <<listening, conn, reqVars, queue, receivers, open, workVars, timedOut>>

\* GracefulShutdown waits for the connections it watches; those of a server
\* with max_connection_age are spawned without being watched.
WatchedClosed == MaxConnectionAge \/ \A c \in Conns : ~Live(c)

\* Mutant: stop() does not wait for the accept loop to end.
ConnectionsClosedEarly ==
    /\ phase = "draining" /\ WatchedClosed
    /\ phase' = "drained"
    /\ UNCHANGED <<connVars, reqVars, queue, receivers, open, workVars, gvl, timedOut>>

ConnectionsClosed ==
    /\ phase = "draining" /\ listening = "stopped" /\ WatchedClosed
    /\ phase' = "drained"
    /\ UNCHANGED <<connVars, reqVars, queue, receivers, open, workVars, gvl, timedOut>>

\* Ten seconds have passed.
DrainTimesOut ==
    /\ phase = "draining" /\ listening = "stopped" /\ ~WatchedClosed
    /\ phase' = "drained"
    /\ timedOut' = TRUE
    /\ UNCHANGED <<connVars, reqVars, queue, receivers, open, workVars, gvl>>

\* With syslog listeners stop() releases the GVL while it drains those; requests
\* that are still there go on meanwhile.
SyslogDrains ==
    /\ phase = "drained"
    /\ phase' = "syslog"
    /\ gvl' = "none"
    /\ UNCHANGED <<connVars, reqVars, queue, receivers, open, workVars, timedOut>>

\* The senders and the runtime are dropped, and every task with it.
RuntimeDropped ==
    /\ pc' = [r \in Requests |-> IF pc[r] \in Active THEN "aborted" ELSE pc[r]]
    /\ conn' = [c \in Conns |-> IF Live(c) \/ conn[c] = "backlog" THEN "closed" ELSE conn[c]]
    /\ open' = FALSE
    /\ listening' = "stopped"
    /\ gvl' = IF gvl = "stop" THEN "none" ELSE gvl
    /\ UNCHANGED <<told, on, answer, reply, queue, receivers, workVars, timedOut>>

\* The end of stop().
DropRuntime ==
    /\ phase = "drained" \/ (phase = "syslog" /\ gvl = "none")
    /\ phase' = "dropped"
    /\ RuntimeDropped

\* A second start() replaces the receiver before it drops the old runtime; with
\* no worker running that was the last one, and what is queued is discarded.
ReplaceReceiver ==
    /\ phase = "serving" /\ receivers /\ \A w \in Workers : wpc[w] = "out"
    /\ receivers' = FALSE
    /\ queue' = <<>>
    /\ reply' = [r \in Requests |-> IF pc[r] = "await" THEN "discarded" ELSE reply[r]]
    /\ UNCHANGED <<connVars, pc, on, answer, open, workVars, gvl, stopVars>>

\* The workers that run keep the old receiver, and what is queued.
ReplaceRuntime ==
    /\ phase = "serving" /\ gvl = "none"
    /\ ~receivers \/ \E w \in Workers : wpc[w] # "out"
    /\ phase' = "replaced"
    /\ RuntimeDropped

-----------------------------------------------------------------------------

RequestStep(r) ==
    \/ BodyComplete(r) \/ BodyRejected(r) \/ BodyFails(r)
    \/ Enqueue(r) \/ QueueFull(r) \/ SendTimesOut(r) \/ QueueDisconnected(r) \/ Replied(r)

GvlStep(w) == TryRecv(w) \/ TryRecvEmpty(w) \/ Wake(w) \/ BlockReturns(w)

Next ==
    \/ \E c \in Conns : Connect(c) \/ Accept(c) \/ GoAway(c) \/ ConnectionEnds(c) \/ ClientCloses(c)
    \/ \E r \in Requests : Arrive(r) \/ RequestStep(r) \/ ClientLeaves(r)
    \/ AcceptFails \/ AcceptLoopEnds
    \/ \E w \in Workers : StartWorker(w) \/ GvlStep(w) \/ Recv(w) \/ RecvClosed(w) \/ YieldGvl(w)
    \/ StopBegins \/ ConnectionsClosed \/ DrainTimesOut \/ SyslogDrains
    \/ DropRuntime \/ ReplaceReceiver \/ ReplaceRuntime

Spec == Init /\ [][Next]_vars

\* tokio polls every ready task and its timers fire (recv_timeout ends a body
\* that does not come, send_timeout a full queue), select! polls its branches in
\* random order, the workers' threads run, their blocks return and Ruby hands
\* the GVL to its waiters in turn.  Nothing makes a client connect or leave, or
\* anyone call stop() or start(); a start() that has replaced the receiver goes on.
Fairness ==
    /\ \A c \in Conns : WF_vars(Accept(c)) /\ WF_vars(GoAway(c))
    /\ \A r \in Requests : WF_vars(RequestStep(r))
    /\ \A w \in Workers : WF_vars(StartWorker(w)) /\ WF_vars(GvlStep(w))
                          /\ WF_vars(Recv(w) \/ RecvClosed(w))
    /\ WF_vars(AcceptLoopEnds)
    /\ WF_vars(ConnectionsClosed \/ DrainTimesOut) /\ WF_vars(DropRuntime)
    /\ WF_vars(~receivers /\ ReplaceRuntime)

FairSpec == Spec /\ Fairness

-----------------------------------------------------------------------------
(* Properties *)

\* Types of the variables.
TypeOK ==
    /\ listening \in {"accepting", "waiting", "stopped"}
    /\ conn \in [Conns -> {"none", "backlog", "open", "closing", "closed"}]
    /\ told \in [Conns -> BOOLEAN]
    /\ pc \in [Requests -> {"new"} \cup Active \cup Ended]
    /\ on \in [Requests -> Conns \cup {"none"}]
    /\ answer \in [Requests -> Answers \cup {"none"}]
    /\ reply \in [Requests -> {"none", "response", "error", "discarded"}]
    /\ queue \in Seq(Requests)
    /\ receivers \in BOOLEAN /\ open \in BOOLEAN
    /\ wpc \in [Workers -> {"out", "loop", "recv", "wake", "run", "exit"}]
    /\ hand \in [Workers -> Seq(Requests)]
    /\ gvl \in Workers \cup {"stop", "none"}
    /\ phase \in {"serving", "draining", "drained", "syslog", "dropped", "replaced"}
    /\ timedOut \in BOOLEAN
    /\ runs \in [Requests -> Nat]

\* A request that was turned away (408, 400, 429 or 500 before it was queued) is
\* not run by any worker, now or later: the polling loop gives the request up
\* before it answers.
RejectedNeverRun ==
    \A r \in Requests : answer[r] \in Rejections =>
        /\ runs[r] = 0
        /\ \A i \in DOMAIN queue : queue[i] # r
        /\ \A w \in Workers : hand[w] # <<r>>

\* No request is run twice, although try_send hands a request back and the loop
\* sends it again, and an answer of the worker belongs to a run.
OneRunPerAnswer ==
    \A r \in Requests :
        /\ runs[r] <= 1
        /\ answer[r] \in {"response", "error"} => runs[r] = 1 /\ reply[r] = answer[r]

\* stop() waits for the connections with the GVL held (lib.rs:551-556): until
\* that wait is over no block starts and none returns, so a request that is
\* with a worker then is not answered and only the ten seconds end the wait.
NoReplyWhileStopWaits ==
    [][phase = "draining" => UNCHANGED <<runs, reply>>]_vars

\* When the wait was not cut short, dropping the runtime aborts no request.
GracefulStop ==
    (phase = "dropped" /\ ~timedOut /\ ~MaxConnectionAge)
        => \A r \in Requests : pc[r] # "aborted"

\* A connection that keeps stop() waiting has been told to go away, also one
\* that was accepted after the shutdown was sent: GracefulShutdown tells what it
\* watches when the accept loop has ended.  One with a maximum age subscribes to
\* the broadcast when it is accepted, and misses what was sent before.
WaitedForIsTold ==
    (Alive /\ listening = "stopped" /\ ~MaxConnectionAge)
        => \A c \in Conns : Live(c) => told[c]

\* lib.rs:444-445: a connection with a maximum age is "still integrate[d] with
\* server-wide graceful shutdown via broadcast channel".
GracefulWithMaxAge ==
    (phase = "dropped" /\ ~timedOut) => \A r \in Requests : pc[r] # "aborted"

\* Every request that was accepted ends: it is answered, or its connection is
\* closed by either side.
EveryRequestEnds == \A r \in Requests : pc[r] \in Active ~> pc[r] \in Ended

\* A connection is accepted in the end, unless the server stops.  A failing
\* accept() is no reason to give up: the syslog listener of the same server calls
\* such failures "Transient accept failures (descriptor limits)" (syslog.rs:627)
\* and tries again.
ConnectionsAccepted ==
    \A c \in Conns : conn[c] = "backlog" ~> (conn[c] # "backlog" \/ phase # "serving")
=============================================================================
