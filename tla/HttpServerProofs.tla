-------------------------- MODULE HttpServerProofs --------------------------
(***************************************************************************)
(* What HttpServer promises about requests, connections and stop(), for    *)
(* any number of connections, requests and workers and any capacity of the *)
(* queue.                                                                  *)
(***************************************************************************)
EXTENDS HttpServer, TLAPS

\* Zenon proves a leaf that names no other prover.
USE ZenonT(30)

-----------------------------------------------------------------------------
(* Types *)

\* The initial state has the right types.
LEMMA InitTypes == Init => TypeOK
<1> SUFFICES ASSUME Init PROVE TypeOK
    OBVIOUS
<1>1. /\ conn \in [Conns -> {"none", "backlog", "open", "closing", "closed"}]
      /\ pc \in [Requests -> {"new"} \cup Active \cup Ended]
      /\ on \in [Requests -> Conns \cup {"none"}]
    BY DEF Init
<1>2. told \in [Conns -> BOOLEAN]
    BY DEF Init
<1>3. /\ answer \in [Requests -> Answers \cup {"none"}]
      /\ reply \in [Requests -> {"none", "response", "error", "discarded"}]
      /\ runs \in [Requests -> Nat]
    BY DEF Init
<1>4. /\ wpc \in [Workers -> {"out", "loop", "recv", "wake", "run", "exit"}]
      /\ queue \in Seq(Requests) /\ hand \in [Workers -> Seq(Requests)]
    BY SMTT(30) DEF Init
<1> QED
    BY <1>1, <1>2, <1>3, <1>4 DEF Init, TypeOK

\* The steps of connections keep the types.
LEMMA ConnTypes ==
    ASSUME TypeOK, NEW c \in Conns,
           Connect(c) \/ Accept(c) \/ GoAway(c) \/ ConnectionEnds(c) \/ ClientCloses(c)
    PROVE  TypeOK'
<1> USE DEF TypeOK, reqVars, workVars, stopVars, connVars
<1>1. CASE Connect(c)
    BY <1>1 DEF Connect
<1>2. CASE Accept(c)
    BY <1>2 DEF Accept
<1>3. CASE GoAway(c)
    BY <1>3 DEF GoAway
<1>4. CASE ConnectionEnds(c)
    BY <1>4 DEF ConnectionEnds
<1>5. CASE ClientCloses(c)
  <2>1. pc' \in [Requests -> {"new"} \cup Active \cup Ended]
      BY <1>5 DEF ClientCloses, Ended
  <2> QED
      BY <1>5, <2>1 DEF ClientCloses
<1> QED
    BY <1>1, <1>2, <1>3, <1>4, <1>5

\* The steps of handle_request keep the types.
LEMMA RequestTypes ==
    ASSUME TypeOK, NEW r \in Requests, Arrive(r) \/ RequestStep(r) \/ ClientLeaves(r)
    PROVE  TypeOK'
<1> USE DEF TypeOK, reqVars, workVars, stopVars, connVars, Goes, AnswersWith
<1>1. CASE Arrive(r)
  <2>1. on' \in [Requests -> Conns \cup {"none"}]
      BY <1>1 DEF Arrive
  <2> QED
      BY <1>1, <2>1 DEF Arrive, Active
<1>2. CASE BodyComplete(r)
    BY <1>2 DEF BodyComplete, Active
<1>3. CASE BodyRejected(r)
  <2>1. PICK a \in {"timed out", "bad length"} : answer' = [answer EXCEPT ![r] = a]
      BY <1>3 DEF BodyRejected
  <2>2. answer' \in [Requests -> Answers \cup {"none"}]
      BY <2>1 DEF Answers, Rejections
  <2> QED
      BY <1>3, <2>2 DEF BodyRejected, Ended
<1>4. CASE BodyFails(r)
    BY <1>4 DEF BodyFails, Ended
<1>5. CASE Enqueue(r)
  <2>1. queue' \in Seq(Requests)
      BY <1>5, SMTT(30) DEF Enqueue
  <2> QED
      BY <1>5, <2>1 DEF Enqueue, Active
<1>6. CASE QueueFull(r)
    BY <1>6 DEF QueueFull, Active
<1>7. CASE SendTimesOut(r)
    BY <1>7 DEF SendTimesOut, Ended, Answers, Rejections
<1>8. CASE QueueDisconnected(r)
    BY <1>8 DEF QueueDisconnected, Ended, Answers, Rejections
<1>9. CASE Replied(r)
    BY <1>9 DEF Replied, Ended, Answers
<1>10. CASE ClientLeaves(r)
    BY <1>10 DEF ClientLeaves, Ended
<1> QED
    BY <1>1, <1>2, <1>3, <1>4, <1>5, <1>6, <1>7, <1>8, <1>9, <1>10 DEF RequestStep

\* Taking the head of the queue keeps the types.
LEMMA DequeueTypes ==
    ASSUME TypeOK, NEW w \in Workers, Dequeue(w)
    PROVE  /\ queue' \in Seq(Requests) /\ Head(queue) \in Requests
           /\ hand' \in [Workers -> Seq(Requests)]
<1>1. queue \in Seq(Requests) /\ queue # <<>> /\ hand \in [Workers -> Seq(Requests)]
    BY DEF TypeOK, Dequeue
<1>2. Head(queue) \in Requests /\ Tail(queue) \in Seq(Requests)
    BY <1>1, SMTT(30)
<1>3. <<Head(queue)>> \in Seq(Requests)
    BY <1>2, SMTT(30)
<1> QED
    BY <1>1, <1>2, <1>3 DEF Dequeue

\* The steps of a worker keep the types.
LEMMA WorkerTypes ==
    ASSUME TypeOK, NEW w \in Workers,
           StartWorker(w) \/ GvlStep(w) \/ Recv(w) \/ RecvClosed(w) \/ YieldGvl(w)
    PROVE  TypeOK'
<1> USE DEF TypeOK, reqVars, workVars, stopVars, connVars
<1>1. CASE StartWorker(w)
    BY <1>1 DEF StartWorker
<1>2. CASE TryRecv(w)
  <2>1. Dequeue(w) /\ Runs(Head(queue))
      BY <1>2 DEF TryRecv
  <2>2. /\ queue' \in Seq(Requests) /\ Head(queue) \in Requests
        /\ hand' \in [Workers -> Seq(Requests)]
      BY <2>1, DequeueTypes
  <2>3. runs' \in [Requests -> Nat]
      BY <2>1, <2>2, SMTT(30) DEF Runs
  <2> QED
      BY <1>2, <2>2, <2>3 DEF TryRecv
<1>3. CASE TryRecvEmpty(w)
    BY <1>3 DEF TryRecvEmpty
<1>4. CASE Recv(w)
  <2>1. queue' \in Seq(Requests) /\ hand' \in [Workers -> Seq(Requests)]
      BY <1>4, DequeueTypes DEF Recv
  <2> QED
      BY <1>4, <2>1 DEF Recv
<1>5. CASE RecvClosed(w)
    BY <1>5 DEF RecvClosed
<1>6. CASE Wake(w)
  <2>1. runs' \in [Requests -> Nat]
    <3>1. CASE hand[w] # <<>> /\ Runs(Head(hand[w]))
      <4>1. Head(hand[w]) \in Requests
          BY <3>1, SMTT(30)
      <4> QED
          BY <3>1, <4>1, SMTT(30) DEF Runs
    <3>2. CASE UNCHANGED <<runs, gvl>>
        BY <3>2
    <3> QED
        BY <1>6, <3>1, <3>2 DEF Wake
  <2> QED
      BY <1>6, <2>1 DEF Wake
<1>7. CASE YieldGvl(w)
    BY <1>7 DEF YieldGvl
<1>8. CASE BlockReturns(w)
  <2>1. reply' \in [Requests -> {"none", "response", "error", "discarded"}]
      BY <1>8 DEF BlockReturns
  <2>2. hand' \in [Workers -> Seq(Requests)]
      BY <1>8, SMTT(30) DEF BlockReturns
  <2> QED
      BY <1>8, <2>1, <2>2 DEF BlockReturns
<1> QED
    BY <1>1, <1>2, <1>3, <1>4, <1>5, <1>6, <1>7, <1>8 DEF GvlStep

\* The other steps keep the types.
LEMMA ServerTypes ==
    ASSUME TypeOK,
           \/ AcceptFails \/ AcceptLoopEnds \/ StopBegins \/ ConnectionsClosed \/ DrainTimesOut
           \/ SyslogDrains \/ DropRuntime \/ ReplaceReceiver \/ ReplaceRuntime
    PROVE  TypeOK'
<1> USE DEF TypeOK, reqVars, workVars, stopVars, connVars
<1>1. CASE AcceptFails
    BY <1>1 DEF AcceptFails
<1>2. CASE AcceptLoopEnds
  <2>1. told' \in [Conns -> BOOLEAN]
      BY <1>2 DEF AcceptLoopEnds, Live
  <2> QED
      BY <1>2, <2>1 DEF AcceptLoopEnds
<1>3. CASE StopBegins
  <2>1. told' \in [Conns -> BOOLEAN]
      BY <1>3 DEF StopBegins, Live
  <2> QED
      BY <1>3, <2>1 DEF StopBegins
<1>4. CASE ConnectionsClosed
    BY <1>4 DEF ConnectionsClosed
<1>5. CASE DrainTimesOut
    BY <1>5 DEF DrainTimesOut
<1>6. CASE SyslogDrains
    BY <1>6 DEF SyslogDrains
<1>7. CASE DropRuntime \/ ReplaceRuntime
  <2>1. RuntimeDropped /\ phase' \in {"dropped", "replaced"}
      BY <1>7 DEF DropRuntime, ReplaceRuntime
  <2>2. pc' \in [Requests -> {"new"} \cup Active \cup Ended]
      BY <2>1 DEF RuntimeDropped, Ended
  <2>3. conn' \in [Conns -> {"none", "backlog", "open", "closing", "closed"}]
      BY <2>1 DEF RuntimeDropped
  <2> QED
      BY <2>1, <2>2, <2>3 DEF RuntimeDropped
<1>8. CASE ReplaceReceiver
  <2>1. reply' \in [Requests -> {"none", "response", "error", "discarded"}]
      BY <1>8 DEF ReplaceReceiver
  <2>2. queue' \in Seq(Requests)
      BY <1>8, SMTT(30) DEF ReplaceReceiver
  <2> QED
      BY <1>8, <2>1, <2>2 DEF ReplaceReceiver
<1> QED
    BY <1>1, <1>2, <1>3, <1>4, <1>5, <1>6, <1>7, <1>8

\* Every step keeps the types.
LEMMA NextTypes == TypeOK /\ [Next]_vars => TypeOK'
<1> SUFFICES ASSUME TypeOK, [Next]_vars PROVE TypeOK'
    OBVIOUS
<1>1. CASE UNCHANGED vars
    BY <1>1 DEF TypeOK, vars, reqVars, workVars, stopVars, connVars
<1>2. CASE Next
    BY <1>2, ConnTypes, RequestTypes, WorkerTypes, ServerTypes DEF Next
<1> QED
    BY <1>1, <1>2

\* The variables of the HTTP side keep their types, for every instance.
THEOREM TypeCorrect == Spec => []TypeOK
<1>1. Init => TypeOK
    BY InitTypes
<1>2. TypeOK /\ [Next]_vars => TypeOK'
    BY NextTypes
<1> QED
    BY <1>1, <1>2, PTL DEF Spec

-----------------------------------------------------------------------------
(* Requests *)

Queued(r) == \E i \in DOMAIN queue : queue[i] = r
Taken(r) == \E w \in Workers : hand[w] = <<r>>

\* A request that has not been sent, or was turned away, is with no worker.
Untouched ==
    \A r \in Requests :
        (pc[r] \in {"new", "body", "try", "poll"} \/ answer[r] \in Rejections)
            => runs[r] = 0 /\ ~Queued(r) /\ ~Taken(r)

\* A worker has one request at most, and only until its block has returned.
Hands ==
    \A w \in Workers :
        /\ hand[w] # <<>> => wpc[w] \in {"wake", "run"} /\ \E r \in Requests : hand[w] = <<r>>
        /\ wpc[w] = "run" => hand[w] # <<>>

\* A request is in one place: once in the queue, or with one worker.
OnePlace ==
    /\ \A i, j \in DOMAIN queue : queue[i] = queue[j] => i = j
    /\ \A v, w \in Workers : hand[v] # <<>> /\ hand[v] = hand[w] => v = w
    /\ \A r \in Requests : Taken(r) => ~Queued(r)

\* It has been run when a worker is at it, and not before.
RunCounts ==
    /\ \A r \in Requests : runs[r] \in {0, 1} /\ (Queued(r) => runs[r] = 0)
    /\ \A w \in Workers, r \in Requests :
         hand[w] = <<r>> => runs[r] = IF wpc[w] = "run" THEN 1 ELSE 0

\* A reply follows a run, an answer of the worker is its reply, and there is no
\* answer before handle_request returns.
Replies ==
    \A r \in Requests :
        /\ reply[r] \in {"response", "error"} => runs[r] = 1
        /\ answer[r] \in {"response", "error"} => reply[r] = answer[r]
        /\ pc[r] # "answered" => answer[r] = "none"

ReqInv == Untouched /\ Hands /\ OnePlace /\ RunCounts /\ Replies

\* Before anything has happened no request is anywhere.
LEMMA InitReqs == Init => ReqInv
BY SMTT(30) DEF Init, ReqInv, Untouched, Hands, OnePlace, RunCounts, Replies, Queued, Taken, Rejections

\* Steps that touch neither the queue, nor hands, nor runs, nor replies, and that
\* leave pc and answer alone or end requests without an answer.
LEMMA QuietStep ==
    ASSUME TypeOK, ReqInv, UNCHANGED <<answer, reply, queue, hand, wpc, runs>>,
           \A r \in Requests :
               \/ pc'[r] = pc[r]
               \/ pc[r] \in Active /\ pc'[r] \in {"failed", "gone", "aborted"}
               \/ pc[r] \in {"new", "body", "try"} /\ pc'[r] \in {"body", "try", "poll"}
    PROVE  ReqInv'
<1> USE DEF ReqInv
<1>1. UNCHANGED <<Hands, OnePlace, RunCounts>>
    BY SMTT(30) DEF Hands, OnePlace, RunCounts, Queued, Taken
<1>2. Untouched'
    BY DEF Untouched, Queued, Taken
<1>3. Replies'
  <2> SUFFICES ASSUME NEW r \in Requests
               PROVE  /\ reply[r] \in {"response", "error"} => runs[r] = 1
                      /\ answer[r] \in {"response", "error"} => reply[r] = answer[r]
                      /\ pc'[r] # "answered" => answer[r] = "none"
      BY DEF Replies
  <2> QED
      BY DEF Replies, Active
<1> QED
    BY <1>1, <1>2, <1>3

\* handle_request answers a request itself.
LEMMA RejectStep ==
    ASSUME TypeOK, ReqInv, NEW r \in Requests, NEW a \in Answers,
           pc[r] \in {"body", "try", "poll"}, pc' = [pc EXCEPT ![r] = "answered"],
           a \notin {"response", "error"},
           answer' = [answer EXCEPT ![r] = a],
           UNCHANGED <<reply, queue, hand, wpc, runs>>
    PROVE  ReqInv'
<1> USE DEF ReqInv, TypeOK
<1>1. UNCHANGED <<Hands, OnePlace, RunCounts>>
    BY SMTT(30) DEF Hands, OnePlace, RunCounts, Queued, Taken
<1>2. Untouched'
    BY DEF Untouched, Queued, Taken
<1>3. Replies'
    BY SMTT(30) DEF Replies
<1> QED
    BY <1>1, <1>2, <1>3

\* A request goes to the end of the queue.
LEMMA EnqueueStep == ASSUME TypeOK, ReqInv, NEW r \in Requests, Enqueue(r) PROVE ReqInv'
<1> USE DEF ReqInv
<1>1. /\ pc[r] \in {"try", "poll"} /\ pc' = [pc EXCEPT ![r] = "await"]
      /\ queue' = Append(queue, r)
      /\ UNCHANGED <<answer, reply, hand, wpc, runs>>
    BY DEF Enqueue, Goes, workVars
<1>2. /\ DOMAIN queue = 1 .. Len(queue) /\ DOMAIN queue' = 1 .. Len(queue) + 1
      /\ Len(queue) \in Nat
      /\ queue'[Len(queue) + 1] = r
      /\ \A i \in DOMAIN queue : queue'[i] = queue[i]
    BY <1>1, SMTT(30) DEF TypeOK
<1>3. runs[r] = 0 /\ ~Queued(r) /\ ~Taken(r)
    BY <1>1 DEF Untouched
<1>4. \A q \in Requests : Queued(q)' <=> Queued(q) \/ q = r
    BY <1>2, SMTT(30) DEF Queued
<1>5. \A q \in Requests : Taken(q)' <=> Taken(q)
    BY <1>1 DEF Taken
<1>6. Untouched'
  <2> SUFFICES ASSUME NEW q \in Requests,
                      pc'[q] \in {"new", "body", "try", "poll"} \/ answer[q] \in Rejections
               PROVE  runs[q] = 0 /\ ~Queued(q)' /\ ~Taken(q)'
      BY <1>1 DEF Untouched
  <2>1. answer[r] = "none"
      BY <1>1 DEF Replies
  <2>2. q # r
      BY <1>1, <2>1 DEF TypeOK, Rejections
  <2> QED
      BY <1>1, <1>4, <1>5, <2>2 DEF Untouched, TypeOK
<1>7. Hands'
    BY <1>1 DEF Hands
<1>8. OnePlace'
  <2>1. ASSUME NEW i \in DOMAIN queue', NEW j \in DOMAIN queue', queue'[i] = queue'[j]
        PROVE  i = j
      BY <1>2, <1>3, <2>1, SMTT(30) DEF OnePlace, Queued
  <2> QED
      BY <1>1, <1>3, <1>4, <1>5, <2>1 DEF OnePlace
<1>9. RunCounts'
    BY <1>1, <1>3, <1>4 DEF RunCounts
<1>10. Replies'
    BY <1>1 DEF Replies, TypeOK
<1> QED
    BY <1>6, <1>7, <1>8, <1>9, <1>10

\* handle_request passes the reply on.
LEMMA RepliedStep == ASSUME TypeOK, ReqInv, NEW r \in Requests, Replied(r) PROVE ReqInv'
<1> USE DEF ReqInv
<1>1. /\ pc[r] = "await" /\ pc' = [pc EXCEPT ![r] = "answered"]
      /\ answer' = [answer EXCEPT ![r] = IF reply[r] = "discarded" THEN "no reply" ELSE reply[r]]
      /\ reply[r] # "none"
      /\ UNCHANGED <<reply, queue, hand, wpc, runs>>
    BY DEF Replied, Goes, AnswersWith, workVars
<1>2. Hands' /\ OnePlace' /\ RunCounts'
  <2>1. UNCHANGED <<queue, hand, wpc, runs>>
      BY <1>1
  <2> QED
      BY <2>1, SMTT(30) DEF Hands, OnePlace, RunCounts, Queued, Taken
<1>3. answer'[r] \in {"no reply", "response", "error"}
    BY <1>1 DEF TypeOK
<1>4. Untouched'
  <2> SUFFICES ASSUME NEW q \in Requests,
                      pc'[q] \in {"new", "body", "try", "poll"} \/ answer'[q] \in Rejections
               PROVE  runs'[q] = 0 /\ ~Queued(q)' /\ ~Taken(q)'
      BY DEF Untouched
  <2>1. q # r
      BY <1>1, <1>3 DEF Rejections, TypeOK
  <2>2. runs[q] = 0 /\ ~Queued(q) /\ ~Taken(q)
      BY <1>1, <2>1 DEF Untouched, TypeOK
  <2> QED
      BY <1>1, <2>2 DEF Queued, Taken
<1>5. Replies'
    BY <1>1 DEF Replies, TypeOK
<1> QED
    BY <1>2, <1>4, <1>5

\* What taking the head of the queue does to the places of requests.
LEMMA DequeuePlaces ==
    ASSUME TypeOK, ReqInv, NEW w \in Workers, hand[w] = <<>>, Dequeue(w),
           NEW h \in Requests, h = Head(queue)
    PROVE  /\ Queued(h) /\ ~Taken(h) /\ runs[h] = 0
           /\ \A q \in Requests : Queued(q)' <=> Queued(q) /\ q # h
           /\ \A q \in Requests : Taken(q)' <=> Taken(q) \/ q = h
           /\ hand' = [hand EXCEPT ![w] = <<h>>]
           /\ OnePlace'
<1> USE DEF ReqInv
<1>1. /\ queue # <<>> /\ hand' = [hand EXCEPT ![w] = <<h>>] /\ queue' = Tail(queue)
    BY DEF Dequeue
<1>2. /\ Len(queue) \in Nat \ {0} /\ DOMAIN queue = 1 .. Len(queue)
      /\ DOMAIN queue' = 1 .. Len(queue) - 1
      /\ queue[1] = h
      /\ \A i \in DOMAIN queue' : queue'[i] = queue[i + 1]
    BY <1>1, SMTT(30) DEF TypeOK
<1>3. Queued(h)
    BY <1>2, SMTT(30) DEF Queued
<1>4. ~Taken(h) /\ runs[h] = 0
    BY <1>3 DEF OnePlace, RunCounts
<1>5. ASSUME NEW q \in Requests PROVE Queued(q)' <=> Queued(q) /\ q # h
  <2>1. ASSUME NEW i \in DOMAIN queue', queue'[i] = q PROVE Queued(q) /\ q # h
    <3>1. i + 1 \in DOMAIN queue /\ queue[i + 1] = q /\ 1 \in DOMAIN queue /\ i + 1 # 1
        BY <1>2, <2>1, SMTT(30)
    <3> QED
        BY <1>2, <3>1 DEF OnePlace, Queued
  <2>2. ASSUME NEW i \in DOMAIN queue, queue[i] = q, q # h PROVE Queued(q)'
    <3>1. i - 1 \in DOMAIN queue' /\ queue'[i - 1] = q
        BY <1>2, <2>2, SMTT(30)
    <3> QED
        BY <3>1 DEF Queued
  <2> QED
      BY <2>1, <2>2 DEF Queued
<1>6. ASSUME NEW q \in Requests PROVE Taken(q)' <=> Taken(q) \/ q = h
  <2>1. hand \in [Workers -> Seq(Requests)]
      BY DEF TypeOK
  <2>2. \A v \in Workers : hand'[v] = IF v = w THEN <<h>> ELSE hand[v]
      BY <1>1, <2>1
  <2> QED
      BY <2>2, SMTT(30) DEF Taken
<1>7. OnePlace'
  <2>1. ASSUME NEW i \in DOMAIN queue', NEW j \in DOMAIN queue', queue'[i] = queue'[j]
        PROVE  i = j
    <3>1. i + 1 \in DOMAIN queue /\ j + 1 \in DOMAIN queue /\ queue[i + 1] = queue[j + 1]
        BY <1>2, <2>1, SMTT(30)
    <3>2. i + 1 = j + 1
        BY <3>1 DEF OnePlace
    <3> QED
        BY <1>2, <3>2, SMTT(30)
  <2>2. ASSUME NEW u \in Workers, NEW v \in Workers, hand'[u] # <<>>, hand'[u] = hand'[v]
        PROVE  u = v
    <3>1. hand \in [Workers -> Seq(Requests)]
        BY DEF TypeOK
    <3>2. \A x \in Workers : hand'[x] = IF x = w THEN <<h>> ELSE hand[x]
        BY <1>1, <3>1
    <3>3. \A x \in Workers : hand[x] # <<h>>
        BY <1>4 DEF Taken
    <3> QED
        BY <2>2, <3>2, <3>3 DEF OnePlace
  <2>3. \A q \in Requests : Taken(q)' => ~Queued(q)'
      BY <1>5, <1>6 DEF OnePlace
  <2> QED
      BY <2>1, <2>2, <2>3 DEF OnePlace
<1> QED
    BY <1>1, <1>3, <1>4, <1>5, <1>6, <1>7

\* A worker takes a request and runs it at once, or wakes up first.
LEMMA TakeStep ==
    ASSUME TypeOK, ReqInv, NEW w \in Workers, TryRecv(w) \/ Recv(w)
    PROVE  ReqInv'
<1> USE DEF ReqInv
<1>1. /\ wpc[w] \in {"loop", "recv"} /\ Dequeue(w)
      /\ UNCHANGED <<pc, answer, reply>>
      /\ \/ wpc' = [wpc EXCEPT ![w] = "run"] /\ runs' = [runs EXCEPT ![Head(queue)] = @ + 1]
         \/ wpc' = [wpc EXCEPT ![w] = "wake"] /\ runs' = runs
    BY DEF TryRecv, Recv, reqVars, Runs
<1>2. hand[w] = <<>>
    BY <1>1 DEF Hands
<1>3. PICK h \in Requests : h = Head(queue)
    BY <1>1, DequeueTypes
<1>4. /\ Queued(h) /\ ~Taken(h) /\ runs[h] = 0
      /\ \A q \in Requests : Queued(q)' <=> Queued(q) /\ q # h
      /\ \A q \in Requests : Taken(q)' <=> Taken(q) \/ q = h
      /\ hand' = [hand EXCEPT ![w] = <<h>>]
      /\ OnePlace'
    BY <1>1, <1>2, <1>3, DequeuePlaces
<1>5. \A v \in Workers : hand'[v] = IF v = w THEN <<h>> ELSE hand[v]
    BY <1>4 DEF TypeOK
<1>6. \A v \in Workers : v # w => wpc'[v] = wpc[v]
    BY <1>1 DEF TypeOK
<1>7. \A q \in Requests : q # h => runs'[q] = runs[q]
    BY <1>1, <1>3 DEF TypeOK
<1>8. \/ wpc'[w] = "run" /\ runs'[h] = 1
      \/ wpc'[w] = "wake" /\ runs'[h] = 0
    BY <1>1, <1>3, <1>4, SMTT(30) DEF TypeOK
<1>9. Untouched'
  <2> SUFFICES ASSUME NEW q \in Requests,
                      pc[q] \in {"new", "body", "try", "poll"} \/ answer[q] \in Rejections
               PROVE  runs'[q] = 0 /\ ~Queued(q)' /\ ~Taken(q)'
      BY <1>1 DEF Untouched
  <2>1. runs[q] = 0 /\ ~Queued(q) /\ ~Taken(q)
      BY DEF Untouched
  <2> QED
      BY <1>4, <1>7, <2>1
<1>10. Hands'
  <2> SUFFICES ASSUME NEW v \in Workers
               PROVE  /\ hand'[v] # <<>> => /\ wpc'[v] \in {"wake", "run"}
                                            /\ \E r \in Requests : hand'[v] = <<r>>
                      /\ wpc'[v] = "run" => hand'[v] # <<>>
      BY DEF Hands
  <2>1. CASE v = w
    <3>1. hand'[v] = <<h>> /\ wpc'[v] \in {"wake", "run"}
        BY <1>5, <1>8, <2>1
    <3> QED
        BY <3>1, SMTT(30)
  <2>2. CASE v # w
    <3>1. hand'[v] = hand[v] /\ wpc'[v] = wpc[v]
        BY <1>5, <1>6, <2>2
    <3> QED
        BY <3>1 DEF Hands
  <2> QED
      BY <2>1, <2>2
<1>11. RunCounts'
  <2>1. ASSUME NEW q \in Requests PROVE runs'[q] \in {0, 1} /\ (Queued(q)' => runs'[q] = 0)
      BY <1>4, <1>7, <1>8 DEF RunCounts
  <2>2. ASSUME NEW v \in Workers, NEW q \in Requests, hand'[v] = <<q>>
        PROVE  runs'[q] = IF wpc'[v] = "run" THEN 1 ELSE 0
    <3>1. CASE v = w
        BY <1>5, <1>8, <2>2, <3>1, SMTT(30)
    <3>2. CASE v # w
      <4>1. hand[v] = <<q>> /\ wpc'[v] = wpc[v]
          BY <1>5, <1>6, <2>2, <3>2
      <4>2. q # h
          BY <1>4, <4>1 DEF Taken
      <4> QED
          BY <1>7, <4>1, <4>2 DEF RunCounts
    <3> QED
        BY <3>1, <3>2
  <2> QED
      BY <2>1, <2>2 DEF RunCounts
<1>12. Replies'
  <2>1. ASSUME NEW q \in Requests PROVE reply[q] \in {"response", "error"} => runs'[q] = 1
      BY <1>4, <1>7, SMTT(30) DEF Replies
  <2> QED
      BY <1>1, <2>1 DEF Replies
<1> QED
    BY <1>4, <1>9, <1>10, <1>11, <1>12

\* A worker wakes up with its request and runs it.
LEMMA WakeStep ==
    ASSUME TypeOK, ReqInv, NEW w \in Workers, Wake(w), hand[w] # <<>>
    PROVE  ReqInv'
<1> USE DEF ReqInv
<1>1. PICK h \in Requests : hand[w] = <<h>>
    BY DEF Hands
<1>2. /\ wpc[w] = "wake" /\ wpc' = [wpc EXCEPT ![w] = "run"]
      /\ runs' = [runs EXCEPT ![h] = @ + 1]
      /\ UNCHANGED <<pc, answer, reply, queue, hand>>
    BY <1>1, SMTT(30) DEF Wake, Runs, reqVars
<1>3. runs[h] = 0 /\ Taken(h) /\ ~Queued(h)
    BY <1>1, <1>2 DEF RunCounts, OnePlace, Taken
<1>4. runs'[h] = 1 /\ \A q \in Requests : q # h => runs'[q] = runs[q]
    BY <1>2, <1>3, SMTT(30) DEF TypeOK
<1>5. wpc'[w] = "run" /\ \A v \in Workers : v # w => wpc'[v] = wpc[v]
    BY <1>2 DEF TypeOK
<1>6. UNCHANGED <<queue, hand>>
    BY <1>2
<1>7. \A q \in Requests : (Queued(q)' <=> Queued(q)) /\ (Taken(q)' <=> Taken(q))
    BY <1>6 DEF Queued, Taken
<1>8. Untouched'
    BY <1>2, <1>3, <1>4, <1>7 DEF Untouched
<1>9. Hands'
    BY <1>1, <1>5, <1>6 DEF Hands
<1>10. OnePlace'
    BY <1>6 DEF OnePlace, Queued, Taken
<1>11. RunCounts'
  <2>1. ASSUME NEW q \in Requests PROVE runs'[q] \in {0, 1} /\ (Queued(q)' => runs'[q] = 0)
      BY <1>3, <1>4, <1>7 DEF RunCounts
  <2>2. ASSUME NEW v \in Workers, NEW q \in Requests, hand[v] = <<q>>
        PROVE  runs'[q] = IF wpc'[v] = "run" THEN 1 ELSE 0
    <3>1. CASE v = w
        BY <1>1, <1>4, <1>5, <2>2, <3>1, SMTT(30)
    <3>2. CASE v # w
      <4>1. q # h
          BY <1>1, <2>2, <3>2 DEF OnePlace
      <4> QED
          BY <1>4, <1>5, <2>2, <3>2, <4>1 DEF RunCounts
    <3> QED
        BY <3>1, <3>2
  <2> QED
      BY <1>6, <2>1, <2>2 DEF RunCounts
<1>12. Replies'
    BY <1>2, <1>4 DEF Replies
<1> QED
    BY <1>8, <1>9, <1>10, <1>11, <1>12

\* A worker without a request moves on.
LEMMA EmptyStep ==
    ASSUME TypeOK, ReqInv, NEW w \in Workers, hand[w] = <<>>,
           NEW to \in {"loop", "recv", "wake", "exit"}, wpc' = [wpc EXCEPT ![w] = to],
           UNCHANGED <<pc, answer, reply, queue, hand, runs>>
    PROVE  ReqInv'
<1> USE DEF ReqInv
<1>1. wpc'[w] # "run" /\ \A v \in Workers : v # w => wpc'[v] = wpc[v]
    BY DEF TypeOK
<1>2. Untouched' /\ OnePlace' /\ Replies'
    BY DEF Untouched, OnePlace, Replies, Queued, Taken
<1>3. Hands'
    BY <1>1 DEF Hands
<1>4. RunCounts'
  <2>1. ASSUME NEW v \in Workers, NEW q \in Requests, hand[v] = <<q>>
        PROVE  runs[q] = IF wpc'[v] = "run" THEN 1 ELSE 0
    <3>1. <<q>> # <<>>
        OBVIOUS
    <3>2. v # w
        BY <2>1, <3>1
    <3> QED
        BY <1>1, <2>1, <3>2 DEF RunCounts
  <2> QED
      BY <2>1 DEF RunCounts, Queued
<1> QED
    BY <1>2, <1>3, <1>4

\* The block has returned.
LEMMA ReturnStep == ASSUME TypeOK, ReqInv, NEW w \in Workers, BlockReturns(w) PROVE ReqInv'
<1> USE DEF ReqInv
<1>1. wpc[w] = "run" /\ hand[w] # <<>>
    BY DEF BlockReturns, Hands
<1>2. PICK h \in Requests : hand[w] = <<h>>
    BY <1>1 DEF Hands
<1>3. PICK v \in {"response", "error"} :
        reply' = IF pc[h] = "await" THEN [reply EXCEPT ![h] = v] ELSE reply
  <2>1. Head(hand[w]) = h
      BY <1>2, SMTT(30)
  <2> QED
      BY <2>1 DEF BlockReturns
<1>4. /\ hand' = [hand EXCEPT ![w] = <<>>] /\ wpc' = [wpc EXCEPT ![w] = "loop"]
      /\ UNCHANGED <<pc, answer, queue, runs>>
    BY DEF BlockReturns
<1>5. runs[h] = 1
    BY <1>1, <1>2 DEF RunCounts
<1>6. \A x \in Workers : /\ hand'[x] = IF x = w THEN <<>> ELSE hand[x]
                         /\ wpc'[x] = IF x = w THEN "loop" ELSE wpc[x]
    BY <1>4 DEF TypeOK
<1>7. \A q \in Requests : (Queued(q)' <=> Queued(q)) /\ (Taken(q)' => Taken(q))
    BY <1>4, <1>6, SMTT(30) DEF Queued, Taken
<1>8. Untouched'
    BY <1>4, <1>7 DEF Untouched
<1>9. Hands'
    BY <1>6 DEF Hands
<1>10. OnePlace'
  <2>1. \A u, x \in Workers : hand'[u] # <<>> /\ hand'[u] = hand'[x] => u = x
      BY <1>6 DEF OnePlace
  <2> QED
      BY <1>4, <1>7, <2>1 DEF OnePlace
<1>11. RunCounts'
  <2>1. ASSUME NEW x \in Workers, NEW q \in Requests, hand'[x] = <<q>>
        PROVE  runs[q] = IF wpc'[x] = "run" THEN 1 ELSE 0
    <3>1. x # w /\ hand[x] = <<q>> /\ wpc'[x] = wpc[x]
        BY <1>6, <2>1, SMTT(30)
    <3> QED
        BY <3>1 DEF RunCounts
  <2> QED
      BY <1>4, <1>7, <2>1 DEF RunCounts
<1>12. Replies'
  <2>1. ASSUME NEW q \in Requests
        PROVE  /\ reply'[q] \in {"response", "error"} => runs[q] = 1
               /\ answer[q] \in {"response", "error"} => reply'[q] = answer[q]
    <3>1. CASE pc[h] = "await" /\ q = h
      <4>1. answer[q] = "none"
          BY <3>1 DEF Replies
      <4> QED
          BY <1>5, <3>1, <4>1
    <3>2. CASE ~(pc[h] = "await" /\ q = h)
      <4>1. reply'[q] = reply[q]
          BY <1>3, <3>2 DEF TypeOK
      <4> QED
          BY <4>1 DEF Replies
    <3> QED
        BY <3>1, <3>2
  <2> QED
      BY <1>4, <2>1 DEF Replies
<1> QED
    BY <1>8, <1>9, <1>10, <1>11, <1>12

\* The receiver is replaced and what is queued is discarded.
LEMMA ReplaceStep == ASSUME TypeOK, ReqInv, ReplaceReceiver PROVE ReqInv'
<1> USE DEF ReqInv
<1>1. /\ queue' = <<>> /\ UNCHANGED <<pc, answer, hand, wpc, runs>>
      /\ reply' = [r \in Requests |-> IF pc[r] = "await" THEN "discarded" ELSE reply[r]]
    BY DEF ReplaceReceiver, workVars
<1>2. \A q \in Requests : ~Queued(q)' /\ (Taken(q)' <=> Taken(q))
    BY <1>1, SMTT(30) DEF Queued, Taken
<1>3. Untouched'
    BY <1>1, <1>2 DEF Untouched
<1>4. Hands'
    BY <1>1 DEF Hands
<1>5. OnePlace'
    BY <1>1, <1>2, SMTT(30) DEF OnePlace
<1>6. RunCounts'
    BY <1>1, <1>2 DEF RunCounts
<1>7. Replies'
  <2>1. \A q \in Requests : answer[q] # "none" => reply'[q] = reply[q]
      BY <1>1 DEF Replies
  <2>2. \A q \in Requests : reply'[q] \in {"response", "error"} => reply'[q] = reply[q]
      BY <1>1
  <2> QED
      BY <1>1, <2>1, <2>2 DEF Replies
<1> QED
    BY <1>3, <1>4, <1>5, <1>6, <1>7

\* Every step keeps the places, runs and replies of the requests.
LEMMA NextReqs == TypeOK /\ ReqInv /\ [Next]_vars => ReqInv'
<1> SUFFICES ASSUME TypeOK, ReqInv, [Next]_vars PROVE ReqInv'
    OBVIOUS
<1> USE DEF reqVars, workVars, stopVars, connVars
<1>1. CASE UNCHANGED vars
    BY <1>1, QuietStep DEF vars
<1>2. ASSUME NEW c \in Conns, Connect(c) \/ Accept(c) \/ GoAway(c) \/ ConnectionEnds(c)
      PROVE  ReqInv'
  <2>1. UNCHANGED <<pc, answer, reply, queue, hand, wpc, runs>>
      BY <1>2 DEF Connect, Accept, GoAway, ConnectionEnds
  <2> QED
      BY <2>1, QuietStep
<1>3. ASSUME NEW c \in Conns, ClientCloses(c) PROVE ReqInv'
  <2>1. /\ UNCHANGED <<answer, reply, queue, hand, wpc, runs>>
        /\ \A r \in Requests : pc'[r] = pc[r] \/ (pc[r] \in Active /\ pc'[r] = "gone")
      BY <1>3 DEF ClientCloses, TypeOK
  <2> QED
      BY <2>1, QuietStep
<1>4. ASSUME NEW r \in Requests,
             Arrive(r) \/ BodyComplete(r) \/ QueueFull(r) \/ BodyFails(r) \/ ClientLeaves(r)
      PROVE  ReqInv'
  <2>1. UNCHANGED <<answer, reply, queue, hand, wpc, runs>>
      BY <1>4 DEF Arrive, BodyComplete, QueueFull, BodyFails, ClientLeaves
  <2>2. \/ pc[r] \in Active /\ pc' = [pc EXCEPT ![r] = "gone"]
        \/ pc[r] \in Active /\ pc' = [pc EXCEPT ![r] = "failed"]
        \/ pc[r] = "new" /\ pc' = [pc EXCEPT ![r] = "body"]
        \/ pc[r] = "body" /\ pc' = [pc EXCEPT ![r] = "try"]
        \/ pc[r] = "try" /\ pc' = [pc EXCEPT ![r] = "poll"]
      BY <1>4 DEF Arrive, BodyComplete, QueueFull, BodyFails, ClientLeaves, Goes, Active
  <2>3. \A q \in Requests : q # r => pc'[q] = pc[q]
      BY <2>2 DEF TypeOK
  <2>4. \/ pc[r] \in Active /\ pc'[r] \in {"failed", "gone"}
        \/ pc[r] \in {"new", "body", "try"} /\ pc'[r] \in {"body", "try", "poll"}
      BY <2>2 DEF TypeOK
  <2> QED
      BY <2>1, <2>3, <2>4, QuietStep
<1>5. ASSUME NEW r \in Requests, BodyRejected(r) \/ SendTimesOut(r) \/ QueueDisconnected(r)
      PROVE  ReqInv'
  <2>1. PICK a \in {"timed out", "bad length", "busy", "shutting down"} :
          answer' = [answer EXCEPT ![r] = a]
      BY <1>5 DEF BodyRejected, SendTimesOut, QueueDisconnected, AnswersWith
  <2>2. /\ pc[r] \in {"body", "try", "poll"} /\ pc' = [pc EXCEPT ![r] = "answered"]
        /\ UNCHANGED <<reply, queue, hand, wpc, runs>>
      BY <1>5 DEF BodyRejected, SendTimesOut, QueueDisconnected, Goes
  <2>3. a \in Answers /\ a \notin {"response", "error"}
      BY DEF Answers, Rejections
  <2> QED
      BY <2>1, <2>2, <2>3, RejectStep
<1>6. ASSUME NEW w \in Workers,
             StartWorker(w) \/ TryRecvEmpty(w) \/ RecvClosed(w) \/ (Wake(w) /\ hand[w] = <<>>)
      PROVE  ReqInv'
  <2>1. UNCHANGED <<pc, answer, reply, queue, hand, runs>>
      BY <1>6 DEF StartWorker, TryRecvEmpty, RecvClosed, Wake
  <2>2. PICK to \in {"loop", "recv", "wake", "exit"} : wpc' = [wpc EXCEPT ![w] = to]
      BY <1>6 DEF StartWorker, TryRecvEmpty, RecvClosed, Wake
  <2>3. hand[w] = <<>>
      BY <1>6 DEF StartWorker, TryRecvEmpty, RecvClosed, ReqInv, Hands
  <2> QED
      BY <2>1, <2>2, <2>3, EmptyStep
<1>7. ASSUME NEW w \in Workers, GvlStep(w) \/ Recv(w) PROVE ReqInv'
    BY <1>6, <1>7, TakeStep, WakeStep, ReturnStep DEF GvlStep
<1>8. CASE \/ AcceptFails \/ AcceptLoopEnds \/ StopBegins \/ ConnectionsClosed \/ DrainTimesOut
           \/ SyslogDrains \/ \E w \in Workers : YieldGvl(w)
  <2>1. UNCHANGED <<pc, answer, reply, queue, hand, wpc, runs>>
      BY <1>8 DEF AcceptFails, AcceptLoopEnds, StopBegins, ConnectionsClosed, DrainTimesOut,
                  SyslogDrains, YieldGvl
  <2> QED
      BY <2>1, QuietStep
<1>9. CASE DropRuntime \/ ReplaceRuntime
  <2>1. RuntimeDropped
      BY <1>9 DEF DropRuntime, ReplaceRuntime
  <2>2. /\ UNCHANGED <<answer, reply, queue, hand, wpc, runs>>
        /\ \A r \in Requests : pc'[r] = pc[r] \/ (pc[r] \in Active /\ pc'[r] = "aborted")
      BY <2>1 DEF RuntimeDropped, TypeOK
  <2> QED
      BY <2>2, QuietStep
<1>10. ASSUME NEW r \in Requests, Arrive(r) \/ RequestStep(r) \/ ClientLeaves(r) PROVE ReqInv'
    BY <1>4, <1>5, <1>10, EnqueueStep, RepliedStep DEF RequestStep
<1>11. CASE Next
    BY <1>2, <1>3, <1>6, <1>7, <1>8, <1>9, <1>10, <1>11, ReplaceStep DEF Next
<1> QED
    BY <1>1, <1>11

\* The places of the requests, for every reachable state.
LEMMA RequestsInvariant == Spec => [](TypeOK /\ ReqInv)
<1>1. Init => TypeOK /\ ReqInv
    BY InitTypes, InitReqs
<1>2. TypeOK /\ ReqInv /\ [Next]_vars => (TypeOK /\ ReqInv)'
    BY NextTypes, NextReqs
<1> QED
    BY <1>1, <1>2, PTL DEF Spec

\* A request that handle_request turned away with a 408, 400, 429 or 500 is never
\* run, whatever the capacity of the queue and the number of workers.
THEOREM TurnedAway == Spec => []RejectedNeverRun
<1>1. TypeOK /\ ReqInv => RejectedNeverRun
    BY DEF ReqInv, Untouched, RejectedNeverRun, Queued, Taken
<1> QED
    BY <1>1, RequestsInvariant, PTL

\* No request is run twice, and every answer of a worker belongs to a run.
THEOREM RunOnce == Spec => []OneRunPerAnswer
<1>1. TypeOK /\ ReqInv => OneRunPerAnswer
  <2> SUFFICES ASSUME TypeOK, ReqInv, NEW r \in Requests
               PROVE  /\ runs[r] <= 1
                      /\ answer[r] \in {"response", "error"} => runs[r] = 1 /\ reply[r] = answer[r]
      BY DEF OneRunPerAnswer
  <2>1. runs[r] \in {0, 1}
      BY DEF ReqInv, RunCounts
  <2>2. answer[r] \in {"response", "error"} => runs[r] = 1 /\ reply[r] = answer[r]
      BY DEF ReqInv, Replies
  <2> QED
      BY <2>1, <2>2, SMTT(30)
<1> QED
    BY <1>1, RequestsInvariant, PTL

-----------------------------------------------------------------------------
(* Connections and stop() *)

\* A request in progress is on a connection that is there.
Carried == Alive => \A r \in Requests : pc[r] \in Active => on[r] \in Conns /\ Live(on[r])

\* What stop() has waited for is gone, unless the ten seconds passed.
WaitedFor ==
    phase \in {"drained", "syslog"} =>
        /\ listening = "stopped"
        /\ ~timedOut /\ ~MaxConnectionAge => \A c \in Conns : ~Live(c)

\* Only the drop of the runtime aborts requests.
NoneAborted == \A r \in Requests : pc[r] # "aborted"

\* stop() has the GVL while it waits for the connections, and gives it up before
\* or with the runtime.
StopHolds == /\ phase = "draining" => gvl = "stop"
             /\ gvl = "stop" => phase \in {"draining", "drained"}

StopInv ==
    /\ Carried /\ WaitedForIsTold /\ WaitedFor
    /\ Alive => NoneAborted
    /\ GracefulStop /\ StopHolds

\* Nothing is connected at first.
LEMMA InitStop == Init => StopInv
<1> SUFFICES ASSUME Init PROVE StopInv
    OBVIOUS
<1>1. phase = "serving" /\ listening = "accepting" /\ gvl = "none"
    BY DEF Init
<1>2. \A r \in Requests : pc[r] = "new"
    BY DEF Init
<1> QED
    BY <1>1, <1>2 DEF StopInv, Carried, WaitedForIsTold, WaitedFor, NoneAborted, GracefulStop,
                      StopHolds, Alive, Active

\* Steps that change neither the connections, nor stop(), nor the requests.
LEMMA StopKept ==
    ASSUME StopInv, UNCHANGED <<listening, conn, told, pc, on, receivers, phase, timedOut>>, StopHolds'
    PROVE  StopInv'
<1>1. UNCHANGED <<Carried, WaitedForIsTold, WaitedFor, NoneAborted, GracefulStop, Alive>>
    BY DEF Carried, WaitedForIsTold, WaitedFor, NoneAborted, GracefulStop, Alive, Live
<1> QED
    BY <1>1 DEF StopInv

\* Steps that end requests, or move a request on within handle_request.
LEMMA RequestKeepsStop ==
    ASSUME StopInv, Alive, UNCHANGED <<listening, conn, told, on, gvl, phase, timedOut>>,
           \A r \in Requests : \/ pc'[r] # "aborted" /\ (pc'[r] \in Active => pc[r] \in Active)
                               \/ pc'[r] = pc[r]
    PROVE  StopInv'
<1> USE DEF StopInv
<1>1. UNCHANGED <<WaitedForIsTold, WaitedFor, StopHolds, Alive>>
    BY DEF WaitedForIsTold, WaitedFor, StopHolds, Alive, Live
<1>2. \A c \in Conns : Live(c)' <=> Live(c)
    BY DEF Live
<1>3. Carried'
    BY <1>1, <1>2 DEF Carried
<1>4. NoneAborted'
    BY DEF NoneAborted
<1>5. GracefulStop'
    BY <1>1 DEF GracefulStop, Alive
<1> QED
    BY <1>1, <1>3, <1>4, <1>5

\* Steps of the connections: only a listening server has new ones, and only a
\* quiet one, or one whose requests go with it, ends.
LEMMA ConnKeepsStop ==
    ASSUME TypeOK, StopInv, NEW c \in Conns,
           Connect(c) \/ Accept(c) \/ GoAway(c) \/ ConnectionEnds(c) \/ ClientCloses(c)
    PROVE  StopInv'
<1> USE DEF StopInv, reqVars, stopVars
<1>1. Alive /\ UNCHANGED <<listening, told, on, receivers, gvl, phase, timedOut>>
    BY DEF Connect, Accept, GoAway, ConnectionEnds, ClientCloses
<1>2. \A d \in Conns : d # c => (Live(d)' <=> Live(d))
    BY DEF Connect, Accept, GoAway, ConnectionEnds, ClientCloses, Live, TypeOK
<1>3. Live(c)' => Live(c) \/ listening = "accepting"
    BY DEF Connect, Accept, GoAway, ConnectionEnds, ClientCloses, Live, TypeOK
<1>4. \A r \in Requests : pc'[r] = pc[r] \/ (pc[r] \in Active /\ pc'[r] = "gone")
  <2>1. CASE ClientCloses(c)
      BY <2>1 DEF ClientCloses
  <2>2. CASE Connect(c) \/ Accept(c) \/ GoAway(c) \/ ConnectionEnds(c)
      BY <2>2 DEF Connect, Accept, GoAway, ConnectionEnds
  <2> QED
      BY <2>1, <2>2
<1>5. ASSUME NEW r \in Requests, pc'[r] \in Active
      PROVE  pc[r] \in Active /\ (on[r] = c /\ Live(c) => Live(c)')
  <2>1. pc'[r] = pc[r]
      BY <1>4, <1>5 DEF Active
  <2>2. CASE Connect(c) \/ Accept(c) \/ GoAway(c)
      BY <1>5, <2>1, <2>2 DEF Connect, Accept, GoAway, Live, TypeOK
  <2>3. CASE ConnectionEnds(c)
      BY <1>5, <2>1, <2>3 DEF ConnectionEnds, Quiet
  <2>4. CASE ClientCloses(c)
    <3>1. on[r] = c /\ pc[r] \in Active => pc'[r] = "gone"
        BY <2>4 DEF ClientCloses
    <3> QED
        BY <1>5, <2>1, <3>1 DEF Active
  <2> QED
      BY <2>2, <2>3, <2>4
<1>6. Carried'
  <2> SUFFICES ASSUME NEW r \in Requests, pc'[r] \in Active
               PROVE  on[r] \in Conns /\ conn'[on[r]] \in {"open", "closing"}
      BY <1>1 DEF Carried, Live
  <2>1. pc[r] \in Active /\ on[r] \in Conns /\ Live(on[r])
      BY <1>1, <1>5 DEF Carried
  <2>2. CASE on[r] = c
      BY <1>5, <2>1, <2>2 DEF Live
  <2>3. CASE on[r] # c
      BY <1>2, <2>1, <2>3 DEF Live
  <2> QED
      BY <2>1, <2>2, <2>3
<1>7. listening = "stopped" => \A d \in Conns : Live(d)' => Live(d)
    BY <1>2, <1>3
<1>8. WaitedForIsTold'
    BY <1>1, <1>7 DEF WaitedForIsTold, Alive
<1>9. WaitedFor'
    BY <1>1, <1>7 DEF WaitedFor
<1>10. NoneAborted' /\ Alive'
    BY <1>1, <1>4 DEF NoneAborted, Alive
<1>11. GracefulStop' /\ StopHolds'
    BY <1>1, <1>10 DEF GracefulStop, StopHolds, Alive
<1> QED
    BY <1>6, <1>8, <1>9, <1>10, <1>11

\* A request comes in on a connection that is there.
LEMMA ArriveKeepsStop == ASSUME TypeOK, StopInv, NEW r \in Requests, Arrive(r) PROVE StopInv'
<1> USE DEF StopInv, connVars, stopVars
<1>1. PICK c \in Conns : Live(c) /\ on' = [on EXCEPT ![r] = c]
    BY DEF Arrive
<1>2. /\ Alive /\ UNCHANGED <<listening, conn, told, receivers, gvl, phase, timedOut>>
      /\ pc' = [pc EXCEPT ![r] = "body"]
    BY DEF Arrive
<1>3. UNCHANGED <<WaitedForIsTold, WaitedFor, StopHolds, Alive>>
    BY <1>2 DEF WaitedForIsTold, WaitedFor, StopHolds, Alive, Live
<1>4. \A q \in Requests : /\ pc'[q] = IF q = r THEN "body" ELSE pc[q]
                          /\ on'[q] = IF q = r THEN c ELSE on[q]
    BY <1>1, <1>2 DEF TypeOK
<1>5. Carried'
  <2> SUFFICES ASSUME NEW q \in Requests, pc'[q] \in Active
               PROVE  on'[q] \in Conns /\ conn'[on'[q]] \in {"open", "closing"}
      BY <1>3 DEF Carried, Live
  <2>1. CASE q = r
    <3>1. on'[q] = c
        BY <1>4, <2>1
    <3> QED
        BY <1>1, <1>2, <3>1 DEF Live
  <2>2. CASE q # r
    <3>1. on'[q] = on[q] /\ pc'[q] = pc[q]
        BY <1>4, <2>2
    <3>2. on[q] \in Conns /\ Live(on[q])
        BY <1>2, <3>1 DEF Carried
    <3> QED
        BY <1>2, <3>1, <3>2 DEF Live
  <2> QED
      BY <2>1, <2>2
<1>6. NoneAborted'
  <2>1. \A q \in Requests : pc[q] # "aborted"
      BY <1>2 DEF NoneAborted
  <2>2. \A q \in Requests : pc'[q] # "aborted"
      BY <1>4, <2>1
  <2> QED
      BY <2>2 DEF NoneAborted
<1>7. GracefulStop'
    BY <1>2, <1>3 DEF GracefulStop, Alive
<1> QED
    BY <1>3, <1>5, <1>6, <1>7

\* The runtime is dropped: after a wait that was not cut short there is no
\* connection, and so no request in progress.
LEMMA DropKeepsStop ==
    ASSUME TypeOK, StopInv, DropRuntime \/ ReplaceRuntime
    PROVE  StopInv'
<1> USE DEF StopInv
<1>1. /\ RuntimeDropped /\ ~Alive' /\ phase' # "draining" /\ UNCHANGED timedOut
      /\ phase' = "dropped" => DropRuntime
    BY DEF DropRuntime, ReplaceRuntime, RuntimeDropped, Alive
<1>2. Carried' /\ WaitedForIsTold' /\ WaitedFor'
    BY <1>1 DEF Carried, WaitedForIsTold, WaitedFor, Alive
<1>3. StopHolds'
    BY <1>1 DEF StopHolds, RuntimeDropped
<1>4. GracefulStop'
  <2> SUFFICES ASSUME phase' = "dropped", ~timedOut, ~MaxConnectionAge, NEW r \in Requests
               PROVE  pc'[r] # "aborted"
      BY <1>1 DEF GracefulStop
  <2>1. phase \in {"drained", "syslog"} /\ Alive
      BY <1>1 DEF DropRuntime, Alive
  <2>2. \A c \in Conns : ~Live(c)
      BY <2>1 DEF WaitedFor
  <2>3. pc[r] \notin Active
      BY <2>1, <2>2 DEF Carried
  <2>4. pc'[r] = pc[r]
      BY <1>1, <2>3 DEF RuntimeDropped
  <2> QED
      BY <2>1, <2>4 DEF NoneAborted
<1> QED
    BY <1>1, <1>2, <1>3, <1>4

\* The other steps of the accept loop and of stop().
LEMMA ServerKeepsStop ==
    ASSUME TypeOK, StopInv,
           \/ AcceptFails \/ AcceptLoopEnds \/ StopBegins \/ ConnectionsClosed \/ DrainTimesOut
           \/ SyslogDrains \/ ReplaceReceiver
    PROVE  StopInv'
<1> USE DEF StopInv, reqVars, workVars, stopVars, connVars
<1>1. /\ UNCHANGED <<conn, pc, on>>
      /\ Alive /\ Alive'
    BY DEF AcceptFails, AcceptLoopEnds, StopBegins, ConnectionsClosed, DrainTimesOut,
           SyslogDrains, ReplaceReceiver, Alive
<1>2. \A c : Live(c)' <=> Live(c)
    BY <1>1 DEF Live
<1>3. Carried' /\ NoneAborted'
    BY <1>1, <1>2 DEF Carried, NoneAborted
<1>4. GracefulStop'
    BY <1>1 DEF GracefulStop, Alive
<1>5. StopHolds'
    BY DEF AcceptFails, AcceptLoopEnds, StopBegins, ConnectionsClosed, DrainTimesOut,
           SyslogDrains, ReplaceReceiver, StopHolds
<1>6. WaitedFor'
  <2>1. CASE AcceptFails \/ AcceptLoopEnds \/ StopBegins \/ ReplaceReceiver
    <3>1. phase' \notin {"drained", "syslog"} \/ UNCHANGED <<listening, phase, timedOut>>
        BY <2>1 DEF AcceptFails, AcceptLoopEnds, StopBegins, ReplaceReceiver, WaitedFor
    <3> QED
        BY <1>2, <3>1 DEF WaitedFor
  <2>2. CASE ConnectionsClosed \/ DrainTimesOut
      BY <1>2, <2>2 DEF ConnectionsClosed, DrainTimesOut, WaitedFor, WatchedClosed
  <2>3. CASE SyslogDrains
      BY <1>2, <2>3 DEF SyslogDrains, WaitedFor
  <2> QED
      BY <2>1, <2>2, <2>3
<1>7. WaitedForIsTold'
  <2>1. CASE AcceptLoopEnds
    <3>1. ~MaxConnectionAge => \A c \in Conns : Live(c) => told'[c]
        BY <2>1 DEF AcceptLoopEnds
    <3> QED
        BY <1>2, <3>1 DEF WaitedForIsTold
  <2>2. CASE StopBegins
    <3>1. UNCHANGED listening /\ \A c \in Conns : told[c] => told'[c]
        BY <2>2 DEF StopBegins
    <3> QED
        BY <1>1, <1>2, <3>1 DEF WaitedForIsTold
  <2>3. CASE \/ AcceptFails \/ ConnectionsClosed \/ DrainTimesOut \/ SyslogDrains \/ ReplaceReceiver
    <3>1. UNCHANGED told /\ (listening' = "stopped" => listening = "stopped")
        BY <2>3 DEF AcceptFails, ConnectionsClosed, DrainTimesOut, SyslogDrains, ReplaceReceiver
    <3> QED
        BY <1>1, <1>2, <3>1 DEF WaitedForIsTold
  <2> QED
      BY <2>1, <2>2, <2>3
<1> QED
    BY <1>3, <1>4, <1>5, <1>6, <1>7

\* Every step keeps what stop() relies on.
LEMMA NextStop == TypeOK /\ StopInv /\ [Next]_vars => StopInv'
<1> SUFFICES ASSUME TypeOK, StopInv, [Next]_vars PROVE StopInv'
    OBVIOUS
<1> USE DEF reqVars, workVars, stopVars, connVars
<1>1. CASE UNCHANGED vars
  <2>1. UNCHANGED <<listening, conn, told, pc, on, receivers, phase, timedOut>> /\ StopHolds'
      BY <1>1 DEF vars, StopHolds, StopInv
  <2> QED
      BY <2>1, StopKept
<1>2. ASSUME NEW r \in Requests, RequestStep(r) \/ ClientLeaves(r) PROVE StopInv'
  <2>1. Alive /\ UNCHANGED <<listening, conn, told, on, gvl, phase, timedOut>>
      BY <1>2 DEF RequestStep, ClientLeaves, BodyComplete, BodyRejected, BodyFails, Enqueue,
                  QueueFull, SendTimesOut, QueueDisconnected, Replied, Goes
  <2>2. /\ pc[r] \in Active
        /\ \E to \in {"try", "poll", "await", "answered", "failed", "gone"} :
             pc' = [pc EXCEPT ![r] = to]
      BY <1>2 DEF RequestStep, ClientLeaves, BodyComplete, BodyRejected, BodyFails, Enqueue,
                  QueueFull, SendTimesOut, QueueDisconnected, Replied, Goes, Active
  <2>3. \A q \in Requests : \/ pc'[q] # "aborted" /\ (pc'[q] \in Active => pc[q] \in Active)
                            \/ pc'[q] = pc[q]
      BY <2>2 DEF TypeOK
  <2> QED
      BY <2>1, <2>3, RequestKeepsStop
<1>3. ASSUME NEW w \in Workers,
             StartWorker(w) \/ GvlStep(w) \/ Recv(w) \/ RecvClosed(w) \/ YieldGvl(w)
      PROVE  StopInv'
  <2>1. UNCHANGED <<listening, conn, told, pc, on, receivers, phase, timedOut>>
      BY <1>3 DEF StartWorker, GvlStep, TryRecv, TryRecvEmpty, Wake, BlockReturns, Recv,
                  RecvClosed, YieldGvl
  <2>2. gvl' = gvl \/ (gvl \in {w, "none"} /\ gvl' \in {w, "none"})
      BY <1>3 DEF StartWorker, GvlStep, TryRecv, TryRecvEmpty, Wake, BlockReturns, Recv,
                  RecvClosed, YieldGvl
  <2>3. w # "stop"
      BY HttpAssumption
  <2>4. StopHolds'
    <3>1. CASE gvl' = gvl
        BY <2>1, <3>1 DEF StopHolds, StopInv
    <3>2. CASE gvl \in {w, "none"} /\ gvl' \in {w, "none"}
      <4>1. gvl # "stop" /\ gvl' # "stop"
          BY <2>3, <3>2
      <4> QED
          BY <2>1, <4>1 DEF StopHolds, StopInv
    <3> QED
        BY <2>2, <3>1, <3>2
  <2> QED
      BY <2>1, <2>4, StopKept
<1>4. CASE Next
    BY <1>2, <1>3, <1>4, ConnKeepsStop, ArriveKeepsStop, DropKeepsStop, ServerKeepsStop DEF Next
<1> QED
    BY <1>1, <1>4

\* What stop() relies on, for every reachable state.
LEMMA StopInvariant == Spec => [](TypeOK /\ StopInv)
<1>1. Init => TypeOK /\ StopInv
    BY InitTypes, InitStop
<1>2. TypeOK /\ StopInv /\ [Next]_vars => (TypeOK /\ StopInv)'
    BY NextTypes, NextStop
<1> QED
    BY <1>1, <1>2, PTL DEF Spec

\* Without a maximum age, stop() aborts no request when its wait for the
\* connections was not cut short, whatever the clients and workers do.
THEOREM StopsGracefully == Spec => []GracefulStop
<1>1. TypeOK /\ StopInv => GracefulStop
    BY DEF StopInv
<1> QED
    BY <1>1, StopInvariant, PTL

\* Every connection stop() waits for has been told to go away, also one that was
\* accepted after the shutdown was sent.
THEOREM ToldToGo == Spec => []WaitedForIsTold
<1>1. TypeOK /\ StopInv => WaitedForIsTold
    BY DEF StopInv
<1> QED
    BY <1>1, StopInvariant, PTL

\* No block starts or returns while stop() waits for the connections, however
\* many workers there are.
THEOREM StopBlocksWorkers == Spec => NoReplyWhileStopWaits
<1>1. TypeOK /\ StopInv /\ [Next]_vars => [phase = "draining" => UNCHANGED <<runs, reply>>]_vars
  <2> SUFFICES ASSUME TypeOK, StopInv, Next, phase = "draining"
               PROVE  UNCHANGED <<runs, reply>>
      OBVIOUS
  <2> USE DEF reqVars, workVars, stopVars, connVars
  <2>1. gvl = "stop" /\ \A w \in Workers : w # "stop"
      BY HttpAssumption DEF StopInv, StopHolds
  <2>2. ASSUME NEW w \in Workers,
               StartWorker(w) \/ GvlStep(w) \/ Recv(w) \/ RecvClosed(w) \/ YieldGvl(w)
        PROVE  UNCHANGED <<runs, reply>>
      BY <2>1, <2>2 DEF StartWorker, GvlStep, TryRecv, TryRecvEmpty, Wake, BlockReturns, Recv,
                        RecvClosed, YieldGvl
  <2>3. ASSUME NEW c \in Conns,
               Connect(c) \/ Accept(c) \/ GoAway(c) \/ ConnectionEnds(c) \/ ClientCloses(c)
        PROVE  UNCHANGED <<runs, reply>>
      BY <2>3 DEF Connect, Accept, GoAway, ConnectionEnds, ClientCloses
  <2>4. ASSUME NEW r \in Requests, Arrive(r) \/ RequestStep(r) \/ ClientLeaves(r)
        PROVE  UNCHANGED <<runs, reply>>
      BY <2>4 DEF Arrive, RequestStep, ClientLeaves, BodyComplete, BodyRejected, BodyFails, Enqueue,
                  QueueFull, SendTimesOut, QueueDisconnected, Replied
  <2>5. CASE AcceptFails \/ AcceptLoopEnds \/ ConnectionsClosed \/ DrainTimesOut
      BY <2>5 DEF AcceptFails, AcceptLoopEnds, ConnectionsClosed, DrainTimesOut
  <2>6. ~(StopBegins \/ SyslogDrains \/ DropRuntime \/ ReplaceReceiver \/ ReplaceRuntime)
      BY DEF StopBegins, SyslogDrains, DropRuntime, ReplaceReceiver, ReplaceRuntime
  <2> QED
      BY <2>2, <2>3, <2>4, <2>5, <2>6 DEF Next
<1> QED
    BY <1>1, StopInvariant, PTL DEF Spec, NoReplyWhileStopWaits
=============================================================================
