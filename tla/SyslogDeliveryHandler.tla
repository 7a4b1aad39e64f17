----------------------- MODULE SyslogDeliveryHandler ------------------------
(***************************************************************************)
(* What SyslogDelivery promises the handler: every delivery is in one      *)
(* place, the handler's yes is counted, nothing it accepted is given up, a *)
(* drain leaves nothing behind, and its block sees the messages of a       *)
(* connection in order.                                                    *)
(***************************************************************************)
EXTENDS SyslogDeliveryOrder

\* Zenon proves a leaf that names no other prover.
USE ZenonT(30)

-----------------------------------------------------------------------------
(* Deliveries in flight *)

\* A delivery that its task still waits for.
Current(d) ==
    /\ d.frame = cur[d.src] /\ d.attempt = attempt[d.src]
    /\ task[d.src] = "await" /\ result[d.src] = "none"

InQueue(s) == \E i \in DOMAIN queue : queue[i].src = s

\* Every delivery in the queue or with a worker is the one its task waits for,
\* and no source has two.
Flight ==
    /\ \A i \in DOMAIN queue : Current(queue[i])
    /\ \A w \in Workers : hand[w] # <<>> => Current(Head(hand[w])) /\ w \in running
    /\ \A i, j \in DOMAIN queue : queue[i].src = queue[j].src => i = j
    /\ \A v, w \in Workers :
         hand[v] # <<>> /\ hand[w] # <<>> /\ Head(hand[v]).src = Head(hand[w]).src => v = w
    /\ \A w \in Workers : hand[w] # <<>> => ~InQueue(Head(hand[w]).src)
    /\ \A s \in Sources : task[s] \notin {"await", "done"} => result[s] = "none"

\* The types of what is in flight.
LEMMA FlightTypes ==
    ASSUME TypeOK
    PROVE  /\ \A i \in DOMAIN queue : queue[i] \in Delivery /\ queue[i].src \in Sources
           /\ \A w \in Workers : hand[w] # <<>> =>
                Head(hand[w]) \in Delivery /\ Head(hand[w]).src \in Sources
<1>1. ASSUME NEW i \in DOMAIN queue PROVE queue[i] \in Delivery
  BY StateTypes, SMTT(30)
<1>2. ASSUME NEW w \in Workers, hand[w] # <<>> PROVE Head(hand[w]) \in Delivery
  BY <1>2, StateTypes, SMTT(30)
<1>. QED
  BY <1>1, <1>2 DEF Delivery

\* The same, of the state after the step.
CurrentAfter(d) ==
    /\ d.frame = cur'[d.src] /\ d.attempt = attempt'[d.src]
    /\ task'[d.src] = "await" /\ result'[d.src] = "none"

InQueueAfter(s) == \E i \in DOMAIN queue' : queue'[i].src = s

LEMMA FlightAfter ==
    ASSUME \A i \in DOMAIN queue' : CurrentAfter(queue'[i]),
           \A w \in Workers : hand'[w] # <<>> =>
             /\ CurrentAfter(Head(hand'[w])) /\ w \in running'
             /\ ~InQueueAfter(Head(hand'[w]).src),
           \A i, j \in DOMAIN queue' : queue'[i].src = queue'[j].src => i = j,
           \A v, w \in Workers :
             hand'[v] # <<>> /\ hand'[w] # <<>> /\ Head(hand'[v]).src = Head(hand'[w]).src => v = w,
           \A s \in Sources : task'[s] \notin {"await", "done"} => result'[s] = "none"
    PROVE  Flight'
BY DEF Flight, Current, CurrentAfter, InQueue, InQueueAfter

\* Steps that leave the queue, the hands and every waiting task alone.
LEMMA FlightKept ==
    ASSUME TypeOK, Flight, UNCHANGED <<queue, hand>>, running \subseteq running',
           \A s \in Sources : /\ task[s] = "await" /\ result[s] = "none" =>
                                   /\ task'[s] = task[s] /\ result'[s] = result[s]
                                   /\ cur'[s] = cur[s] /\ attempt'[s] = attempt[s]
                              /\ task'[s] \notin {"await", "done"} => result'[s] = "none"
    PROVE  Flight'
<1>1. ASSUME NEW d, d.src \in Sources, Current(d) PROVE CurrentAfter(d)
  BY <1>1 DEF Current, CurrentAfter
<1>2. \A i \in DOMAIN queue' : CurrentAfter(queue'[i])
  BY <1>1, FlightTypes DEF Flight
<1>3. \A w \in Workers : hand'[w] # <<>> => CurrentAfter(Head(hand'[w])) /\ w \in running'
  BY <1>1, FlightTypes DEF Flight
<1>4. \A w \in Workers : hand'[w] # <<>> => ~InQueueAfter(Head(hand'[w]).src)
  BY DEF InQueue, InQueueAfter, Flight
<1>5. /\ \A i, j \in DOMAIN queue' : queue'[i].src = queue'[j].src => i = j
      /\ \A v, w \in Workers :
           hand'[v] # <<>> /\ hand'[w] # <<>> /\ Head(hand'[v]).src = Head(hand'[w]).src => v = w
  BY DEF Flight
<1>. QED
  BY <1>2, <1>3, <1>4, <1>5, FlightAfter

\* Steps that change the tasks of one source, which does not wait or has its
\* verdict.
LEMMA FlightOfOne ==
    ASSUME TypeOK, Flight, NEW s \in Sources, UNCHANGED <<queue, hand, running>>,
           task[s] # "await" \/ result[s] # "none",
           \A q \in Sources \ {s} : /\ task'[q] = task[q] /\ result'[q] = result[q]
                                    /\ cur'[q] = cur[q] /\ attempt'[q] = attempt[q],
           task'[s] \notin {"await", "done"} => result'[s] = "none"
    PROVE  Flight'
<1>1. \A q \in Sources : task'[q] \notin {"await", "done"} => result'[q] = "none"
  <2>. SUFFICES ASSUME NEW q \in Sources, q # s
                PROVE  task'[q] \notin {"await", "done"} => result'[q] = "none"
    OBVIOUS
  <2>. QED
    BY DEF Flight
<1>. QED
  BY <1>1, FlightKept

\* A delivery goes to the end of the queue.
LEMMA OfferKeepsFlight == ASSUME TypeOK, Flight, NEW s \in Sources, Offer(s) PROVE Flight'
<1>. DEFINE new == [src |-> s, frame |-> cur[s], attempt |-> attempt[s]]
<1>1. /\ task[s] = "offer" /\ task' = [task EXCEPT ![s] = "await"] /\ queue' = Append(queue, new)
      /\ UNCHANGED <<hand, running, cur, attempt, result>>
  BY DEF Offer
<1>2. /\ DOMAIN queue = 1..Len(queue) /\ DOMAIN queue' = 1..(Len(queue) + 1) /\ Len(queue) \in Nat
      /\ queue'[Len(queue) + 1] = new
      /\ \A i \in DOMAIN queue : queue'[i] = queue[i]
  BY <1>1, Appended, StateTypes, SMTT(30)
<1>3. result[s] = "none"
  BY <1>1 DEF Flight
<1>4. ASSUME NEW d, d.src \in Sources, Current(d) PROVE CurrentAfter(d) /\ d.src # s
  <2>1. d.src # s
    BY <1>1, <1>4 DEF Current
  <2>2. task'[d.src] = task[d.src]
    BY <1>1, <1>4, <2>1, StateTypes
  <2>. QED
    BY <1>1, <1>4, <2>1, <2>2 DEF Current, CurrentAfter
<1>5. CurrentAfter(new) /\ new.src = s
  <2>1. task'[s] = "await"
    BY <1>1, StateTypes
  <2>. QED
    BY <1>1, <1>3, <2>1 DEF CurrentAfter
<1>. HIDE DEF new
<1>6. ASSUME NEW i \in DOMAIN queue PROVE CurrentAfter(queue[i]) /\ queue[i].src # s
  BY <1>4, FlightTypes DEF Flight
<1>7. ASSUME NEW i \in DOMAIN queue' PROVE i \in DOMAIN queue \/ i = Len(queue) + 1
  BY <1>2, SMTT(30)
<1>8. \A i \in DOMAIN queue' : CurrentAfter(queue'[i])
  BY <1>2, <1>5, <1>6, <1>7
<1>9. \A i, j \in DOMAIN queue' : queue'[i].src = queue'[j].src => i = j
  <2>1. ASSUME NEW i \in DOMAIN queue, NEW j \in DOMAIN queue, queue'[i].src = queue'[j].src
        PROVE  i = j
    BY <1>2, <2>1 DEF Flight
  <2>. QED
    BY <1>2, <1>5, <1>6, <1>7, <2>1
<1>10. ASSUME NEW w \in Workers, hand'[w] # <<>>
       PROVE  CurrentAfter(Head(hand'[w])) /\ w \in running' /\ ~InQueueAfter(Head(hand'[w]).src)
  <2>1. hand'[w] = hand[w]
    BY <1>1
  <2>2. /\ Head(hand[w]).src \in Sources /\ Current(Head(hand[w])) /\ w \in running
        /\ ~InQueue(Head(hand[w]).src)
    BY <1>10, <2>1, FlightTypes DEF Flight
  <2>3. CurrentAfter(Head(hand[w])) /\ Head(hand[w]).src # s
    BY <1>4, <2>2
  <2>4. ~InQueueAfter(Head(hand[w]).src)
    BY <1>2, <1>5, <1>7, <2>2, <2>3 DEF InQueue, InQueueAfter
  <2>. QED
    BY <1>1, <2>1, <2>2, <2>3, <2>4
<1>11. \A v, w \in Workers :
         hand'[v] # <<>> /\ hand'[w] # <<>> /\ Head(hand'[v]).src = Head(hand'[w]).src => v = w
  BY <1>1 DEF Flight
<1>12. \A q \in Sources : task'[q] \notin {"await", "done"} => result'[q] = "none"
  BY <1>1, StateTypes DEF Flight
<1>. QED
  BY <1>8, <1>9, <1>10, <1>11, <1>12, FlightAfter

\* What a worker that takes a delivery leaves in the queue.
LEMMA TakePlaces ==
    ASSUME TypeOK, Flight, NEW w \in Workers, TakeDelivery(w)
    PROVE  /\ Head(queue) \in Delivery /\ Current(Head(queue)) /\ InQueue(Head(queue).src)
           /\ \A q : InQueueAfter(q) <=> InQueue(q) /\ q # Head(queue).src
           /\ \A i \in DOMAIN queue' : i + 1 \in DOMAIN queue /\ queue'[i] = queue[i + 1]
           /\ \A v \in Workers : hand'[v] = IF v = w THEN <<Head(queue)>> ELSE hand[v]
           /\ hand[w] = <<>> /\ w \in running
<1>1. queue # <<>> /\ queue' = Tail(queue) /\ hand' = [hand EXCEPT ![w] = <<Head(queue)>>]
      /\ hand[w] = <<>> /\ w \in running
  BY DEF TakeDelivery
<1>2. /\ DOMAIN queue = 1..Len(queue) /\ DOMAIN queue' = 1..(Len(queue) - 1) /\ Len(queue) \in Nat
      /\ Len(queue) >= 1 /\ Head(queue) = queue[1]
      /\ \A i \in DOMAIN queue' : queue'[i] = queue[i + 1]
  <2>1. queue \in Seq(Delivery)
    BY StateTypes
  <2>2. /\ Len(queue) \in Nat /\ Len(queue) >= 1 /\ Len(queue') = Len(queue) - 1
        /\ Head(queue) = queue[1] /\ \A i \in 1..Len(queue') : queue'[i] = queue[i + 1]
    BY <1>1, <2>1, Taken
  <2>3. DOMAIN queue = 1..Len(queue) /\ DOMAIN queue' = 1..Len(queue')
    BY <1>1, <2>1, SMTT(30)
  <2>. QED
    BY <2>2, <2>3
<1>3. 1 \in DOMAIN queue
  BY <1>2, SMTT(30)
<1>4. Head(queue) \in Delivery /\ Current(Head(queue)) /\ InQueue(Head(queue).src)
  BY <1>2, <1>3, FlightTypes, SMTT(30) DEF Flight, InQueue
<1>5. \A i \in DOMAIN queue' : i + 1 \in DOMAIN queue /\ i + 1 # 1
  BY <1>2, SMTT(30)
<1>6. ASSUME NEW q PROVE InQueueAfter(q) <=> InQueue(q) /\ q # Head(queue).src
  <2>1. ASSUME InQueueAfter(q) PROVE InQueue(q) /\ q # Head(queue).src
    <3>1. PICK i \in DOMAIN queue' : queue'[i].src = q
      BY <2>1 DEF InQueueAfter
    <3>2. i + 1 \in DOMAIN queue /\ i + 1 # 1 /\ queue[i + 1].src = q
      BY <1>2, <1>5, <3>1
    <3>3. queue[1].src # q
      BY <1>3, <3>2 DEF Flight
    <3>. QED
      BY <1>2, <3>2, <3>3 DEF InQueue
  <2>2. ASSUME InQueue(q), q # Head(queue).src PROVE InQueueAfter(q)
    <3>1. PICK i \in DOMAIN queue : queue[i].src = q
      BY <2>2 DEF InQueue
    <3>2. i # 1
      BY <1>2, <2>2, <3>1
    <3>3. i - 1 \in DOMAIN queue' /\ (i - 1) + 1 = i
      BY <1>2, <3>1, <3>2, SMTT(30)
    <3>4. queue'[i - 1] = queue[i]
      BY <1>2, <3>3
    <3>. QED
      BY <3>1, <3>3, <3>4 DEF InQueueAfter
  <2>. QED
    BY <2>1, <2>2
<1>7. \A v \in Workers : hand'[v] = IF v = w THEN <<Head(queue)>> ELSE hand[v]
  BY <1>1, StateTypes
<1>. QED
  BY <1>1, <1>2, <1>4, <1>5, <1>6, <1>7

\* A delivery moves from the queue to a worker.
LEMMA TakeKeepsFlight == ASSUME TypeOK, Flight, NEW w \in Workers, TakeDelivery(w) PROVE Flight'
<1>. DEFINE d == Head(queue)
<1>1. /\ d \in Delivery /\ Current(d) /\ InQueue(d.src)
      /\ \A q : InQueueAfter(q) <=> InQueue(q) /\ q # d.src
      /\ \A i \in DOMAIN queue' : i + 1 \in DOMAIN queue /\ queue'[i] = queue[i + 1]
      /\ \A v \in Workers : hand'[v] = IF v = w THEN <<d>> ELSE hand[v]
      /\ hand[w] = <<>> /\ w \in running
  BY TakePlaces
<1>2. UNCHANGED <<task, cur, attempt, result, running>>
  BY DEF TakeDelivery, taskVars
<1>3. Head(<<d>>) = d /\ <<d>> # <<>>
  BY SMTT(30)
<1>. HIDE DEF d
<1>4. \A e : CurrentAfter(e) <=> Current(e)
  BY <1>2 DEF Current, CurrentAfter
<1>5. \A i \in DOMAIN queue' : CurrentAfter(queue'[i])
  BY <1>1, <1>4 DEF Flight
<1>6. \A i, j \in DOMAIN queue' : queue'[i].src = queue'[j].src => i = j
  <2>. SUFFICES ASSUME NEW i \in DOMAIN queue', NEW j \in DOMAIN queue', queue'[i].src = queue'[j].src
                PROVE  i = j
    OBVIOUS
  <2>1. i + 1 = j + 1
    BY <1>1, SMTT(30) DEF Flight
  <2>2. i \in Int /\ j \in Int
    <3>1. queue \in Seq(Delivery) /\ queue' = Tail(queue) /\ queue # <<>>
      BY StateTypes DEF TakeDelivery
    <3>2. DOMAIN queue' = 1..Len(queue')
      BY <3>1, SMTT(30)
    <3>. QED
      BY <3>2, SMTT(30)
  <2>. QED
    BY <2>1, <2>2, SMTT(30)
<1>7. \A v \in Workers : hand'[v] # <<>> =>
         CurrentAfter(Head(hand'[v])) /\ v \in running' /\ ~InQueueAfter(Head(hand'[v]).src)
  <2>. SUFFICES ASSUME NEW v \in Workers, hand'[v] # <<>>
                PROVE  Current(Head(hand'[v])) /\ v \in running /\ ~InQueueAfter(Head(hand'[v]).src)
    BY <1>2, <1>4
  <2>1. CASE v = w
    <3>1. Head(hand'[v]) = d
      BY <1>1, <1>3, <2>1
    <3>. QED
      BY <1>1, <2>1, <3>1
  <2>2. CASE v # w
    <3>1. hand'[v] = hand[v]
      BY <1>1, <2>2
    <3>. QED
      BY <1>1, <3>1 DEF Flight
  <2>. QED
    BY <2>1, <2>2
<1>8. \A u, v \in Workers :
         hand'[u] # <<>> /\ hand'[v] # <<>> /\ Head(hand'[u]).src = Head(hand'[v]).src => u = v
  <2>1. ASSUME NEW v \in Workers, v # w, hand'[v] # <<>>
        PROVE  hand'[v] = hand[v] /\ Head(hand'[v]).src # d.src
    BY <1>1, <2>1 DEF Flight
  <2>2. Head(hand'[w]).src = d.src
    BY <1>1, <1>3
  <2>. QED
    BY <2>1, <2>2 DEF Flight
<1>9. \A s \in Sources : task'[s] \notin {"await", "done"} => result'[s] = "none"
  BY <1>2 DEF Flight
<1>. QED
  BY <1>5, <1>6, <1>7, <1>8, <1>9, FlightAfter

\* The source a worker's verdict is for.
LEMMA VerdictFor ==
    ASSUME TypeOK, Flight, NEW w \in Workers, CallBlock(w)
    PROVE  \E s \in Sources, v \in HandlerResult :
             /\ Head(hand[w]).src = s /\ Head(hand[w]).frame = cur[s] /\ hand[w] # <<>>
             /\ Current(Head(hand[w])) /\ task[s] = "await" /\ result[s] = "none" /\ ~InQueue(s)
             /\ accepted' = IF v = "Accepted" THEN accepted \cup {<<s, cur[s]>>} ELSE accepted
             /\ result' = IF Alive THEN [result EXCEPT ![s] = v] ELSE result
             /\ hand' = [hand EXCEPT ![w] = <<>>] /\ w \in running
<1>. DEFINE d == Head(hand[w])
<1>1. hand[w] # <<>> /\ hand' = [hand EXCEPT ![w] = <<>>]
  BY DEF CallBlock
<1>2. d.src \in Sources /\ Current(d) /\ w \in running /\ ~InQueue(d.src)
  BY <1>1, FlightTypes DEF Flight
<1>3. PICK v \in HandlerResult :
        /\ accepted' = IF v = "Accepted" THEN accepted \cup {<<d.src, d.frame>>} ELSE accepted
        /\ result' = IF Alive THEN [result EXCEPT ![d.src] = v] ELSE result
  BY VerdictsAssumption DEF CallBlock
<1>. HIDE DEF d
<1>4. d.frame = cur[d.src] /\ task[d.src] = "await" /\ result[d.src] = "none"
  BY <1>2 DEF Current
<1>. QED
  BY <1>1, <1>2, <1>3, <1>4 DEF d

\* A worker's verdict goes back to the task that waits for it.
LEMMA CallKeepsFlight == ASSUME TypeOK, Flight, NEW w \in Workers, CallBlock(w) PROVE Flight'
<1>1. PICK s \in Sources, vd \in HandlerResult :
        /\ Head(hand[w]).src = s /\ hand[w] # <<>> /\ task[s] = "await" /\ ~InQueue(s)
        /\ result' = IF Alive THEN [result EXCEPT ![s] = vd] ELSE result
        /\ hand' = [hand EXCEPT ![w] = <<>>]
  BY VerdictFor
<1>2. UNCHANGED <<queue, running, task, cur, attempt>>
  BY DEF CallBlock, taskVars
<1>3. \A q \in Sources : q # s => result'[q] = result[q]
  BY <1>1, StateTypes
<1>4. \A v \in Workers : hand'[v] = IF v = w THEN <<>> ELSE hand[v]
  BY <1>1, StateTypes
<1>5. ASSUME NEW d, d.src \in Sources, d.src # s, Current(d) PROVE CurrentAfter(d)
  BY <1>2, <1>3, <1>5 DEF Current, CurrentAfter
<1>6. \A q : InQueueAfter(q) <=> InQueue(q)
  BY <1>2 DEF InQueue, InQueueAfter
<1>7. \A i \in DOMAIN queue' : CurrentAfter(queue'[i])
  BY <1>2, <1>1, <1>5, FlightTypes DEF Flight, InQueue
<1>8. ASSUME NEW v \in Workers, hand'[v] # <<>>
      PROVE  v # w /\ hand'[v] = hand[v] /\ hand[v] # <<>> /\ CurrentAfter(Head(hand[v])) /\ ~InQueueAfter(Head(hand[v]).src)
  <2>1. v # w /\ hand'[v] = hand[v] /\ hand[v] # <<>>
    BY <1>4, <1>8
  <2>2. Head(hand[v]).src # s /\ Current(Head(hand[v])) /\ Head(hand[v]).src \in Sources
    BY <1>1, <2>1, FlightTypes DEF Flight
  <2>. QED
    BY <1>5, <1>6, <2>1, <2>2 DEF Flight
<1>9. \A q \in Sources : task[q] \notin {"await", "done"} => result'[q] = "none"
  BY <1>1, <1>3 DEF Flight
<1>10. /\ \A i, j \in DOMAIN queue' : queue'[i].src = queue'[j].src => i = j
       /\ \A u, v \in Workers :
            hand'[u] # <<>> /\ hand'[v] # <<>> /\ Head(hand'[u]).src = Head(hand'[v]).src => u = v
  BY <1>2, <1>8 DEF Flight
<1>11. \A v \in Workers : hand'[v] # <<>> =>
         CurrentAfter(Head(hand'[v])) /\ v \in running' /\ ~InQueueAfter(Head(hand'[v]).src)
  BY <1>2, <1>8 DEF Flight
<1>. QED
  BY <1>2, <1>7, <1>9, <1>10, <1>11, FlightAfter

\* Without workers nothing is in anyone's hands.
LEMMA ReplaceKeepsFlight == ASSUME TypeOK, Flight, ReplaceReceiver PROVE Flight'
<1>1. /\ queue' = <<>> /\ running = {} /\ UNCHANGED <<hand, running, task>>
      /\ result' = [s \in Sources |-> IF task[s] = "await" THEN "discarded" ELSE result[s]]
  BY DEF ReplaceReceiver, taskVars
<1>2. \A w \in Workers : hand[w] = <<>>
  BY <1>1 DEF Flight
<1>3. \A s \in Sources : task[s] \notin {"await", "done"} => result'[s] = "none"
  BY <1>1 DEF Flight
<1>4. DOMAIN queue' = {}
  BY <1>1, SMTT(30)
<1>. QED
  BY <1>1, <1>2, <1>3, <1>4, FlightAfter

\* A message its task has in hand owns a permit.
LEMMA InHandHeld ==
    ASSUME TypeOK, Order, NEW s \in Sources, task[s] \in {"offer", "await"}
    PROVE  Message(s) \in Messages /\ fate[Message(s)] = "held" /\ (s \in Datagrams => cur[s] = 1)
<1>1. CASE s \in Conns
  BY <1>1, BusyHeld, SourcesAssumption DEF Busy
<1>2. CASE s \in Datagrams
  BY <1>2 DEF Order, DatagramOrder, Message, Messages
<1>. QED
  BY <1>1, <1>2 DEF Sources

\* Whether the handler's yes waits to be counted.
SaidYes(s) == task[s] = "await" /\ result[s] = "Accepted"

\* The steps of a source's own task: a verdict is counted as it is, a message
\* is abandoned only when the server is giving up, and no other source is
\* disturbed.
LEMMA TaskSteps ==
    ASSUME TypeOK, Order, GoneForGood, Flight, NEW s \in Sources,
           (s \in Conns /\ DeliveryStep(s)) \/ (s \in Datagrams /\ DatagramStep(s))
    PROVE  /\ Alive /\ UNCHANGED <<queue, hand, running, receivers, token, phase, accepted, seen>>
           /\ task[s] # "await" \/ result[s] # "none"
           /\ task'[s] # "await"
           /\ task'[s] # "done" => result'[s] = "none"
           /\ \A q \in Sources \ {s} : /\ task'[q] = task[q] /\ result'[q] = result[q]
                                       /\ cur'[q] = cur[q] /\ attempt'[q] = attempt[q]
           /\ \/ SaidYes(s) /\ fate' = [fate EXCEPT ![Message(s)] = "admitted"]
              \/ ~SaidYes(s) /\ fate' = fate
              \/ /\ ~SaidYes(s)
                 /\ \E m \in Messages, f \in {"held", "abandoned", "dropped"} :
                      /\ m[1] = s /\ fate[m] # "admitted" /\ fate' = [fate EXCEPT ![m] = f]
                      /\ f = "abandoned" => givingUp
<1>. USE DEF taskVars, workVars, stopVars, blockVars
<1>0. result[s] = "discarded" => ~receivers
  BY DEF GoneForGood
<1>1. ASSUME s \in Conns, DeliveryStep(s)
      PROVE  /\ Alive /\ UNCHANGED <<queue, hand, running, receivers, token, phase, accepted, seen>>
             /\ \E t \in {"idle", "offer", "backoff", "done"} :
                  task' = [task EXCEPT ![s] = t] \/ (task' = task /\ task[s] = "idle" /\ t = "idle")
             /\ task[s] # "await" \/ result[s] # "none"
             /\ result' = [result EXCEPT ![s] = "none"] \/ (result' = result /\ task[s] # "await")
             /\ \E n : cur' = [cur EXCEPT ![s] = n] \/ cur' = cur
             /\ \E n : attempt' = [attempt EXCEPT ![s] = n] \/ attempt' = attempt
  BY <1>1 DEF DeliveryStep, Receive, ReceiveWithoutWorkers, DeliveryEnds, StreamAccepted, Answered,
     StreamRefused, StreamGivesUp, Retry, StreamUnavailable, Unavailable
<1>2. ASSUME s \in Datagrams, DatagramStep(s)
      PROVE  /\ Alive /\ UNCHANGED <<queue, hand, running, receivers, token, phase, accepted, seen>>
             /\ UNCHANGED <<cur, attempt, result>>
             /\ \/ task[s] = "idle" /\ task' = [task EXCEPT ![s] = "offer"]
                \/ task' = [task EXCEPT ![s] = "done"]
             /\ task[s] # "await" \/ result[s] # "none"
  BY <1>2 DEF DatagramStep, DatagramTruncated, DatagramWithoutCredit, DatagramReceived, Receiving,
     DatagramAccepted, DatagramRefused, DatagramUnavailable, Answered, Unavailable
<1>3. /\ Alive /\ UNCHANGED <<queue, hand, running, receivers, token, phase, accepted, seen>>
      /\ task[s] # "await" \/ result[s] # "none"
  BY <1>1, <1>2
<1>4. task'[s] # "await" /\ (task'[s] # "done" => result'[s] = "none")
  <2>1. task[s] \notin {"await", "done"} => result[s] = "none"
    BY DEF Flight
  <2>2. CASE s \in Conns /\ DeliveryStep(s)
    <3>1. task'[s] # "await"
      BY <1>1, <2>2, StateTypes
    <3>2. task'[s] # "done" => task[s] # "done"
      BY <2>2 DEF DeliveryStep, Receive, ReceiveWithoutWorkers, DeliveryEnds, StreamAccepted,
         Answered, StreamRefused, StreamGivesUp, Retry, StreamUnavailable, Unavailable
    <3>. QED
      BY <1>1, <2>1, <2>2, <3>1, <3>2, StateTypes
  <2>3. CASE s \in Datagrams /\ DatagramStep(s)
    BY <1>2, <2>1, <2>3, StateTypes
  <2>. QED
    BY <2>2, <2>3
<1>5. \A q \in Sources \ {s} : /\ task'[q] = task[q] /\ result'[q] = result[q]
                               /\ cur'[q] = cur[q] /\ attempt'[q] = attempt[q]
  <2>1. CASE s \in Conns /\ DeliveryStep(s)
    BY <1>1, <2>1, StateTypes, SMTT(30)
  <2>2. CASE s \in Datagrams /\ DatagramStep(s)
    BY <1>2, <2>2, StateTypes, SMTT(30)
  <2>. QED
    BY <2>1, <2>2
<1>. DEFINE Moved == \E m \in Messages, f \in {"held", "abandoned", "dropped"} :
                       /\ m[1] = s /\ fate[m] # "admitted" /\ fate' = [fate EXCEPT ![m] = f]
                       /\ f = "abandoned" => givingUp
<1>6. \/ SaidYes(s) /\ fate' = [fate EXCEPT ![Message(s)] = "admitted"]
      \/ ~SaidYes(s) /\ fate' = fate
      \/ ~SaidYes(s) /\ Moved
  <2>1. ASSUME task[s] \in {"offer", "await"}, NEW f \in {"abandoned", "dropped"},
               fate' = [fate EXCEPT ![Message(s)] = f], f = "abandoned" => givingUp
        PROVE  Moved
    <3>1. Message(s) \in Messages /\ fate[Message(s)] # "admitted" /\ Message(s)[1] = s
      BY <2>1, InHandHeld DEF Message
    <3>. QED
      BY <2>1, <3>1
  <2>2. ASSUME s \in Datagrams, NEW f \in {"held", "dropped"}, task[s] = "idle",
               fate' = [fate EXCEPT ![<<s, 1>>] = f]
        PROVE  Moved
    <3>1. <<s, 1>> \in Messages /\ fate[<<s, 1>>] # "admitted" /\ <<s, 1>>[1] = s
      BY <2>2 DEF Order, DatagramOrder, Messages
    <3>. QED
      BY <2>2, <3>1
  <2>3. ASSUME s \in Datagrams, task[s] = "await" \/ task[s] = "offer" PROVE Message(s) = <<s, 1>>
    BY <2>3, InHandHeld DEF Message
  <2>4. CASE s \in Conns /\ (Receive(s) \/ DeliveryEnds(s) \/ StreamRefused(s) \/ Retry(s))
    BY <2>4 DEF Receive, DeliveryEnds, StreamRefused, Answered, Retry, SaidYes
  <2>5. CASE s \in Conns /\ ReceiveWithoutWorkers(s)
    <3>1. /\ fate' = [fate EXCEPT ![<<s, Head(chan[s])>>] = "abandoned"] /\ task[s] = "idle"
          /\ gone[s] /\ chan[s] # <<>>
      BY <2>5 DEF ReceiveWithoutWorkers
    <3>2. givingUp
      BY <2>5, <3>1 DEF GoneForGood, givingUp
    <3>3. /\ <<s, Head(chan[s])>> \in Messages /\ fate[<<s, Head(chan[s])>>] # "admitted"
          /\ <<s, Head(chan[s])>>[1] = s
      BY <2>5, <3>1, HeadHeld DEF Busy
    <3>. QED
      BY <3>1, <3>2, <3>3 DEF SaidYes
  <2>6. CASE s \in Conns /\ StreamAccepted(s)
    BY <2>6 DEF StreamAccepted, Answered, SaidYes
  <2>7. CASE s \in Conns /\ StreamGivesUp(s)
    <3>1. /\ task[s] = "await" /\ result[s] \in {"Refused", "Failed"} /\ givingUp
          /\ fate' = [fate EXCEPT ![Message(s)] = "abandoned"]
      BY <2>7 DEF StreamGivesUp, Answered, givingUp
    <3>. QED
      BY <2>1, <3>1 DEF SaidYes
  <2>8. CASE s \in Conns /\ StreamUnavailable(s)
    <3>1. /\ task[s] = "offer" \/ (task[s] = "await" /\ result[s] = "discarded")
          /\ givingUp /\ fate' = [fate EXCEPT ![Message(s)] = "abandoned"]
      BY <1>0, <2>8 DEF StreamUnavailable, Unavailable, givingUp
    <3>. QED
      BY <2>1, <3>1 DEF SaidYes
  <2>9. CASE s \in Datagrams /\ DatagramTruncated(s)
    BY <2>9 DEF DatagramTruncated, Receiving, SaidYes
  <2>10. CASE s \in Datagrams /\ (DatagramWithoutCredit(s) \/ DatagramReceived(s))
    BY <2>2, <2>10 DEF DatagramWithoutCredit, DatagramReceived, Receiving, SaidYes
  <2>11. CASE s \in Datagrams /\ DatagramAccepted(s)
    BY <2>3, <2>11 DEF DatagramAccepted, Answered, SaidYes
  <2>12. CASE s \in Datagrams /\ (DatagramRefused(s) \/ DatagramUnavailable(s))
    <3>1. /\ \/ task[s] = "offer"
             \/ task[s] = "await" /\ result[s] \in {"Refused", "Failed", "discarded"}
          /\ fate' = [fate EXCEPT ![<<s, 1>>] = "dropped"]
      BY <2>12 DEF DatagramRefused, DatagramUnavailable, Answered, Unavailable
    <3>. QED
      BY <2>1, <2>3, <2>12, <3>1 DEF SaidYes
  <2>. QED
    BY <2>4, <2>5, <2>6, <2>7, <2>8, <2>9, <2>10, <2>11, <2>12 DEF DeliveryStep, DatagramStep
<1>. HIDE DEF Moved
<1>7. ASSUME Moved
      PROVE  \E m \in Messages, f \in {"held", "abandoned", "dropped"} :
               /\ m[1] = s /\ fate[m] # "admitted" /\ fate' = [fate EXCEPT ![m] = f]
               /\ f = "abandoned" => givingUp
  BY <1>7 DEF Moved
<1>. QED
  BY <1>3, <1>4, <1>5, <1>6, <1>7

\* The steps that concern no delivery in flight.
LEMMA QuietSteps ==
    ASSUME \/ \E c \in Conns : ReaderStep(c)
           \/ \E w \in Workers : StartWorker(w)
           \/ \E l \in {"stream", "datagram"} : ListenerStops(l)
           \/ StopStep /\ ~ReplaceReceiver
           \/ UNCHANGED vars
    PROVE  /\ UNCHANGED <<task, cur, attempt, gone, result, queue, receivers, hand, accepted, seen>>
           /\ running \subseteq running' /\ (token => token') /\ (Alive' => Alive)
           /\ UNCHANGED fate \/ \E c \in Conns : FrameMessage(c)
           /\ UNCHANGED <<reader, framed, chan>> \/ \E c \in Conns : ReaderStep(c)
<1>. USE DEF connVars, taskVars, workVars, stopVars, blockVars, Alive
<1>1. ASSUME NEW c \in Conns, ReaderStep(c)
      PROVE  /\ UNCHANGED <<taskVars, result, workVars, stopVars, blockVars>>
             /\ UNCHANGED fate \/ FrameMessage(c)
  BY <1>1 DEF ReaderStep, Accept, RefuseConnection, ProxyHeaderComplete, ProxyHeaderFails,
     RejectFrame, SendPending, FrameMessage, Read, ReadFails, ReadCancelled, StopReading,
     EndOfStream, CloseStream
<1>2. CASE \E c \in Conns : ReaderStep(c)
  BY <1>1, <1>2
<1>3. CASE \E w \in Workers : StartWorker(w)
  BY <1>3, SMTT(30) DEF StartWorker
<1>4. CASE \E l \in {"stream", "datagram"} : ListenerStops(l)
  BY <1>4, SMTT(30) DEF ListenerStops
<1>5. CASE StopStep /\ ~ReplaceReceiver
  <2>1. CASE StopAccepting
    BY <2>1 DEF StopAccepting
  <2>2. CASE DrainCompletes
    BY <2>2 DEF DrainCompletes
  <2>3. CASE DrainTimesOut \/ RecordAbandoned
    BY <2>3, SMTT(30) DEF DrainTimesOut, RecordAbandoned
  <2>4. CASE DropRuntime
    BY <2>4 DEF DropRuntime
  <2>. QED
    BY <1>5, <2>1, <2>2, <2>3, <2>4 DEF StopStep
<1>6. CASE UNCHANGED vars
  BY <1>6 DEF vars
<1>. QED
  BY <1>2, <1>3, <1>4, <1>5, <1>6

\* The kinds of step there are.
LEMMA StepKinds ==
    ASSUME [Next]_vars
    PROVE  \/ \E s \in Sources : \/ s \in Conns /\ DeliveryStep(s)
                                 \/ s \in Datagrams /\ DatagramStep(s)
           \/ \E s \in Sources : Offer(s)
           \/ \E w \in Workers : TakeDelivery(w)
           \/ \E w \in Workers : CallBlock(w)
           \/ ReplaceReceiver
           \/ \/ \E c \in Conns : ReaderStep(c)
              \/ \E w \in Workers : StartWorker(w)
              \/ \E l \in {"stream", "datagram"} : ListenerStops(l)
              \/ StopStep /\ ~ReplaceReceiver
              \/ UNCHANGED vars
BY DEF Next, WorkerStep, Sources

\* No delivery is lost, duplicated or left without its task.
LEMMA FlightNext == TypeOK /\ Order /\ GoneForGood /\ Flight /\ [Next]_vars => Flight'
<1>. SUFFICES ASSUME TypeOK, Order, GoneForGood, Flight, [Next]_vars PROVE Flight'
  OBVIOUS
<1>1. ASSUME NEW s \in Sources,
             (s \in Conns /\ DeliveryStep(s)) \/ (s \in Datagrams /\ DatagramStep(s))
      PROVE  Flight'
  <2>1. /\ UNCHANGED <<queue, hand, running>> /\ (task[s] # "await" \/ result[s] # "none")
        /\ task'[s] \notin {"await", "done"} => result'[s] = "none"
        /\ \A q \in Sources \ {s} : /\ task'[q] = task[q] /\ result'[q] = result[q]
                                    /\ cur'[q] = cur[q] /\ attempt'[q] = attempt[q]
    BY <1>1, TaskSteps
  <2>. QED
    BY <2>1, FlightOfOne
<1>2. CASE \/ \E c \in Conns : ReaderStep(c)
           \/ \E w \in Workers : StartWorker(w)
           \/ \E l \in {"stream", "datagram"} : ListenerStops(l)
           \/ StopStep /\ ~ReplaceReceiver
           \/ UNCHANGED vars
  <2>1. UNCHANGED <<queue, hand, task, cur, attempt, result>> /\ running \subseteq running'
    BY <1>2, QuietSteps
  <2>2. \A s \in Sources : task'[s] \notin {"await", "done"} => result'[s] = "none"
    BY <2>1 DEF Flight
  <2>. QED
    BY <2>1, <2>2, FlightKept
<1>. QED
  BY <1>1, <1>2, StepKinds, OfferKeepsFlight, TakeKeepsFlight, CallKeepsFlight, ReplaceKeepsFlight

-----------------------------------------------------------------------------
(* Verdicts *)

\* What the handler said yes to was framed and is counted delivered, or its
\* task is about to count it; nothing else is counted delivered.
Verdicts ==
    /\ running = {} => accepted = {}
    /\ \A m \in accepted :
         /\ m \in Messages /\ fate[m] \in {"held", "admitted"}
         /\ Alive /\ fate[m] = "held" => SaidYes(m[1]) /\ cur[m[1]] = m[2]
    /\ WithFate("admitted") \subseteq accepted
    /\ \A s \in Sources : SaidYes(s) => Message(s) \in accepted

\* Who sent a message.
LEMMA SourceOf == ASSUME NEW m \in Messages PROVE m[1] \in Sources /\ m = <<m[1], m[2]>>
BY SMTT(30) DEF Messages, Sources

\* A source's own task counts the verdict it was given.
LEMMA TaskKeepsVerdicts ==
    ASSUME TypeOK, Order, GoneForGood, Flight, Verdicts, NEW s \in Sources,
           (s \in Conns /\ DeliveryStep(s)) \/ (s \in Datagrams /\ DatagramStep(s))
    PROVE  Verdicts'
<1>1. /\ Alive /\ UNCHANGED <<running, phase, accepted>> /\ task'[s] # "await"
      /\ \A q \in Sources \ {s} : task'[q] = task[q] /\ result'[q] = result[q] /\ cur'[q] = cur[q]
  BY TaskSteps, SMTT(30)
<1>2. \A q \in Sources \ {s} : (SaidYes(q)' <=> SaidYes(q)) /\ Message(q)' = Message(q)
  BY <1>1 DEF SaidYes, Message
<1>3. ~SaidYes(s)'
  BY <1>1 DEF SaidYes
<1>4. \A q \in Sources : SaidYes(q)' => Message(q)' \in accepted'
  BY <1>1, <1>2, <1>3 DEF Verdicts
<1>5. ASSUME \A m \in accepted : fate'[m] = fate[m] \/ (fate'[m] = "admitted" /\ m[1] = s),
             SaidYes(s) => fate'[Message(s)] = "admitted",
             WithFate("admitted")' \subseteq accepted
      PROVE  Verdicts'
  <2>1. ASSUME NEW m \in accepted
        PROVE  /\ m \in Messages /\ fate'[m] \in {"held", "admitted"}
               /\ fate'[m] = "held" => SaidYes(m[1])' /\ cur'[m[1]] = m[2]
    <3>1. m \in Messages /\ fate[m] \in {"held", "admitted"}
      BY DEF Verdicts
    <3>2. ASSUME fate'[m] = "held" PROVE SaidYes(m[1])' /\ cur'[m[1]] = m[2]
      <4>1. fate[m] = "held"
        BY <1>5, <3>2
      <4>2. SaidYes(m[1]) /\ cur[m[1]] = m[2]
        BY <1>1, <4>1 DEF Verdicts
      <4>3. m[1] \in Sources /\ m = <<m[1], m[2]>>
        BY <3>1, SourceOf
      <4>4. m[1] # s
        BY <1>5, <3>2, <4>2, <4>3 DEF Message
      <4>. QED
        BY <1>1, <1>2, <4>2, <4>3, <4>4
    <3>. QED
      BY <1>5, <3>1, <3>2
  <2>. QED
    BY <1>1, <1>4, <1>5, <2>1 DEF Verdicts
<1>6. CASE SaidYes(s) /\ fate' = [fate EXCEPT ![Message(s)] = "admitted"]
  <2>1. Message(s) \in accepted
    BY <1>6 DEF Verdicts
  <2>2. Message(s) \in Messages
    BY <2>1 DEF Verdicts
  <2>3. \A m \in Messages : fate'[m] = IF m = Message(s) THEN "admitted" ELSE fate[m]
    BY <1>6, StateTypes, SMTT(30)
  <2>4. \A m \in accepted : m \in Messages
    BY DEF Verdicts
  <2>5. Message(s)[1] = s
    BY DEF Message
  <2>6. WithFate("admitted")' \subseteq accepted
    BY <2>1, <2>3 DEF WithFate, Verdicts
  <2>. QED
    BY <1>5, <2>2, <2>3, <2>4, <2>5, <2>6
<1>7. CASE ~SaidYes(s) /\ fate' = fate
  <2>1. WithFate("admitted")' \subseteq accepted
    BY <1>7 DEF WithFate, Verdicts
  <2>. QED
    BY <1>5, <1>7, <2>1
<1>8. ASSUME ~SaidYes(s), NEW m \in Messages, NEW f \in {"held", "abandoned", "dropped"},
             m[1] = s, fate[m] # "admitted", fate' = [fate EXCEPT ![m] = f]
      PROVE  Verdicts'
  <2>1. m \notin accepted
    BY <1>1, <1>8 DEF Verdicts
  <2>2. \A n \in Messages : fate'[n] = IF n = m THEN f ELSE fate[n]
    BY <1>8, StateTypes
  <2>3. \A n \in accepted : n \in Messages /\ n # m
    BY <2>1 DEF Verdicts
  <2>4. WithFate("admitted")' \subseteq accepted
    BY <2>2 DEF WithFate, Verdicts
  <2>. QED
    BY <1>5, <1>8, <2>2, <2>3, <2>4
<1>. QED
  BY <1>6, <1>7, <1>8, TaskSteps, SMTT(30)

\* The worker's block decides, and its yes goes back while the task lives.
LEMMA CallKeepsVerdicts ==
    ASSUME TypeOK, Order, Flight, Verdicts, NEW w \in Workers, CallBlock(w) PROVE Verdicts'
<1>1. PICK s \in Sources, v \in HandlerResult :
        /\ task[s] = "await" /\ result[s] = "none" /\ w \in running
        /\ accepted' = IF v = "Accepted" THEN accepted \cup {<<s, cur[s]>>} ELSE accepted
        /\ result' = IF Alive THEN [result EXCEPT ![s] = v] ELSE result
  BY VerdictFor, SMTT(30)
<1>2. UNCHANGED <<running, task, cur, fate, phase>>
  BY DEF CallBlock, taskVars, stopVars
<1>3. Message(s) \in Messages /\ fate[Message(s)] = "held" /\ Message(s) = <<s, cur[s]>>
  BY <1>1, InHandHeld DEF Message
<1>4. Alive' <=> Alive
  BY <1>2 DEF Alive
<1>5. /\ \A q \in Sources \ {s} : SaidYes(q)' <=> SaidYes(q)
      /\ Alive => (SaidYes(s)' <=> v = "Accepted")
      /\ ~Alive => (SaidYes(s)' <=> SaidYes(s))
      /\ ~SaidYes(s)
  BY <1>1, <1>2, StateTypes DEF SaidYes
<1>6. \A q \in Sources : Message(q)' = Message(q)
  BY <1>2 DEF Message
<1>7. ASSUME NEW m \in accepted'
      PROVE  /\ m \in Messages /\ fate[m] \in {"held", "admitted"}
             /\ Alive /\ fate[m] = "held" => SaidYes(m[1])' /\ cur[m[1]] = m[2]
  <2>1. CASE m \in accepted
    <3>1. /\ m \in Messages /\ fate[m] \in {"held", "admitted"}
          /\ Alive /\ fate[m] = "held" => SaidYes(m[1]) /\ cur[m[1]] = m[2]
      BY <2>1 DEF Verdicts
    <3>2. m[1] \in Sources
      BY <3>1, SourceOf
    <3>. QED
      BY <1>5, <3>1, <3>2
  <2>2. CASE m \notin accepted
    <3>1. v = "Accepted" /\ m = <<s, cur[s]>>
      BY <1>1, <1>7, <2>2
    <3>2. m[1] = s /\ m[2] = cur[s]
      BY <3>1
    <3>. QED
      BY <1>3, <1>5, <3>1, <3>2
  <2>. QED
    BY <2>1, <2>2
<1>8. WithFate("admitted")' \subseteq accepted'
  BY <1>1, <1>2 DEF WithFate, Verdicts
<1>9. \A q \in Sources : SaidYes(q)' => Message(q)' \in accepted'
  BY <1>1, <1>3, <1>5, <1>6 DEF Verdicts
<1>10. running' # {}
  BY <1>1, <1>2
<1>. QED
  BY <1>2, <1>4, <1>7, <1>8, <1>9, <1>10 DEF Verdicts

\* A framed message is new to everyone.
LEMMA FramedMoves ==
    ASSUME TypeOK, Order, NEW c \in Conns, FrameMessage(c)
    PROVE  \E m \in Messages : fate[m] = "none" /\ fate' = [fate EXCEPT ![m] = "held"]
<1>1. buffer[c] # <<>> /\ fate' = [fate EXCEPT ![<<c, framed[c] + 1>>] = "held"]
  BY DEF FrameMessage, Waiting
<1>2. Len(buffer[c]) >= 1 /\ framed[c] \in Nat /\ sent[c] \in Nat /\ sent[c] <= MaxOutcomes
      /\ Len(buffer[c]) \in Nat /\ MaxOutcomes \in Nat
  <2>1. Len(buffer[c]) >= 1
    BY <1>1, ConnTypes, Taken
  <2>. QED
    BY <2>1, ConnNumbers
<1>3. framed[c] + Len(buffer[c]) <= sent[c]
  BY DEF Order, ConnOrder
<1>4. framed[c] + 1 \in 1..MaxOutcomes
  BY <1>2, <1>3, SMTT(30)
<1>5. fate[<<c, framed[c] + 1>>] = "none"
  BY <1>4, NextUnframed
<1>6. <<c, framed[c] + 1>> \in Messages
  BY <1>4 DEF Messages
<1>. QED
  BY <1>1, <1>5, <1>6

\* Steps that leave the tasks and the handler's answers alone.
LEMMA QuietKeepsVerdicts ==
    ASSUME TypeOK, Verdicts, UNCHANGED <<task, cur, result, accepted>>, running \subseteq running',
           Alive' => Alive,
           \/ UNCHANGED fate
           \/ \E m \in Messages : fate[m] = "none" /\ fate' = [fate EXCEPT ![m] = "held"]
    PROVE  Verdicts'
<1>1. \A m \in accepted : m \in Messages /\ fate[m] \in {"held", "admitted"}
  BY DEF Verdicts
<1>2. \A m \in accepted : fate'[m] = fate[m]
  BY <1>1, StateTypes
<1>3. WithFate("admitted")' \subseteq WithFate("admitted")
  BY StateTypes DEF WithFate
<1>4. \A s : (SaidYes(s)' <=> SaidYes(s)) /\ Message(s)' = Message(s)
  BY DEF SaidYes, Message
<1>5. ASSUME NEW m \in accepted, Alive', fate'[m] = "held" PROVE SaidYes(m[1])' /\ cur'[m[1]] = m[2]
  <2>1. SaidYes(m[1]) /\ cur[m[1]] = m[2]
    BY <1>2, <1>5 DEF Verdicts
  <2>. QED
    BY <1>4, <2>1
<1>6. \A s \in Sources : SaidYes(s)' => Message(s)' \in accepted
  BY <1>4 DEF Verdicts
<1>7. running' = {} => accepted = {}
  BY DEF Verdicts
<1>. QED
  BY <1>1, <1>2, <1>3, <1>5, <1>6, <1>7 DEF Verdicts

\* Without workers the handler has said nothing.
LEMMA ReplaceKeepsVerdicts == ASSUME TypeOK, Verdicts, ReplaceReceiver PROVE Verdicts'
<1>1. /\ UNCHANGED <<task, running, accepted, fate>> /\ running = {}
      /\ result' = [s \in Sources |-> IF task[s] = "await" THEN "discarded" ELSE result[s]]
  BY DEF ReplaceReceiver, taskVars, blockVars
<1>2. accepted' = {}
  BY <1>1 DEF Verdicts
<1>3. WithFate("admitted")' = {}
  BY <1>1, <1>2 DEF WithFate, Verdicts
<1>4. \A s \in Sources : ~SaidYes(s)'
  BY <1>1 DEF SaidYes
<1>. QED
  BY <1>2, <1>3, <1>4 DEF Verdicts

\* The handler's yes is counted once, and only its yes.
LEMMA VerdictsNext ==
    TypeOK /\ Order /\ GoneForGood /\ Flight /\ Verdicts /\ [Next]_vars => Verdicts'
<1>. SUFFICES ASSUME TypeOK, Order, GoneForGood, Flight, Verdicts, [Next]_vars PROVE Verdicts'
  OBVIOUS
<1>1. ASSUME NEW s \in Sources, Offer(s) PROVE Verdicts'
  <2>1. /\ task[s] = "offer" /\ task' = [task EXCEPT ![s] = "await"]
        /\ UNCHANGED <<running, phase, accepted, fate, cur, result>>
    BY <1>1 DEF Offer, stopVars, blockVars
  <2>2. result[s] = "none"
    BY <2>1 DEF Flight
  <2>3. \A q \in Sources : (SaidYes(q)' <=> SaidYes(q)) /\ Message(q)' = Message(q)
    BY <2>1, <2>2, StateTypes DEF SaidYes, Message
  <2>4. \A m \in accepted : m[1] \in Sources
    BY SourceOf DEF Verdicts
  <2>5. (Alive' <=> Alive) /\ WithFate("admitted")' = WithFate("admitted")
    BY <2>1 DEF Alive, WithFate
  <2>. QED
    BY <2>1, <2>3, <2>4, <2>5, SMTT(30) DEF Verdicts
<1>2. ASSUME NEW w \in Workers, TakeDelivery(w) PROVE Verdicts'
  <2>1. UNCHANGED <<task, cur, result, accepted, running, phase, fate>>
    BY <1>2 DEF TakeDelivery, taskVars, stopVars
  <2>2. Alive' => Alive
    BY <2>1 DEF Alive
  <2>. QED
    BY <2>1, <2>2, QuietKeepsVerdicts
<1>3. CASE \/ \E c \in Conns : ReaderStep(c)
           \/ \E w \in Workers : StartWorker(w)
           \/ \E l \in {"stream", "datagram"} : ListenerStops(l)
           \/ StopStep /\ ~ReplaceReceiver
           \/ UNCHANGED vars
  <2>1. /\ UNCHANGED <<task, cur, result, accepted>> /\ running \subseteq running' /\ (Alive' => Alive)
        /\ UNCHANGED fate \/ \E c \in Conns : FrameMessage(c)
    BY <1>3, QuietSteps
  <2>. QED
    BY <2>1, FramedMoves, QuietKeepsVerdicts
<1>. QED
  BY <1>1, <1>2, <1>3, StepKinds, TaskKeepsVerdicts, CallKeepsVerdicts, ReplaceKeepsVerdicts

Abandons == WithFate("abandoned") # {} => givingUp

\* Nothing is abandoned before the server gives up, and it does not change its
\* mind.
LEMMA AbandonsNext ==
    TypeOK /\ Order /\ GoneForGood /\ Flight /\ Abandons /\ [Next]_vars => Abandons'
<1>. SUFFICES ASSUME TypeOK, Order, GoneForGood, Flight, Abandons, [Next]_vars PROVE Abandons'
  OBVIOUS
<1>1. ASSUME givingUp => givingUp', WithFate("abandoned")' \subseteq WithFate("abandoned")
      PROVE  Abandons'
  BY <1>1 DEF Abandons
<1>2. ASSUME NEW s \in Sources,
             (s \in Conns /\ DeliveryStep(s)) \/ (s \in Datagrams /\ DatagramStep(s))
      PROVE  Abandons'
  <2>1. UNCHANGED <<token, receivers>>
    BY <1>2, TaskSteps
  <2>2. givingUp' <=> givingUp
    BY <2>1 DEF givingUp
  <2>3. ASSUME NEW m \in Messages, NEW f, f # "abandoned", fate' = [fate EXCEPT ![m] = f]
        PROVE  Abandons'
    <3>1. WithFate("abandoned")' \subseteq WithFate("abandoned")
      BY <2>3, StateTypes DEF WithFate
    <3>. QED
      BY <1>1, <2>2, <3>1
  <2>4. CASE givingUp
    BY <2>2, <2>4 DEF Abandons
  <2>5. CASE fate' = fate
    <3>1. WithFate("abandoned")' = WithFate("abandoned")
      BY <2>5 DEF WithFate
    <3>. QED
      BY <1>1, <2>2, <3>1
  <2>6. CASE SaidYes(s) /\ fate' = [fate EXCEPT ![Message(s)] = "admitted"]
    <3>1. Message(s) \in Messages
      BY <2>6, InHandHeld DEF SaidYes
    <3>. QED
      BY <2>3, <2>6, <3>1
  <2>7. ASSUME NEW m \in Messages, NEW f \in {"held", "abandoned", "dropped"},
               fate' = [fate EXCEPT ![m] = f], f = "abandoned" => givingUp
        PROVE  Abandons'
    BY <2>3, <2>4, <2>7
  <2>. QED
    BY <1>2, <2>5, <2>6, <2>7, TaskSteps, SMTT(30)
<1>3. CASE \/ \E c \in Conns : ReaderStep(c)
           \/ \E w \in Workers : StartWorker(w)
           \/ \E l \in {"stream", "datagram"} : ListenerStops(l)
           \/ StopStep /\ ~ReplaceReceiver
           \/ UNCHANGED vars
  <2>1. /\ UNCHANGED receivers /\ (token => token')
        /\ UNCHANGED fate \/ \E c \in Conns : FrameMessage(c)
    BY <1>3, QuietSteps
  <2>2. givingUp => givingUp'
    BY <2>1 DEF givingUp
  <2>3. WithFate("abandoned")' \subseteq WithFate("abandoned")
    <3>1. UNCHANGED fate \/ \E m \in Messages : fate' = [fate EXCEPT ![m] = "held"]
      BY <2>1, FramedMoves
    <3>. QED
      BY <3>1, StateTypes DEF WithFate
  <2>. QED
    BY <1>1, <2>2, <2>3
<1>4. CASE \/ \E s \in Sources : Offer(s)
           \/ \E w \in Workers : TakeDelivery(w) \/ CallBlock(w)
           \/ ReplaceReceiver
  <2>1. UNCHANGED <<fate, token>> /\ (receivers' => receivers)
    <3>1. ASSUME NEW s \in Sources, Offer(s) PROVE UNCHANGED <<fate, token, receivers>>
      BY <3>1 DEF Offer, stopVars
    <3>2. ASSUME NEW w \in Workers, TakeDelivery(w) \/ CallBlock(w)
          PROVE  UNCHANGED <<fate, token, receivers>>
      BY <3>2 DEF TakeDelivery, CallBlock, stopVars
    <3>3. ASSUME ReplaceReceiver PROVE UNCHANGED <<fate, token>> /\ receivers
      BY <3>3 DEF ReplaceReceiver, stopVars
    <3>. QED
      BY <1>4, <3>1, <3>2, <3>3
  <2>2. givingUp => givingUp'
    BY <2>1 DEF givingUp
  <2>3. WithFate("abandoned")' = WithFate("abandoned")
    BY <2>1 DEF WithFate
  <2>. QED
    BY <1>1, <2>2, <2>3
<1>. QED
  BY <1>2, <1>3, <1>4, StepKinds

\* Everything about deliveries and verdicts, together.
HandlerInv == Flight /\ Verdicts /\ Abandons

LEMMA HandlerInvariant == Spec => [](IInv /\ HandlerInv)
<1>1. Init => HandlerInv
  <2>. SUFFICES ASSUME Init PROVE HandlerInv
    OBVIOUS
  <2>1. Flight
    <3>1. DOMAIN queue = {} /\ \A w \in Workers : hand[w] = <<>>
      BY SMTT(30) DEF Init
    <3>2. \A s \in Sources : result[s] = "none"
      BY DEF Init
    <3>. QED
      BY <3>1, <3>2 DEF Flight
  <2>2. Verdicts
    BY DEF Init, Verdicts, WithFate, SaidYes
  <2>3. Abandons
    BY DEF Init, Abandons, WithFate
  <2>. QED
    BY <2>1, <2>2, <2>3 DEF HandlerInv
<1>2. IInv /\ HandlerInv /\ [Next]_vars => HandlerInv'
  BY FlightNext, VerdictsNext, AbandonsNext DEF IInv, HandlerInv
<1>. QED
  BY <1>1, <1>2, Invariant, PTL DEF Spec

\* A message is given up only when the server stops or its workers are gone,
\* and never one the handler accepted, whatever the handler answers and however
\* often it is asked.
THEOREM NeverGivenUp == Spec => []AbandonedOnlyAtShutdown
<1>1. HandlerInv => AbandonedOnlyAtShutdown
  <2>. SUFFICES ASSUME HandlerInv PROVE AbandonedOnlyAtShutdown
    OBVIOUS
  <2>1. WithFate("abandoned") # {} => token \/ ~receivers
    BY DEF HandlerInv, Abandons, givingUp
  <2>2. \A m \in accepted : m \notin WithFate("abandoned") \cup WithFate("dropped")
    BY DEF HandlerInv, Verdicts, WithFate
  <2>. QED
    BY <2>1, <2>2 DEF AbandonedOnlyAtShutdown
<1>. QED
  BY <1>1, HandlerInvariant, PTL

-----------------------------------------------------------------------------
(* Draining *)

\* A connection ends with nothing in its channel, after its delivery task.
ClosedConn(c) ==
    /\ reader[c] \in {"new", "refused", "proxy"} => framed[c] = 0
    /\ reader[c] = "done" => framed[c] = 0 \/ task[c] = "done"
    /\ task[c] = "done" => chan[c] = <<>> /\ reader[c] \in {"closing", "done"}

\* And a drain that returns in time leaves nothing running.
Closed ==
    /\ \A c \in Conns : ClosedConn(c)
    /\ phase = "returned" /\ ~timedOut => TrackerEmpty

\* The reading half of a connection closes it in order.
LEMMA ReaderKeepsClosed ==
    ASSUME TypeOK, Closed, NEW c \in Conns, ReaderStep(c) PROVE Closed'
<1>. USE DEF connVars, taskVars, stopVars
<1>1. UNCHANGED <<task, listeners, phase, timedOut>>
  BY DEF ReaderStep, Accept, RefuseConnection, ProxyHeaderComplete, ProxyHeaderFails, RejectFrame,
     FrameMessage, SendPending, Read, ReadFails, ReadCancelled, StopReading, EndOfStream, CloseStream
<1>2. \/ /\ reader[c] = "new" /\ "stream" \in listeners /\ UNCHANGED <<framed, chan>>
         /\ \E r \in {"proxy", "read", "refused"} : reader' = [reader EXCEPT ![c] = r]
      \/ /\ reader[c] = "proxy" /\ UNCHANGED <<framed, chan>>
         /\ \E r \in {"read", "done"} : reader' = [reader EXCEPT ![c] = r]
      \/ /\ reader[c] = "read" /\ UNCHANGED <<framed, chan>>
         /\ reader' = reader \/ reader' = [reader EXCEPT ![c] = "closing"]
      \/ /\ reader[c] = "read" /\ reader' = [reader EXCEPT ![c] = "send"] /\ UNCHANGED chan
         /\ framed' = [framed EXCEPT ![c] = @ + 1]
      \/ /\ reader[c] = "send" /\ reader' = [reader EXCEPT ![c] = "read"] /\ UNCHANGED framed
         /\ chan' = [chan EXCEPT ![c] = Append(@, framed[c])]
      \/ /\ reader[c] = "closing" /\ task[c] = "done" /\ UNCHANGED <<framed, chan>>
         /\ reader' = [reader EXCEPT ![c] = "done"]
  <2>1. CASE Accept(c) \/ RefuseConnection(c)
    BY <2>1 DEF Accept, RefuseConnection, Accepting
  <2>2. CASE ProxyHeaderComplete(c) \/ ProxyHeaderFails(c)
    BY <2>2 DEF ProxyHeaderComplete, ProxyHeaderFails
  <2>3. CASE RejectFrame(c)
    <3>1. /\ reader[c] = "read" /\ UNCHANGED <<framed, chan>>
          /\ reader' = [reader EXCEPT ![c] = IF Head(buffer[c]) = "fatal" THEN "closing" ELSE @]
      BY <2>3 DEF RejectFrame
    <3>2. [reader EXCEPT ![c] = reader[c]] = reader
      BY StateTypes
    <3>. QED
      BY <3>1, <3>2
  <2>4. CASE Read(c) \/ StopReading(c) \/ EndOfStream(c)
    BY <2>4 DEF Read, StopReading, Selecting, EndOfStream
  <2>5. CASE FrameMessage(c)
    BY <2>5 DEF FrameMessage, Waiting
  <2>6. CASE SendPending(c) \/ CloseStream(c)
    BY <2>6 DEF SendPending, CloseStream
  <2>. QED
    BY <2>1, <2>2, <2>3, <2>4, <2>5, <2>6 DEF ReaderStep, ReadFails, ReadCancelled
<1>3. \A k \in Conns \ {c} : reader'[k] = reader[k] /\ framed'[k] = framed[k] /\ chan'[k] = chan[k]
  BY <1>2, StateTypes, SMTT(30)
<1>4. \A k \in Conns \ {c} : ClosedConn(k)'
  BY <1>1, <1>3 DEF Closed, ClosedConn
<1>5. ClosedConn(c)'
  <2>1. ClosedConn(c)
    BY DEF Closed
  <2>2. reader[c] \notin {"closing", "done"} => task[c] # "done"
    BY <2>1 DEF ClosedConn
  <2>3. CASE UNCHANGED <<framed, chan>>
    BY <1>1, <1>2, <2>1, <2>2, <2>3, StateTypes DEF ClosedConn
  <2>4. CASE reader[c] \in {"read", "send"} /\ reader'[c] \in {"read", "send"}
    BY <1>1, <2>2, <2>4 DEF ClosedConn
  <2>. QED
    BY <1>2, <2>3, <2>4, StateTypes
<1>6. TrackerEmpty => FALSE
  BY <1>2 DEF TrackerEmpty
<1>. QED
  BY <1>1, <1>4, <1>5, <1>6 DEF Closed

\* So do the tasks.
LEMMA TaskKeepsClosed ==
    ASSUME TypeOK, Closed, NEW s \in Sources,
           (s \in Conns /\ DeliveryStep(s)) \/ (s \in Datagrams /\ DatagramStep(s))
    PROVE  Closed'
<1>. USE DEF connVars, taskVars, stopVars
<1>1. CASE s \in Conns /\ DeliveryStep(s)
  <2>1. /\ UNCHANGED <<reader, framed, listeners, phase, timedOut>>
        /\ task[s] # "done"
        /\ \/ chan' = chan \/ chan' = [chan EXCEPT ![s] = Tail(@)]
        /\ \/ \E t \in {"idle", "offer", "backoff"} : task' = [task EXCEPT ![s] = t]
           \/ task' = task
           \/ /\ task' = [task EXCEPT ![s] = "done"]
              /\ chan' = chan /\ chan[s] = <<>> /\ reader[s] = "closing"
    BY <1>1 DEF DeliveryStep, Receive, ReceiveWithoutWorkers, DeliveryEnds, StreamAccepted, Answered,
       StreamRefused, StreamGivesUp, Retry, StreamUnavailable, Unavailable
  <2>2. \A k \in Conns \ {s} : chan'[k] = chan[k] /\ task'[k] = task[k]
    BY <2>1, StateTypes, SMTT(30) DEF Sources
  <2>3. \A k \in Conns \ {s} : ClosedConn(k)'
    BY <2>1, <2>2 DEF Closed, ClosedConn
  <2>4. task'[s] = "done" => chan'[s] = <<>> /\ reader[s] = "closing"
    BY <2>1, StateTypes, SMTT(30)
  <2>5. ClosedConn(s)'
    BY <1>1, <2>1, <2>4 DEF Closed, ClosedConn
  <2>6. \A d \in Datagrams : task'[d] = task[d]
    BY <1>1, <2>1, SourcesAssumption, StateTypes, SMTT(30) DEF Sources
  <2>7. TrackerEmpty => TrackerEmpty'
    BY <2>1, <2>6 DEF TrackerEmpty
  <2>. QED
    BY <1>1, <2>1, <2>3, <2>5, <2>7 DEF Closed
<1>2. CASE s \in Datagrams /\ DatagramStep(s)
  <2>1. /\ UNCHANGED <<reader, framed, chan, listeners, phase, timedOut>>
        /\ \/ task[s] = "idle" /\ "datagram" \in listeners
           \/ task[s] \in {"offer", "await"}
        /\ \E t : task' = [task EXCEPT ![s] = t]
    BY <1>2 DEF DatagramStep, DatagramTruncated, DatagramWithoutCredit, DatagramReceived, Receiving,
       DatagramAccepted, DatagramRefused, DatagramUnavailable, Answered, Unavailable
  <2>2. \A k \in Conns : task'[k] = task[k]
    BY <1>2, <2>1, SourcesAssumption, StateTypes, SMTT(30) DEF Sources
  <2>3. \A k \in Conns : ClosedConn(k)'
    BY <2>1, <2>2 DEF Closed, ClosedConn
  <2>4. ~TrackerEmpty
    BY <1>2, <2>1 DEF TrackerEmpty
  <2>. QED
    BY <2>1, <2>3, <2>4 DEF Closed
<1>. QED
  BY <1>1, <1>2

\* Every step closes connections in order, and none starts after the drain.
LEMMA ClosedNext == TypeOK /\ DrainOnce /\ Flight /\ Closed /\ [Next]_vars => Closed'
<1>. SUFFICES ASSUME TypeOK, DrainOnce, Flight, Closed, [Next]_vars PROVE Closed'
  OBVIOUS
<1>. USE DEF connVars, taskVars, stopVars
<1>1. ASSUME UNCHANGED <<reader, framed, chan, task>>, listeners' \subseteq listeners,
             phase' = "returned" /\ ~timedOut' => (phase = "returned" /\ ~timedOut) \/ TrackerEmpty
      PROVE  Closed'
  <2>1. \A c \in Conns : ClosedConn(c)'
    BY <1>1 DEF Closed, ClosedConn
  <2>2. TrackerEmpty => TrackerEmpty'
    BY <1>1 DEF TrackerEmpty
  <2>. QED
    BY <1>1, <2>1, <2>2 DEF Closed
<1>2. ASSUME NEW s \in Sources, Offer(s) PROVE Closed'
  <2>1. /\ UNCHANGED <<reader, framed, chan, listeners, phase, timedOut>> /\ task[s] = "offer"
        /\ task' = [task EXCEPT ![s] = "await"]
    BY <1>2 DEF Offer
  <2>2. /\ \A q \in Sources : task'[q] = "done" <=> task[q] = "done"
        /\ \A q \in Sources : task'[q] \in {"idle", "done"} <=> task[q] \in {"idle", "done"}
    BY <2>1, StateTypes
  <2>3. Conns \subseteq Sources /\ Datagrams \subseteq Sources
    BY DEF Sources
  <2>4. \A c \in Conns : ClosedConn(c)'
    BY <2>1, <2>2, <2>3 DEF Closed, ClosedConn
  <2>5. TrackerEmpty' <=> TrackerEmpty
    BY <2>1, <2>2, <2>3 DEF TrackerEmpty
  <2>. QED
    BY <2>1, <2>4, <2>5 DEF Closed
<1>3. ASSUME NEW w \in Workers, WorkerStep(w) PROVE Closed'
  BY <1>1, <1>3 DEF WorkerStep, StartWorker, TakeDelivery, CallBlock
<1>4. ASSUME NEW l \in {"stream", "datagram"}, ListenerStops(l) PROVE Closed'
  BY <1>1, <1>4 DEF ListenerStops
<1>5. CASE StopStep
  <2>1. CASE RecordAbandoned
    <3>1. UNCHANGED <<reader, framed, chan, task, listeners, timedOut>> /\ phase = "recording"
      BY <2>1 DEF RecordAbandoned
    <3>2. timedOut'
      BY <3>1 DEF DrainOnce
    <3>. QED
      BY <1>1, <3>1, <3>2
  <2>2. CASE DrainCompletes
    BY <1>1, <2>2 DEF DrainCompletes
  <2>3. CASE StopAccepting \/ DrainTimesOut \/ DropRuntime
    <3>1. UNCHANGED <<reader, framed, chan, task, listeners>> /\ phase' # "returned"
      BY <2>3 DEF StopAccepting, DrainTimesOut, DropRuntime
    <3>. QED
      BY <1>1, <3>1
  <2>4. CASE ReplaceReceiver
    BY <1>1, <2>4 DEF ReplaceReceiver
  <2>. QED
    BY <1>5, <2>1, <2>2, <2>3, <2>4 DEF StopStep
<1>6. CASE UNCHANGED vars
  BY <1>1, <1>6 DEF vars
<1>. QED
  BY <1>2, <1>3, <1>4, <1>5, <1>6, ReaderKeepsClosed, TaskKeepsClosed DEF Next, Sources

\* When every task has ended nothing is held.
LEMMA NothingHeld == ASSUME TypeOK, Order, Closed, TrackerEmpty PROVE Held = {}
<1>1. ASSUME NEW c \in Conns, NEW n \in 1..MaxOutcomes PROVE fate[<<c, n>>] # "held"
  <2>1. reader[c] \in {"new", "refused", "done"} /\ ClosedConn(c)
    BY DEF TrackerEmpty, Closed
  <2>2. /\ Received(c) \in Int /\ Len(chan[c]) \in Nat /\ framed[c] \in Nat /\ 0 <= Settled(c)
        /\ framed[c] = Received(c) + Len(chan[c])
        /\ Settled(c) = Received(c) - (IF Busy(c) THEN 1 ELSE 0)
    BY <2>1, Segments, SMTT(30)
  <2>3. framed[c] <= Settled(c)
    <3>1. CASE framed[c] = 0
      BY <2>2, <3>1
    <3>2. CASE framed[c] # 0
      <4>1. task[c] = "done" /\ chan[c] = <<>>
        BY <2>1, <3>2 DEF ClosedConn
      <4>2. Len(chan[c]) = 0 /\ ~Busy(c)
        BY <4>1 DEF Busy
      <4>. QED
        BY <2>2, <4>2, SMTT(30)
    <3>. QED
      BY <3>1, <3>2
  <2>4. n \notin (Settled(c) + 1)..framed[c]
    BY <2>2, <2>3, SMTT(30)
  <2>. QED
    BY <2>4, HeldSegment
<1>2. ASSUME NEW d \in Datagrams PROVE fate[<<d, 1>>] # "held"
  BY DEF TrackerEmpty, Order, DatagramOrder
<1>. QED
  BY <1>1, <1>2, SMTT(30) DEF Held, WithFate, Messages

\* A drain that returns within its limit has left no message anywhere: not
\* held, not queued, not with a worker, and none accepted and not counted.
THEOREM DrainedClean == Spec => []CleanDrain
<1>1. Init => Closed
  BY SMTT(30) DEF Init, Closed, ClosedConn, Sources
<1>2. IInv /\ HandlerInv /\ Closed /\ [Next]_vars => Closed'
  BY ClosedNext DEF IInv, HandlerInv
<1>3. IInv /\ HandlerInv /\ Closed => CleanDrain
  <2>. SUFFICES ASSUME IInv, HandlerInv, Closed, phase = "returned", ~timedOut
                PROVE  /\ Held = {} /\ queue = <<>> /\ \A w \in Workers : hand[w] = <<>>
                       /\ accepted = WithFate("admitted")
    BY DEF CleanDrain
  <2>0. TypeOK /\ Order /\ Flight /\ Verdicts
    BY DEF IInv, HandlerInv
  <2>1. Held = {}
    BY <2>0, NothingHeld DEF Closed
  <2>2. \A m \in Messages : fate[m] # "held"
    BY <2>1 DEF Held, WithFate
  <2>3. \A s \in Sources : task[s] # "await"
    BY <2>0, <2>2, InHandHeld
  <2>4. queue = <<>>
    <3>. SUFFICES ASSUME queue # <<>> PROVE FALSE
      OBVIOUS
    <3>1. 1 \in DOMAIN queue
      <4>1. queue \in Seq(Delivery)
        BY <2>0, StateTypes
      <4>2. Len(queue) \in Nat /\ Len(queue) >= 1 /\ DOMAIN queue = 1..Len(queue)
        BY <4>1, Taken, SMTT(30)
      <4>. QED
        BY <4>2, SMTT(30)
    <3>2. queue[1].src \in Sources /\ Current(queue[1])
      BY <2>0, <3>1, FlightTypes DEF Flight
    <3>. QED
      BY <2>3, <3>2 DEF Current
  <2>5. ASSUME NEW w \in Workers, hand[w] # <<>> PROVE FALSE
    <3>1. Head(hand[w]).src \in Sources /\ Current(Head(hand[w]))
      BY <2>0, <2>5, FlightTypes DEF Flight
    <3>. QED
      BY <2>3, <3>1 DEF Current
  <2>6. accepted \subseteq WithFate("admitted")
    BY <2>0, <2>2 DEF Verdicts, WithFate
  <2>7. WithFate("admitted") \subseteq accepted
    BY <2>0 DEF Verdicts
  <2>. QED
    BY <2>1, <2>4, <2>5, <2>6, <2>7
<1>. QED
  BY <1>1, <1>2, <1>3, HandlerInvariant, PTL DEF Spec

-----------------------------------------------------------------------------
(* What the handler sees *)

\* The block was last called with this attempt of this message.
Told(s) == seen[s] = <<cur[s], attempt[s]>>

\* It was last called with what comes just before it.
Fresh(s) ==
    IF attempt[s] = 1
    THEN /\ seen[s][1] = cur[s] - 1
         /\ cur[s] = 1 \/ <<s, cur[s] - 1>> \in accepted \/ token
    ELSE s \in Conns /\ seen[s] = <<cur[s], attempt[s] - 1>> /\ Message(s) \notin accepted

\* Where the block is with the messages of one source.
SeenAt(s) ==
    /\ attempt[s] >= 1
    /\ task[s] = "offer" \/ InQueue(s) => Fresh(s)
    /\ task[s] = "await" /\ ~InQueue(s) => Told(s)
    /\ task[s] = "backoff" => Told(s) /\ Message(s) \notin accepted
    /\ s \in Conns /\ task[s] = "idle" =>
         /\ seen[s][1] = Received(s)
         /\ Received(s) = 0 \/ <<s, Received(s)>> \in accepted \/ token
    /\ s \in Datagrams => attempt[s] = 1 /\ (task[s] = "idle" => seen[s][1] = 0)

Seen == receivers => \A s \in Sources : SeenAt(s)

\* Steps that do not concern a source leave it where it is.
LEMMA SeenKept ==
    ASSUME NEW s \in Sources, SeenAt(s), attempt'[s] = attempt[s], cur'[s] = cur[s],
           task'[s] = task[s], seen'[s] = seen[s], InQueue(s)' <=> InQueue(s), token => token',
           \A n : <<s, n>> \in accepted' <=> <<s, n>> \in accepted,
           s \in Conns /\ task[s] = "idle" => Received(s)' = Received(s)
    PROVE  SeenAt(s)'
<1>1. (Told(s)' <=> Told(s)) /\ (Message(s)' \in accepted' <=> Message(s) \in accepted)
  BY DEF Told, Message
<1>2. Fresh(s) => Fresh(s)'
  BY <1>1 DEF Fresh
<1>3. attempt'[s] >= 1 /\ (task'[s] = "offer" \/ InQueue(s)' => Fresh(s)')
      /\ (task'[s] = "await" /\ ~InQueue(s)' => Told(s)')
      /\ (task'[s] = "backoff" => Told(s)' /\ Message(s)' \notin accepted')
  BY <1>1, <1>2 DEF SeenAt
<1>4. s \in Conns /\ task'[s] = "idle" =>
        /\ seen'[s][1] = Received(s)'
        /\ Received(s)' = 0 \/ <<s, Received(s)'>> \in accepted' \/ token'
  BY DEF SeenAt
<1>5. s \in Datagrams => attempt'[s] = 1 /\ (task'[s] = "idle" => seen'[s][1] = 0)
  BY DEF SeenAt
<1>. QED
  BY <1>3, <1>4, <1>5 DEF SeenAt

\* Reading and framing hand nothing to the delivery task.
LEMMA ReaderKeepsReceived ==
    ASSUME TypeOK, NEW c \in Conns, ReaderStep(c), NEW k \in Conns PROVE Received(k)' = Received(k)
<1>. USE DEF connVars
<1>0. framed[c] \in Nat /\ Len(chan[c]) \in Nat /\ chan[c] \in Seq(1..MaxOutcomes)
  BY ConnNumbers, ConnTypes
<1>1. CASE FrameMessage(c)
  <2>1. /\ reader[c] = "read" /\ reader' = [reader EXCEPT ![c] = "send"] /\ UNCHANGED chan
        /\ framed' = [framed EXCEPT ![c] = @ + 1]
    BY <1>1 DEF FrameMessage, Waiting
  <2>2. CASE k = c
    <3>1. reader'[c] = "send" /\ framed'[c] = framed[c] + 1
      BY <2>1, StateTypes
    <3>. QED
      BY <1>0, <2>1, <2>2, <3>1, SMTT(30) DEF Received
  <2>3. CASE k # c
    <3>1. reader'[k] = reader[k] /\ framed'[k] = framed[k]
      BY <2>1, <2>3, StateTypes
    <3>. QED
      BY <2>1, <3>1 DEF Received
  <2>. QED
    BY <2>2, <2>3
<1>2. CASE SendPending(c)
  <2>1. /\ reader[c] = "send" /\ reader' = [reader EXCEPT ![c] = "read"] /\ UNCHANGED framed
        /\ chan' = [chan EXCEPT ![c] = Append(@, framed[c])]
    BY <1>2 DEF SendPending
  <2>2. CASE k = c
    <3>1. reader'[c] = "read" /\ chan'[c] = Append(chan[c], framed[c])
      BY <2>1, StateTypes
    <3>2. Len(chan'[c]) = Len(chan[c]) + 1
      BY <1>0, <3>1, Appended, SMTT(30)
    <3>3. Received(c) = framed[c] - 1 - Len(chan[c])
      BY <2>1 DEF Received
    <3>4. Received(c)' = framed[c] - 0 - Len(chan'[c])
      BY <2>1, <3>1 DEF Received
    <3>5. Received(c)' = Received(c)
      BY <1>0, <3>2, <3>3, <3>4, SMTT(30)
    <3>. QED
      BY <2>2, <3>5
  <2>3. CASE k # c
    <3>1. reader'[k] = reader[k] /\ chan'[k] = chan[k]
      BY <2>1, <2>3, StateTypes
    <3>. QED
      BY <2>1, <3>1 DEF Received
  <2>. QED
    BY <2>2, <2>3
<1>3. CASE \/ Accept(c) \/ RefuseConnection(c) \/ ProxyHeaderComplete(c) \/ ProxyHeaderFails(c)
           \/ RejectFrame(c) \/ Read(c) \/ StopReading(c) \/ EndOfStream(c) \/ CloseStream(c)
  <2>1. UNCHANGED <<framed, chan>>
    BY <1>3 DEF Accept, RefuseConnection, ProxyHeaderComplete, ProxyHeaderFails, RejectFrame, Read,
       StopReading, EndOfStream, CloseStream
  <2>2. reader'[k] = "send" <=> reader[k] = "send"
    <3>1. \/ reader' = reader
          \/ /\ reader[c] # "send"
             /\ \E r \in {"proxy", "read", "refused", "closing", "done"} :
                  reader' = [reader EXCEPT ![c] = r]
      <4>1. CASE RejectFrame(c)
        BY <4>1 DEF RejectFrame
      <4>2. CASE Accept(c) \/ RefuseConnection(c) \/ ProxyHeaderComplete(c) \/ ProxyHeaderFails(c)
        BY <4>2 DEF Accept, RefuseConnection, Accepting, ProxyHeaderComplete, ProxyHeaderFails
      <4>3. CASE Read(c) \/ StopReading(c) \/ EndOfStream(c) \/ CloseStream(c)
        BY <4>3 DEF Read, StopReading, Selecting, EndOfStream, CloseStream
      <4>. QED
        BY <1>3, <4>1, <4>2, <4>3
    <3>2. CASE k = c
      BY <3>1, <3>2, StateTypes
    <3>3. CASE k # c
      <4>1. reader'[k] = reader[k]
        BY <3>1, <3>3, StateTypes
      <4>. QED
        BY <4>1
    <3>. QED
      BY <3>2, <3>3
  <2>. QED
    BY <2>1, <2>2 DEF Received
<1>. QED
  BY <1>1, <1>2, <1>3 DEF ReaderStep, ReadFails, ReadCancelled

\* A queued delivery has its task waiting.
LEMMA QueuedWaits ==
    ASSUME TypeOK, Flight, NEW s, InQueue(s) PROVE task[s] = "await" /\ result[s] = "none"
BY DEF InQueue, Flight, Current

\* The delivery task of a connection offers the block the next message, or the
\* next attempt, and moves on when it has the verdict.
LEMMA DeliverySeen ==
    ASSUME TypeOK, Order, GoneForGood, Flight, Verdicts, receivers,
           NEW c \in Conns, SeenAt(c), DeliveryStep(c)
    PROVE  SeenAt(c)'
<1>. USE DEF connVars, taskVars, workVars, stopVars, blockVars
<1>0. c \in Sources /\ c \notin Datagrams
  BY SourcesAssumption DEF Sources
<1>1. /\ Alive /\ UNCHANGED <<queue, token, accepted, seen>> /\ task'[c] # "await"
      /\ task[c] # "await" \/ result[c] # "none"
  BY <1>0, TaskSteps
<1>2. ~InQueue(c) /\ ~InQueue(c)'
  <2>1. ~InQueue(c)
    BY <1>1, QueuedWaits
  <2>. QED
    BY <1>1, <2>1 DEF InQueue
<1>3. /\ seen[c] \in Nat \X Nat /\ attempt[c] \in Nat /\ cur[c] \in Nat /\ attempt[c] >= 1
      /\ DOMAIN task = Sources /\ DOMAIN cur = Sources /\ DOMAIN attempt = Sources
  BY <1>0, StateTypes DEF SeenAt
<1>4. Received(c) \in Int /\ (Busy(c) => cur[c] = Received(c))
  BY Segments DEF Order, ConnOrder
<1>5. task[c] = "await" => Told(c)
  BY <1>2 DEF SeenAt
<1>6. CASE Receive(c)
  <2>1. /\ task[c] = "idle" /\ chan[c] # <<>> /\ task' = [task EXCEPT ![c] = "offer"]
        /\ cur' = [cur EXCEPT ![c] = Head(chan[c])] /\ attempt' = [attempt EXCEPT ![c] = 1]
    BY <1>6 DEF Receive
  <2>2. Head(chan[c]) = Received(c) + 1
    <3>1. Len(chan[c]) >= 1 /\ Len(chan[c]) \in Nat /\ Head(chan[c]) = chan[c][1]
      BY <2>1, ConnTypes, Taken
    <3>2. 1 \in 1..Len(chan[c])
      BY <3>1, SMTT(30)
    <3>. QED
      BY <3>1, <3>2 DEF Order, ConnOrder, ChannelInOrder
  <2>3. task'[c] = "offer" /\ cur'[c] = Received(c) + 1 /\ attempt'[c] = 1
    BY <1>0, <1>3, <2>1, <2>2
  <2>4. cur'[c] - 1 = Received(c) /\ (Received(c) = 0 => cur'[c] = 1)
    BY <1>4, <2>3, SMTT(30)
  <2>5. seen[c][1] = Received(c) /\ (Received(c) = 0 \/ <<c, Received(c)>> \in accepted \/ token)
    BY <2>1 DEF SeenAt
  <2>6. Fresh(c)'
    BY <1>1, <2>3, <2>4, <2>5 DEF Fresh
  <2>. QED
    BY <1>0, <1>2, <2>3, <2>6, SMTT(30) DEF SeenAt
<1>7. CASE DeliveryEnds(c)
  <2>1. task' = [task EXCEPT ![c] = "done"] /\ UNCHANGED attempt
    BY <1>7 DEF DeliveryEnds
  <2>2. task'[c] = "done" /\ attempt'[c] >= 1
    BY <1>0, <1>3, <2>1
  <2>. QED
    BY <1>0, <1>2, <2>2 DEF SeenAt
<1>8. CASE StreamAccepted(c) \/ StreamGivesUp(c)
  <2>1. /\ task[c] = "await" /\ task' = [task EXCEPT ![c] = "idle"]
        /\ UNCHANGED <<cur, attempt, reader, framed, chan>>
        /\ result[c] = "Accepted" \/ token
    BY <1>8 DEF StreamAccepted, StreamGivesUp, Answered
  <2>2. task'[c] = "idle" /\ attempt'[c] >= 1
    BY <1>0, <1>3, <2>1
  <2>3. seen[c] = <<cur[c], attempt[c]>> /\ cur[c] = Received(c) /\ Received(c)' = Received(c)
    BY <1>4, <1>5, <2>1 DEF Told, Busy, Received
  <2>4. result[c] = "Accepted" => <<c, cur[c]>> \in accepted
    BY <1>0, <2>1 DEF Verdicts, SaidYes, Message
  <2>5. seen'[c][1] = Received(c)' /\ (<<c, Received(c)'>> \in accepted' \/ token')
    BY <1>1, <2>1, <2>3, <2>4, SMTT(30)
  <2>. QED
    BY <1>0, <1>2, <2>2, <2>5 DEF SeenAt
<1>9. CASE StreamRefused(c)
  <2>1. /\ task[c] = "await" /\ task' = [task EXCEPT ![c] = "backoff"] /\ UNCHANGED <<cur, attempt>>
        /\ result[c] \in {"Refused", "Failed"}
    BY <1>9 DEF StreamRefused, Answered
  <2>2. task'[c] = "backoff" /\ attempt'[c] >= 1
    BY <1>0, <1>3, <2>1
  <2>3. Message(c) \notin accepted
    <3>1. fate[Message(c)] = "held" /\ Message(c)[1] = c
      BY <1>0, <2>1, InHandHeld DEF Message
    <3>2. ~SaidYes(c)
      BY <2>1 DEF SaidYes
    <3>. QED
      BY <1>1, <3>1, <3>2 DEF Verdicts
  <2>4. Told(c)' /\ Message(c)' \notin accepted'
    BY <1>1, <1>5, <2>1, <2>3 DEF Told, Message
  <2>. QED
    BY <1>0, <1>2, <2>2, <2>4 DEF SeenAt
<1>10. CASE Retry(c)
  <2>1. /\ task[c] = "backoff" /\ task' = [task EXCEPT ![c] = "offer"] /\ UNCHANGED cur
        /\ attempt' = [attempt EXCEPT ![c] = @ + 1]
    BY <1>10 DEF Retry
  <2>2. task'[c] = "offer" /\ attempt'[c] = attempt[c] + 1
    BY <1>0, <1>3, <2>1
  <2>3. attempt'[c] - 1 = attempt[c] /\ attempt'[c] # 1 /\ attempt'[c] >= 1
    BY <1>3, <2>2, SMTT(30)
  <2>4. seen[c] = <<cur[c], attempt[c]>> /\ Message(c) \notin accepted
    BY <2>1 DEF SeenAt, Told
  <2>5. Fresh(c)'
    BY <1>1, <2>1, <2>3, <2>4 DEF Fresh, Message
  <2>. QED
    BY <1>0, <1>2, <2>2, <2>3, <2>5 DEF SeenAt
<1>11. ~ReceiveWithoutWorkers(c) /\ ~StreamUnavailable(c)
  BY <1>0 DEF ReceiveWithoutWorkers, StreamUnavailable, Unavailable, GoneForGood
<1>. QED
  BY <1>6, <1>7, <1>8, <1>9, <1>10, <1>11 DEF DeliveryStep

\* A datagram is offered once.
LEMMA DatagramSeen ==
    ASSUME TypeOK, Order, GoneForGood, Flight, NEW d \in Datagrams, SeenAt(d), DatagramStep(d)
    PROVE  SeenAt(d)'
<1>0. d \in Sources /\ d \notin Conns /\ DOMAIN task = Sources
  BY SourcesAssumption, StateTypes DEF Sources
<1>1. /\ UNCHANGED <<queue, token, accepted, seen>> /\ task'[d] # "await"
      /\ task[d] # "await" \/ result[d] # "none"
  BY <1>0, TaskSteps
<1>2. ~InQueue(d) /\ ~InQueue(d)'
  <2>1. ~InQueue(d)
    BY <1>1, QueuedWaits
  <2>. QED
    BY <1>1, <2>1 DEF InQueue
<1>3. /\ UNCHANGED <<cur, attempt>>
      /\ \/ task[d] = "idle" /\ task' = [task EXCEPT ![d] = "offer"]
         \/ task' = [task EXCEPT ![d] = "done"]
  BY DEF DatagramStep, DatagramTruncated, DatagramWithoutCredit, DatagramReceived, Receiving,
     DatagramAccepted, DatagramRefused, DatagramUnavailable, taskVars
<1>4. attempt[d] = 1 /\ cur[d] = 1 /\ (task[d] = "idle" => seen[d][1] = 0)
  BY DEF SeenAt, Order, DatagramOrder
<1>5. CASE task[d] = "idle" /\ task' = [task EXCEPT ![d] = "offer"]
  <2>1. task'[d] = "offer"
    BY <1>0, <1>5
  <2>2. Fresh(d)'
    BY <1>1, <1>3, <1>4, <1>5, SMTT(30) DEF Fresh
  <2>. QED
    BY <1>0, <1>2, <1>3, <1>4, <2>1, <2>2 DEF SeenAt
<1>6. CASE task' = [task EXCEPT ![d] = "done"]
  <2>1. task'[d] = "done"
    BY <1>0, <1>6
  <2>. QED
    BY <1>0, <1>2, <1>3, <1>4, <2>1 DEF SeenAt
<1>. QED
  BY <1>3, <1>5, <1>6

\* Queueing a delivery changes nothing for the block.
LEMMA OfferSeen ==
    ASSUME TypeOK, NEW s \in Sources, Offer(s), \A q \in Sources : SeenAt(q), NEW q \in Sources
    PROVE  SeenAt(q)'
<1>. DEFINE new == [src |-> s, frame |-> cur[s], attempt |-> attempt[s]]
<1>1. /\ task[s] = "offer" /\ task' = [task EXCEPT ![s] = "await"] /\ queue' = Append(queue, new)
      /\ UNCHANGED <<reader, framed, chan, cur, attempt, token, accepted, seen>>
  BY DEF Offer, connVars, stopVars, blockVars
<1>2. /\ DOMAIN queue = 1..Len(queue) /\ DOMAIN queue' = 1..(Len(queue) + 1) /\ Len(queue) \in Nat
      /\ queue'[Len(queue) + 1] = new
      /\ \A i \in DOMAIN queue : queue'[i] = queue[i]
  BY <1>1, Appended, StateTypes, SMTT(30)
<1>3. new.src = s
  OBVIOUS
<1>. HIDE DEF new
<1>4. \A i \in DOMAIN queue' : i \in DOMAIN queue \/ i = Len(queue) + 1
  BY <1>2, SMTT(30)
<1>5. DOMAIN queue \subseteq DOMAIN queue' /\ Len(queue) + 1 \in DOMAIN queue'
  BY <1>2, SMTT(30)
<1>6. InQueue(q)' <=> InQueue(q) \/ q = s
  BY <1>2, <1>3, <1>4, <1>5 DEF InQueue
<1>7. CASE q = s
  <2>1. Fresh(s) /\ attempt[s] >= 1 /\ (s \in Datagrams => attempt[s] = 1)
    BY <1>1 DEF SeenAt
  <2>2. Fresh(s)'
    BY <1>1, <2>1 DEF Fresh, Message
  <2>3. task'[s] = "await"
    BY <1>1, StateTypes
  <2>. QED
    BY <1>1, <1>6, <1>7, <2>1, <2>2, <2>3 DEF SeenAt
<1>8. CASE q # s
  <2>1. task'[q] = task[q] /\ (q \in Conns => Received(q)' = Received(q))
    BY <1>1, <1>8, StateTypes DEF Received
  <2>. QED
    BY <1>1, <1>6, <1>8, <2>1, SeenKept
<1>. QED
  BY <1>7, <1>8

\* The block is called with the delivery at the head of the queue.
LEMMA TakeSeen ==
    ASSUME TypeOK, Flight, NEW w \in Workers, TakeDelivery(w), \A q \in Sources : SeenAt(q),
           NEW q \in Sources
    PROVE  SeenAt(q)'
<1>. DEFINE d == Head(queue)
<1>1. /\ UNCHANGED <<reader, framed, chan, task, cur, attempt, token, accepted>>
      /\ seen' = [seen EXCEPT ![d.src] = <<d.frame, d.attempt>>]
  BY DEF TakeDelivery, connVars, taskVars, stopVars
<1>2. /\ d \in Delivery /\ Current(d) /\ InQueue(d.src)
      /\ InQueueAfter(q) <=> InQueue(q) /\ q # d.src
  BY TakePlaces
<1>. HIDE DEF d
<1>3. InQueue(q)' <=> InQueue(q) /\ q # d.src
  BY <1>2 DEF InQueue, InQueueAfter
<1>4. d.src \in Sources /\ d.frame = cur[d.src] /\ d.attempt = attempt[d.src] /\ task[d.src] = "await"
  BY <1>2 DEF Delivery, Current
<1>5. CASE q = d.src
  <2>1. seen'[q] = <<cur[q], attempt[q]>>
    BY <1>1, <1>4, <1>5, StateTypes
  <2>2. Told(q)'
    BY <1>1, <2>1 DEF Told
  <2>3. attempt[q] >= 1 /\ (q \in Datagrams => attempt[q] = 1) /\ task[q] = "await"
    BY <1>4, <1>5 DEF SeenAt
  <2>4. ~InQueue(q)'
    BY <1>3, <1>5
  <2>. QED
    BY <1>1, <2>2, <2>3, <2>4 DEF SeenAt
<1>6. CASE q # d.src
  <2>1. seen'[q] = seen[q] /\ (q \in Conns => Received(q)' = Received(q))
    BY <1>1, <1>6, StateTypes DEF Received
  <2>. QED
    BY <1>1, <1>3, <1>6, <2>1, SeenKept
<1>. QED
  BY <1>5, <1>6

\* The verdict of the block concerns the message it was called with.
LEMMA CallSeen ==
    ASSUME TypeOK, Flight, NEW w \in Workers, CallBlock(w), \A q \in Sources : SeenAt(q),
           NEW q \in Sources
    PROVE  SeenAt(q)'
<1>1. PICK s \in Sources, v \in HandlerResult :
        /\ task[s] = "await" /\ ~InQueue(s)
        /\ accepted' = IF v = "Accepted" THEN accepted \cup {<<s, cur[s]>>} ELSE accepted
  BY VerdictFor, SMTT(30)
<1>2. UNCHANGED <<reader, framed, chan, task, cur, attempt, queue, token, seen>>
  BY DEF CallBlock, connVars, taskVars, stopVars
<1>3. (InQueue(q)' <=> InQueue(q)) /\ (q \in Conns => Received(q)' = Received(q))
  BY <1>2 DEF InQueue, Received
<1>4. CASE q = s
  <2>1. Told(q) /\ attempt[q] >= 1 /\ (q \in Datagrams => attempt[q] = 1)
    BY <1>1, <1>4 DEF SeenAt
  <2>2. Told(q)'
    BY <1>2, <2>1 DEF Told
  <2>. QED
    BY <1>1, <1>2, <1>3, <1>4, <2>1, <2>2 DEF SeenAt
<1>5. CASE q # s
  <2>1. \A n : <<q, n>> \in accepted' <=> <<q, n>> \in accepted
    BY <1>1, <1>5
  <2>. QED
    BY <1>2, <1>3, <2>1, SeenKept
<1>. QED
  BY <1>4, <1>5

\* The tasks of one source leave the others alone.
LEMMA TaskOthers ==
    ASSUME TypeOK, Order, GoneForGood, Flight, NEW s \in Sources,
           (s \in Conns /\ DeliveryStep(s)) \/ (s \in Datagrams /\ DatagramStep(s))
    PROVE  /\ UNCHANGED <<queue, receivers, token, accepted, seen>>
           /\ \A k \in Sources \ {s} : task'[k] = task[k] /\ cur'[k] = cur[k] /\ attempt'[k] = attempt[k]
BY TaskSteps, SMTT(30)

\* What the block has seen of every source, through every step.
LEMMA SeenNext == IInv /\ HandlerInv /\ Seen /\ [Next]_vars => Seen'
<1>. SUFFICES ASSUME TypeOK, Order, GoneForGood, Flight, Verdicts, Seen, [Next]_vars, receivers'
              PROVE  \A q \in Sources : SeenAt(q)'
  BY DEF IInv, HandlerInv, Seen
<1>1. ASSUME NEW s \in Sources,
             (s \in Conns /\ DeliveryStep(s)) \/ (s \in Datagrams /\ DatagramStep(s)),
             NEW q \in Sources
      PROVE  SeenAt(q)'
  <2>1. /\ UNCHANGED <<queue, receivers, token, accepted, seen>>
        /\ \A k \in Sources \ {s} : task'[k] = task[k] /\ cur'[k] = cur[k] /\ attempt'[k] = attempt[k]
    BY <1>1, TaskOthers
  <2>2. receivers /\ SeenAt(q) /\ SeenAt(s)
    BY <2>1 DEF Seen
  <2>3. CASE q = s
    BY <1>1, <2>2, <2>3, DeliverySeen, DatagramSeen
  <2>4. CASE q # s
    <3>1. q \in Conns => Received(q)' = Received(q)
      <4>1. ASSUME q \in Conns PROVE UNCHANGED <<reader, framed>> /\ chan'[q] = chan[q]
        <5>1. CASE s \in Conns /\ DeliveryStep(s)
          <6>1. UNCHANGED <<reader, framed>> /\ (chan' = chan \/ chan' = [chan EXCEPT ![s] = Tail(@)])
            BY <5>1 DEF DeliveryStep, Receive, ReceiveWithoutWorkers, DeliveryEnds, StreamAccepted,
               StreamRefused, StreamGivesUp, Retry, StreamUnavailable, connVars
          <6>. QED
            BY <2>4, <4>1, <6>1, StateTypes
        <5>2. CASE s \in Datagrams /\ DatagramStep(s)
          BY <5>2 DEF DatagramStep, DatagramTruncated, DatagramWithoutCredit, DatagramReceived,
             DatagramAccepted, DatagramRefused, DatagramUnavailable, connVars
        <5>. QED
          BY <1>1, <5>1, <5>2
      <4>. QED
        BY <4>1 DEF Received
    <3>2. InQueue(q)' <=> InQueue(q)
      BY <2>1 DEF InQueue
    <3>. QED
      BY <2>1, <2>2, <2>4, <3>1, <3>2, SeenKept
  <2>. QED
    BY <2>3, <2>4
<1>2. ASSUME \/ \E c \in Conns : ReaderStep(c)
             \/ \E w \in Workers : StartWorker(w)
             \/ \E l \in {"stream", "datagram"} : ListenerStops(l)
             \/ StopStep /\ ~ReplaceReceiver
             \/ UNCHANGED vars,
             NEW q \in Sources
      PROVE  SeenAt(q)'
  <2>1. /\ UNCHANGED <<task, cur, attempt, queue, receivers, accepted, seen>> /\ (token => token')
        /\ UNCHANGED <<reader, framed, chan>> \/ \E c \in Conns : ReaderStep(c)
    BY <1>2, QuietSteps
  <2>2. SeenAt(q)
    BY <2>1 DEF Seen
  <2>3. q \in Conns => Received(q)' = Received(q)
    <3>1. CASE UNCHANGED <<reader, framed, chan>>
      BY <3>1 DEF Received
    <3>. QED
      BY <2>1, <3>1, ReaderKeepsReceived
  <2>4. InQueue(q)' <=> InQueue(q)
    BY <2>1 DEF InQueue
  <2>. QED
    BY <2>1, <2>2, <2>3, <2>4, SeenKept
<1>3. ASSUME NEW s \in Sources, Offer(s) PROVE receivers
  BY <1>3 DEF Offer
<1>4. ASSUME NEW w \in Workers, TakeDelivery(w) \/ CallBlock(w) PROVE receivers
  BY <1>4 DEF TakeDelivery, CallBlock
<1>5. ~ReplaceReceiver
  BY DEF ReplaceReceiver
<1>6. ASSUME NEW s \in Sources, Offer(s), NEW q \in Sources PROVE SeenAt(q)'
  BY <1>3, <1>6, OfferSeen DEF Seen
<1>7. ASSUME NEW w \in Workers, TakeDelivery(w), NEW q \in Sources PROVE SeenAt(q)'
  BY <1>4, <1>7, TakeSeen DEF Seen
<1>8. ASSUME NEW w \in Workers, CallBlock(w), NEW q \in Sources PROVE SeenAt(q)'
  BY <1>4, <1>8, CallSeen DEF Seen
<1>. QED
  BY <1>1, <1>2, <1>5, <1>6, <1>7, <1>8, StepKinds

\* The block sees the messages of a connection in order and one at a time, each
\* until it says yes or the server stops, and a datagram once, for any number
\* of workers taking turns.
THEOREM HandledInOrder == Spec => HandlerOrder
<1>1. Init => Seen
  <2>. SUFFICES ASSUME Init, NEW s \in Sources PROVE SeenAt(s)
    BY DEF Seen
  <2>1. /\ attempt[s] = 1 /\ task[s] = "idle" /\ seen[s] = <<0, 0>> /\ DOMAIN queue = {}
    BY SMTT(30) DEF Init
  <2>2. seen[s][1] = 0 /\ ~InQueue(s)
    BY <2>1, SMTT(30) DEF InQueue
  <2>3. s \in Conns => Received(s) = 0
    <3>1. ASSUME s \in Conns PROVE framed[s] = 0 /\ reader[s] = "new" /\ chan[s] = <<>>
      BY <3>1 DEF Init
    <3>2. Len(<<>>) = 0
      OBVIOUS
    <3>. QED
      BY <3>1, <3>2, SMTT(30) DEF Received
  <2>. QED
    BY <2>1, <2>2, <2>3, SMTT(30) DEF SeenAt
<1>2. ASSUME IInv, HandlerInv, Seen, [Next]_vars, NEW w \in Workers, hand[w] = <<>>, hand'[w] # <<>>
      PROVE  LET d == Head(hand'[w])
                 last == seen[d.src]
             IN \/ /\ d.src \in Conns /\ last[1] > 0
                   /\ d.frame = last[1] /\ d.attempt = last[2] + 1
                   /\ <<d.src, last[1]>> \notin accepted
                \/ /\ d.frame = last[1] + 1 /\ d.attempt = 1
                   /\ last[1] = 0 \/ <<d.src, last[1]>> \in accepted \/ token
  <2>0. TypeOK /\ Order /\ Flight /\ GoneForGood
    BY <1>2 DEF IInv, HandlerInv
  <2>1. TakeDelivery(w)
    <3>1. ASSUME UNCHANGED hand PROVE FALSE
      BY <1>2, <3>1
    <3>2. ASSUME NEW v \in Workers, CallBlock(v) PROVE FALSE
      <4>1. hand' = [hand EXCEPT ![v] = <<>>]
        BY <3>2 DEF CallBlock
      <4>. QED
        BY <1>2, <2>0, <4>1, StateTypes
    <3>3. ASSUME NEW v \in Workers, v # w, TakeDelivery(v) PROVE FALSE
      <4>1. hand'[w] = hand[w]
        BY <2>0, <3>3, TakePlaces
      <4>. QED
        BY <1>2, <4>1
    <3>4. ASSUME NEW s \in Sources, Offer(s) PROVE FALSE
      BY <3>1, <3>4 DEF Offer
    <3>5. ~ReplaceReceiver
      BY <3>1 DEF ReplaceReceiver
    <3>. QED
      BY <1>2, <2>0, <3>1, <3>2, <3>3, <3>4, <3>5, StepKinds, QuietSteps, TaskSteps
  <2>. DEFINE d == Head(queue)
  <2>2. d \in Delivery /\ Current(d) /\ InQueue(d.src) /\ hand'[w] = <<d>> /\ queue # <<>>
    <3>1. queue # <<>>
      BY <2>1 DEF TakeDelivery
    <3>2. d \in Delivery /\ Current(d) /\ InQueue(d.src) /\ hand'[w] = <<d>>
      BY <2>0, <2>1, TakePlaces
    <3>. QED
      BY <3>1, <3>2
  <2>3. Head(hand'[w]) = d
    BY <2>2, SMTT(30)
  <2>. HIDE DEF d
  <2>4. PICK s \in Sources : s = d.src
    BY <2>2 DEF Delivery
  <2>5. d.frame = cur[s] /\ d.attempt = attempt[s] /\ task[s] = "await"
    BY <2>2, <2>4 DEF Current
  <2>6. receivers /\ Fresh(s) /\ attempt[s] >= 1
    <3>1. receivers
      BY <2>0, <2>2 DEF GoneForGood
    <3>. QED
      BY <1>2, <2>2, <2>4, <3>1 DEF Seen, SeenAt
  <2>7. cur[s] \in Nat /\ attempt[s] \in Nat /\ cur[s] >= 1
    <3>1. Message(s) \in Messages /\ cur[s] \in Nat /\ attempt[s] \in Nat
      BY <2>0, <2>5, InHandHeld, StateTypes
    <3>2. Message(s)[2] = cur[s]
      BY DEF Message
    <3>3. \A m \in Messages : m[2] >= 1
      BY LimitsAssumption, SMTT(30) DEF Messages
    <3>. QED
      BY <3>1, <3>2, <3>3
  <2>8. CASE attempt[s] = 1
    <3>1. seen[s][1] = cur[s] - 1 /\ (cur[s] = 1 \/ <<s, cur[s] - 1>> \in accepted \/ token)
      BY <2>6, <2>8 DEF Fresh
    <3>2. cur[s] = seen[s][1] + 1 /\ (cur[s] = 1 => seen[s][1] = 0)
      BY <2>7, <3>1, SMTT(30)
    <3>3. seen[s][1] = 0 \/ <<s, seen[s][1]>> \in accepted \/ token
      BY <3>1, <3>2
    <3>. QED
      BY <2>3, <2>4, <2>5, <2>8, <3>2, <3>3
  <2>9. CASE attempt[s] # 1
    <3>1. s \in Conns /\ seen[s] = <<cur[s], attempt[s] - 1>> /\ Message(s) \notin accepted
      BY <2>6, <2>9 DEF Fresh
    <3>2. seen[s][1] = cur[s] /\ seen[s][2] = attempt[s] - 1
      BY <3>1, SMTT(30)
    <3>3. attempt[s] = seen[s][2] + 1 /\ seen[s][1] > 0
      BY <2>7, <3>2, SMTT(30)
    <3>4. <<s, seen[s][1]>> \notin accepted
      BY <3>1, <3>2 DEF Message
    <3>. QED
      BY <2>3, <2>4, <2>5, <3>1, <3>2, <3>3, <3>4
  <2>. QED
    BY <2>8, <2>9
<1>3. ASSUME IInv, HandlerInv, Seen, [Next]_vars
      PROVE  [\A w \in Workers : (hand[w] = <<>> /\ hand'[w] # <<>>) =>
               LET d == Head(hand'[w])
                   last == seen[d.src]
               IN \/ /\ d.src \in Conns /\ last[1] > 0
                     /\ d.frame = last[1] /\ d.attempt = last[2] + 1
                     /\ <<d.src, last[1]>> \notin accepted
                  \/ /\ d.frame = last[1] + 1 /\ d.attempt = 1
                     /\ last[1] = 0 \/ <<d.src, last[1]>> \in accepted \/ token]_vars
  BY <1>2, <1>3
<1>. QED
  BY <1>1, <1>3, SeenNext, HandlerInvariant, PTL DEF Spec, HandlerOrder
=============================================================================
