------------------------ MODULE SyslogDeliveryOrder -------------------------
(***************************************************************************)
(* The types of SyslogDelivery and the order of a connection's messages,   *)
(* for any number of connections, datagrams and workers and any limits.    *)
(*                                                                         *)
(* Order: the messages of a connection lie in consecutive segments.        *)
(* Numbered 1, 2, 3, ... as they are framed, the first Settled(c) are      *)
(* settled, the next one is with the delivery task if that is busy, then   *)
(* come those in the channel and at last the one that waits in             *)
(* pending_tx.send.                                                        *)
(***************************************************************************)
EXTENDS SyslogDelivery, TLAPS

\* Zenon proves a leaf that names no other prover.
USE ZenonT(30)

Busy(s) == task[s] \in {"offer", "await", "backoff"}

\* Messages of c handed to its delivery task so far.
Received(c) == framed[c] - (IF reader[c] = "send" THEN 1 ELSE 0) - Len(chan[c])

\* Messages of c that are admitted or abandoned.
Settled(c) == Received(c) - (IF Busy(c) THEN 1 ELSE 0)

ChannelInOrder(c) == \A i \in 1..Len(chan[c]) : chan[c][i] = Received(c) + i

FatesInOrder(c) ==
    \A n \in 1..MaxOutcomes :
        /\ n <= Settled(c) => fate[<<c, n>>] \in {"admitted", "abandoned"}
        /\ Settled(c) < n /\ n <= framed[c] => fate[<<c, n>>] = "held"
        /\ framed[c] < n => fate[<<c, n>>] = "none"

ConnOrder(c) ==
    /\ framed[c] + Len(buffer[c]) <= sent[c]
    /\ 0 <= Settled(c)
    /\ ChannelInOrder(c)
    /\ Busy(c) => cur[c] = Received(c)
    /\ FatesInOrder(c)

DatagramOrder(d) ==
    /\ task[d] # "backoff"
    /\ cur[d] = 1
    /\ task[d] = "idle" => fate[<<d, 1>>] = "none"
    /\ task[d] \in {"offer", "await"} <=> fate[<<d, 1>>] = "held"

Order == (\A c \in Conns : ConnOrder(c)) /\ (\A d \in Datagrams : DatagramOrder(d))

-----------------------------------------------------------------------------
(* Sequences *)

\* What taking the head of a sequence leaves.
LEMMA Taken ==
    ASSUME NEW S, NEW q \in Seq(S), q # <<>>
    PROVE  /\ Len(q) \in Nat /\ Len(q) >= 1 /\ Len(Tail(q)) = Len(q) - 1
           /\ Head(q) = q[1] /\ q[1] \in S
           /\ \A i \in 1..Len(Tail(q)) : Tail(q)[i] = q[i + 1]
<1>1. Len(q) \in Nat /\ Len(q) >= 1
  BY SMTT(30)
<1>2. Len(Tail(q)) = Len(q) - 1 /\ \A i \in 1..Len(Tail(q)) : Tail(q)[i] = q[i + 1]
  BY <1>1, SMTT(30)
<1>3. Head(q) = q[1] /\ q[1] \in S
  BY <1>1, SMTT(30)
<1>. QED
  BY <1>1, <1>2, <1>3

\* What appending to a sequence adds.
LEMMA Appended ==
    ASSUME NEW S, NEW q \in Seq(S), NEW x
    PROVE  /\ Len(q) \in Nat /\ Len(Append(q, x)) = Len(q) + 1
           /\ Append(q, x)[Len(q) + 1] = x
           /\ \A i \in 1..Len(q) : Append(q, x)[i] = q[i]
BY SMTT(30)

-----------------------------------------------------------------------------
(* The counters *)

\* Counting one event adds one to its counter and leaves the others alone.
LEMMA CountStats ==
    ASSUME NEW st \in [Counters -> Nat], NEW k \in Counters
    PROVE  /\ Count(st, k) \in [Counters -> Nat]
           /\ Count(st, k)[k] = st[k] + 1
           /\ \A j \in Counters \ {k} : Count(st, k)[j] = st[j]
BY SMTT(30) DEF Count

\* Releasing takes one off the gauge unless it is zero.
LEMMA ReleaseStats ==
    ASSUME NEW st \in [Counters -> Nat]
    PROVE  /\ ReleasePending(st) \in [Counters -> Nat]
           /\ ReleasePending(st)["pending"] = IF st["pending"] = 0 THEN 0 ELSE st["pending"] - 1
           /\ \A j \in Counters \ {"pending"} : ReleasePending(st)[j] = st[j]
BY SMTT(30) DEF ReleasePending, Counters

\* Abandoning counts the message and releases it.
LEMMA AbandonStats ==
    ASSUME NEW st \in [Counters -> Nat]
    PROVE  /\ AbandonPending(st) \in [Counters -> Nat]
           /\ AbandonPending(st)["abandoned_at_shutdown"] = st["abandoned_at_shutdown"] + 1
           /\ AbandonPending(st)["pending"] = IF st["pending"] = 0 THEN 0 ELSE st["pending"] - 1
           /\ \A j \in Counters \ {"pending", "abandoned_at_shutdown"} : AbandonPending(st)[j] = st[j]
<1>1. "abandoned_at_shutdown" \in Counters /\ "pending" \in Counters
  BY DEF Counters
<1>. QED
  BY <1>1, CountStats, ReleaseStats, SMTT(30) DEF AbandonPending

\* A verdict is counted once, and only acceptance as a delivery.
LEMMA ResultStats ==
    ASSUME NEW st \in [Counters -> Nat], NEW r \in HandlerResult
    PROVE  /\ CountResult(st, r) \in [Counters -> Nat]
           /\ CountResult(st, r)["messages_delivered"]
                = st["messages_delivered"] + (IF r = "Accepted" THEN 1 ELSE 0)
           /\ \A j \in {"pending", "abandoned_at_shutdown", "udp_dropped"} :
                CountResult(st, r)[j] = st[j]
<1>1. /\ "messages_delivered" \in Counters /\ "deliveries_refused" \in Counters
      /\ "handler_errors" \in Counters /\ "pending" \in Counters
      /\ "abandoned_at_shutdown" \in Counters /\ "udp_dropped" \in Counters
  BY DEF Counters
<1>2. CASE r = "Accepted"
  <2>1. CountResult(st, r) = Count(st, "messages_delivered")
    BY <1>2 DEF CountResult
  <2>2. /\ Count(st, "messages_delivered") \in [Counters -> Nat]
        /\ Count(st, "messages_delivered")["messages_delivered"] = st["messages_delivered"] + 1
        /\ \A j \in Counters \ {"messages_delivered"} : Count(st, "messages_delivered")[j] = st[j]
    BY <1>1, CountStats
  <2>. QED
    BY <1>1, <1>2, <2>1, <2>2
<1>3. CASE r = "Refused"
  <2>1. CountResult(st, r) = Count(st, "deliveries_refused")
    BY <1>3 DEF CountResult
  <2>2. /\ Count(st, "deliveries_refused") \in [Counters -> Nat]
        /\ \A j \in Counters \ {"deliveries_refused"} : Count(st, "deliveries_refused")[j] = st[j]
    BY <1>1, CountStats
  <2>. QED
    BY <1>1, <1>3, <2>1, <2>2, SMTT(30)
<1>4. CASE r = "Failed"
  <2>1. CountResult(st, r) = Count(st, "handler_errors")
    BY <1>4 DEF CountResult
  <2>2. /\ Count(st, "handler_errors") \in [Counters -> Nat]
        /\ \A j \in Counters \ {"handler_errors"} : Count(st, "handler_errors")[j] = st[j]
    BY <1>1, CountStats
  <2>. QED
    BY <1>1, <1>4, <2>1, <2>2, SMTT(30)
<1>. QED
  BY <1>2, <1>3, <1>4 DEF HandlerResult

-----------------------------------------------------------------------------
(* Types *)

\* The types, one by one.
LEMMA StateTypes ==
    ASSUME TypeOK
    PROVE  /\ reader \in [Conns -> {"new", "proxy", "read", "send", "closing", "done", "refused"}]
           /\ buffer \in [Conns -> Seq(Outcomes)]
           /\ sent \in [Conns -> 0..MaxOutcomes]
           /\ framed \in [Conns -> 0..MaxOutcomes]
           /\ chan \in [Conns -> Seq(1..MaxOutcomes)]
           /\ connections \in Int
           /\ task \in [Sources -> {"idle", "offer", "await", "backoff", "done"}]
           /\ cur \in [Sources -> Nat]
           /\ attempt \in [Sources -> Nat]
           /\ gone \in [Conns -> BOOLEAN]
           /\ result \in [Sources -> HandlerResult \cup {"none", "discarded"}]
           /\ queue \in Seq(Delivery)
           /\ receivers \in BOOLEAN
           /\ running \subseteq Workers
           /\ hand \in [Workers -> Seq(Delivery)]
           /\ listeners \subseteq {"stream", "datagram"}
           /\ token \in BOOLEAN
           /\ phase \in {"serving", "draining", "recording", "returned", "dropped"}
           /\ swapped \in Nat
           /\ timedOut \in BOOLEAN
           /\ fate \in [Messages -> {"none", "held", "admitted", "abandoned", "dropped"}]
           /\ credits \in Int
           /\ stats \in [Counters -> Nat]
           /\ accepted \subseteq Sources \X Nat
           /\ seen \in [Sources -> Nat \X Nat]
BY DEF TypeOK

\* Init establishes the types.
LEMMA TypeInit == Init => TypeOK
<1>. SUFFICES ASSUME Init PROVE TypeOK
  OBVIOUS
<1>. USE LimitsAssumption DEF Init
<1>1. /\ reader \in [Conns -> {"new", "proxy", "read", "send", "closing", "done", "refused"}]
      /\ buffer \in [Conns -> Seq(Outcomes)] /\ chan \in [Conns -> Seq(1..MaxOutcomes)]
      /\ sent \in [Conns -> 0..MaxOutcomes] /\ framed \in [Conns -> 0..MaxOutcomes]
  BY SMTT(30)
<1>2. /\ task \in [Sources -> {"idle", "offer", "await", "backoff", "done"}]
      /\ cur \in [Sources -> Nat] /\ attempt \in [Sources -> Nat] /\ gone \in [Conns -> BOOLEAN]
      /\ result \in [Sources -> HandlerResult \cup {"none", "discarded"}]
      /\ seen \in [Sources -> Nat \X Nat]
  OBVIOUS
<1>3. /\ queue \in Seq(Delivery) /\ hand \in [Workers -> Seq(Delivery)]
      /\ fate \in [Messages -> {"none", "held", "admitted", "abandoned", "dropped"}]
      /\ stats \in [Counters -> Nat]
  BY SMTT(30)
<1>4. connections \in Int /\ swapped \in Nat /\ credits \in Int
  BY SMTT(30)
<1>5. /\ receivers \in BOOLEAN /\ token \in BOOLEAN /\ timedOut \in BOOLEAN
      /\ phase \in {"serving", "draining", "recording", "returned", "dropped"}
  OBVIOUS
<1>6. /\ running \subseteq Workers /\ accepted \subseteq Sources \X Nat
      /\ listeners \subseteq {"stream", "datagram"}
  OBVIOUS
<1>. QED
  BY <1>1, <1>2, <1>3, <1>4, <1>5, <1>6 DEF TypeOK

\* Every step keeps the types; that a connection frames at most as many messages
\* as its peer has sent comes from Order.
LEMMA TypeNext == TypeOK /\ Order /\ [Next]_vars => TypeOK'
<1>. SUFFICES ASSUME TypeOK, Order, [Next]_vars PROVE TypeOK'
  OBVIOUS
<1>. USE LimitsAssumption, ChunksAssumption
     DEF TypeOK, connVars, taskVars, workVars, stopVars, blockVars, Sources
<1>a. /\ "connections_opened" \in Counters /\ "connections_closed" \in Counters
      /\ "connections_refused" \in Counters /\ "proxy_errors" \in Counters
      /\ "frames_rejected" \in Counters /\ "udp_truncated" \in Counters
      /\ "udp_dropped" \in Counters /\ "pending" \in Counters
      /\ "abandoned_at_shutdown" \in Counters
  BY DEF Counters
<1>b. "Accepted" \in HandlerResult /\ "Refused" \in HandlerResult /\ "Failed" \in HandlerResult
  BY DEF HandlerResult
<1>c. credits + 1 \in Int /\ credits - 1 \in Int
  BY SMTT(30)
<1>1. ASSUME NEW c \in Conns, Accept(c) PROVE TypeOK'
  <2>1. stats' \in [Counters -> Nat]
    BY <1>1, <1>a, CountStats DEF Accept
  <2>2. reader' \in [Conns -> {"new", "proxy", "read", "send", "closing", "done", "refused"}]
    BY <1>1, SwitchesAssumption DEF Accept
  <2>3. connections' \in Int
    BY <1>1, SMTT(30) DEF Accept
  <2>. QED
    BY <1>1, <2>1, <2>2, <2>3 DEF Accept
<1>2. ASSUME NEW c \in Conns, RefuseConnection(c) PROVE TypeOK'
  <2>1. stats' \in [Counters -> Nat]
    BY <1>2, <1>a, CountStats DEF RefuseConnection
  <2>2. reader' \in [Conns -> {"new", "proxy", "read", "send", "closing", "done", "refused"}]
    BY <1>2 DEF RefuseConnection
  <2>. QED
    BY <1>2, <2>1, <2>2 DEF RefuseConnection
<1>3. ASSUME NEW c \in Conns, ProxyHeaderComplete(c) PROVE TypeOK'
  <2>1. sent' \in [Conns -> 0..MaxOutcomes]
    BY <1>3, SMTT(30) DEF ProxyHeaderComplete
  <2>2. buffer' \in [Conns -> Seq(Outcomes)]
    <3>1. PICK rest \in Chunks \cup {<<>>} : buffer' = [buffer EXCEPT ![c] = rest]
      BY <1>3 DEF ProxyHeaderComplete
    <3>2. <<>> \in Seq(Outcomes)
      BY SMTT(30)
    <3>3. rest \in Seq(Outcomes)
      BY <3>2
    <3>. QED
      BY <3>1, <3>3
  <2>3. reader' \in [Conns -> {"new", "proxy", "read", "send", "closing", "done", "refused"}]
    BY <1>3 DEF ProxyHeaderComplete
  <2>. QED
    BY <1>3, <2>1, <2>2, <2>3 DEF ProxyHeaderComplete
<1>4. ASSUME NEW c \in Conns, ProxyHeaderFails(c) PROVE TypeOK'
  <2>1. stats' \in [Counters -> Nat]
    BY <1>4, <1>a, CountStats DEF ProxyHeaderFails
  <2>2. reader' \in [Conns -> {"new", "proxy", "read", "send", "closing", "done", "refused"}]
    BY <1>4 DEF ProxyHeaderFails
  <2>3. connections' \in Int
    BY <1>4, SMTT(30) DEF ProxyHeaderFails
  <2>. QED
    BY <1>4, <2>1, <2>2, <2>3 DEF ProxyHeaderFails
<1>5. ASSUME NEW c \in Conns, RejectFrame(c) PROVE TypeOK'
  <2>1. stats' \in [Counters -> Nat]
    BY <1>5, <1>a, CountStats DEF RejectFrame
  <2>2. reader' \in [Conns -> {"new", "proxy", "read", "send", "closing", "done", "refused"}]
    BY <1>5 DEF RejectFrame
  <2>3. buffer' \in [Conns -> Seq(Outcomes)]
    BY <1>5, SMTT(30) DEF RejectFrame
  <2>. QED
    BY <1>5, <2>1, <2>2, <2>3 DEF RejectFrame
<1>6. ASSUME NEW c \in Conns, FrameMessage(c) PROVE TypeOK'
  <2>1. stats' \in [Counters -> Nat]
    BY <1>6, <1>a, CountStats DEF FrameMessage
  <2>2. reader' \in [Conns -> {"new", "proxy", "read", "send", "closing", "done", "refused"}]
    BY <1>6 DEF FrameMessage
  <2>3. buffer' \in [Conns -> Seq(Outcomes)]
    BY <1>6, SMTT(30) DEF FrameMessage, Waiting
  <2>4. framed' \in [Conns -> 0..MaxOutcomes]
    <3>1. framed[c] + Len(buffer[c]) <= sent[c]
      BY DEF Order, ConnOrder
    <3>2. Len(buffer[c]) >= 1 /\ framed' = [framed EXCEPT ![c] = @ + 1]
      BY <1>6, SMTT(30) DEF FrameMessage, Waiting
    <3>3. framed[c] + 1 \in 0..MaxOutcomes
      BY <3>1, <3>2, SMTT(30)
    <3>. QED
      BY <3>2, <3>3
  <2>5. fate' \in [Messages -> {"none", "held", "admitted", "abandoned", "dropped"}]
    BY <1>6 DEF FrameMessage, Messages
  <2>. QED
    BY <1>6, <1>c, <2>1, <2>2, <2>3, <2>4, <2>5 DEF FrameMessage
<1>7. ASSUME NEW c \in Conns, SendPending(c) PROVE TypeOK'
  <2>1. reader' \in [Conns -> {"new", "proxy", "read", "send", "closing", "done", "refused"}]
    BY <1>7 DEF SendPending
  <2>2. chan' \in [Conns -> Seq(1..MaxOutcomes)]
    <3>1. 0 <= Settled(c) /\ Len(chan[c]) \in Nat /\ framed[c] \in 0..MaxOutcomes
      BY SMTT(30) DEF Order, ConnOrder
    <3>2. reader[c] = "send"
      BY <1>7 DEF SendPending
    <3>3. framed[c] \in 1..MaxOutcomes
      <4>. HIDE DEF TypeOK
      <4>1. Received(c) = framed[c] - 1 - Len(chan[c])
        BY <3>2 DEF Received
      <4>2. Received(c) \in Int /\ Received(c) <= framed[c] - 1
        BY <3>1, <4>1, SMTT(30)
      <4>3. Settled(c) <= Received(c)
        BY <4>2, SMTT(30) DEF Settled
      <4>. QED
        BY <3>1, <4>2, <4>3, SMTT(30) DEF Settled
    <3>. QED
      BY <1>7, <3>3, SMTT(30) DEF SendPending
  <2>. QED
    BY <1>7, <2>1, <2>2 DEF SendPending
<1>8. ASSUME NEW c \in Conns, Read(c) PROVE TypeOK'
  <2>1. sent' \in [Conns -> 0..MaxOutcomes]
    BY <1>8, SMTT(30) DEF Read
  <2>2. buffer' \in [Conns -> Seq(Outcomes)]
    BY <1>8, SMTT(30) DEF Read
  <2>. QED
    BY <1>8, <2>1, <2>2 DEF Read
<1>9. ASSUME NEW c \in Conns, StopReading(c) PROVE TypeOK'
  <2>1. reader' \in [Conns -> {"new", "proxy", "read", "send", "closing", "done", "refused"}]
    BY <1>9 DEF StopReading
  <2>. QED
    BY <1>9, <2>1 DEF StopReading
<1>10. ASSUME NEW c \in Conns, EndOfStream(c) PROVE TypeOK'
  <2>1. reader' \in [Conns -> {"new", "proxy", "read", "send", "closing", "done", "refused"}]
    BY <1>10 DEF EndOfStream
  <2>2. buffer' \in [Conns -> Seq(Outcomes)]
    BY <1>10, SMTT(30) DEF EndOfStream
  <2>. QED
    BY <1>10, <2>1, <2>2 DEF EndOfStream
<1>11. ASSUME NEW c \in Conns, CloseStream(c) PROVE TypeOK'
  <2>1. stats' \in [Counters -> Nat]
    BY <1>11, <1>a, CountStats DEF CloseStream
  <2>2. reader' \in [Conns -> {"new", "proxy", "read", "send", "closing", "done", "refused"}]
    BY <1>11 DEF CloseStream
  <2>3. connections' \in Int
    BY <1>11, SMTT(30) DEF CloseStream
  <2>. QED
    BY <1>11, <2>1, <2>2, <2>3 DEF CloseStream
<1>12. ASSUME NEW c \in Conns, Receive(c) PROVE TypeOK'
  <2>1. chan' \in [Conns -> Seq(1..MaxOutcomes)]
    BY <1>12, SMTT(30) DEF Receive
  <2>2. cur' \in [Sources -> Nat]
    <3>1. Head(chan[c]) \in Nat
      <4>1. chan[c] \in Seq(1..MaxOutcomes) /\ chan[c] # <<>>
        BY <1>12 DEF Receive
      <4>. HIDE DEF TypeOK
      <4>2. Head(chan[c]) \in 1..MaxOutcomes
        BY <4>1, Taken, SMTT(30)
      <4>. QED
        BY <4>2, LimitsAssumption, SMTT(30)
    <3>. QED
      BY <1>12, <3>1 DEF Receive
  <2>3. attempt' \in [Sources -> Nat]
    BY <1>12 DEF Receive
  <2>4. task' \in [Sources -> {"idle", "offer", "await", "backoff", "done"}]
    BY <1>12 DEF Receive
  <2>. QED
    BY <1>12, <2>1, <2>2, <2>3, <2>4 DEF Receive
<1>13. ASSUME NEW c \in Conns, ReceiveWithoutWorkers(c) PROVE TypeOK'
  <2>1. chan' \in [Conns -> Seq(1..MaxOutcomes)]
    BY <1>13, SMTT(30) DEF ReceiveWithoutWorkers
  <2>2. fate' \in [Messages -> {"none", "held", "admitted", "abandoned", "dropped"}]
    BY <1>13 DEF ReceiveWithoutWorkers, Messages
  <2>3. stats' \in [Counters -> Nat]
    BY <1>13, AbandonStats DEF ReceiveWithoutWorkers
  <2>. QED
    BY <1>13, <1>c, <2>1, <2>2, <2>3 DEF ReceiveWithoutWorkers
<1>14. ASSUME NEW c \in Conns, DeliveryEnds(c) PROVE TypeOK'
  <2>1. task' \in [Sources -> {"idle", "offer", "await", "backoff", "done"}]
    BY <1>14 DEF DeliveryEnds
  <2>. QED
    BY <1>14, <2>1 DEF DeliveryEnds
<1>15. ASSUME NEW c \in Conns, StreamAccepted(c) PROVE TypeOK'
  <2>1. stats' \in [Counters -> Nat]
    BY <1>15, <1>b, ResultStats, ReleaseStats DEF StreamAccepted
  <2>2. fate' \in [Messages -> {"none", "held", "admitted", "abandoned", "dropped"}]
    BY <1>15 DEF StreamAccepted, Messages, Message, Order, ConnOrder, Settled, Received, Busy, Answered, Unavailable
  <2>3. task' \in [Sources -> {"idle", "offer", "await", "backoff", "done"}]
    BY <1>15 DEF StreamAccepted
  <2>4. result' \in [Sources -> HandlerResult \cup {"none", "discarded"}]
    BY <1>15 DEF StreamAccepted
  <2>. QED
    BY <1>15, <1>c, <2>1, <2>2, <2>3, <2>4 DEF StreamAccepted
<1>16. ASSUME NEW c \in Conns, StreamRefused(c) PROVE TypeOK'
  <2>1. stats' \in [Counters -> Nat]
    BY <1>16, <1>b, ResultStats DEF StreamRefused, Answered
  <2>2. task' \in [Sources -> {"idle", "offer", "await", "backoff", "done"}]
    BY <1>16 DEF StreamRefused
  <2>3. result' \in [Sources -> HandlerResult \cup {"none", "discarded"}]
    BY <1>16 DEF StreamRefused
  <2>. QED
    BY <1>16, <2>1, <2>2, <2>3 DEF StreamRefused
<1>17. ASSUME NEW c \in Conns, StreamGivesUp(c) PROVE TypeOK'
  <2>1. stats' \in [Counters -> Nat]
    BY <1>17, <1>b, ResultStats, AbandonStats DEF StreamGivesUp, Answered
  <2>2. fate' \in [Messages -> {"none", "held", "admitted", "abandoned", "dropped"}]
    BY <1>17 DEF StreamGivesUp, Messages, Message, Order, ConnOrder, Settled, Received, Busy, Answered, Unavailable
  <2>3. task' \in [Sources -> {"idle", "offer", "await", "backoff", "done"}]
    BY <1>17 DEF StreamGivesUp
  <2>4. result' \in [Sources -> HandlerResult \cup {"none", "discarded"}]
    BY <1>17 DEF StreamGivesUp
  <2>. QED
    BY <1>17, <1>c, <2>1, <2>2, <2>3, <2>4 DEF StreamGivesUp
<1>18. ASSUME NEW c \in Conns, Retry(c) PROVE TypeOK'
  <2>1. attempt' \in [Sources -> Nat]
    BY <1>18, SMTT(30) DEF Retry
  <2>2. task' \in [Sources -> {"idle", "offer", "await", "backoff", "done"}]
    BY <1>18 DEF Retry
  <2>. QED
    BY <1>18, <2>1, <2>2 DEF Retry
<1>19. ASSUME NEW c \in Conns, StreamUnavailable(c) PROVE TypeOK'
  <2>1. stats' \in [Counters -> Nat]
    BY <1>19, AbandonStats DEF StreamUnavailable
  <2>2. fate' \in [Messages -> {"none", "held", "admitted", "abandoned", "dropped"}]
    BY <1>19 DEF StreamUnavailable, Messages, Message, Order, ConnOrder, Settled, Received, Busy, Answered, Unavailable
  <2>3. gone' \in [Conns -> BOOLEAN]
    BY <1>19 DEF StreamUnavailable
  <2>4. task' \in [Sources -> {"idle", "offer", "await", "backoff", "done"}]
    BY <1>19 DEF StreamUnavailable
  <2>5. result' \in [Sources -> HandlerResult \cup {"none", "discarded"}]
    BY <1>19 DEF StreamUnavailable
  <2>. QED
    BY <1>19, <1>c, <2>1, <2>2, <2>3, <2>4, <2>5 DEF StreamUnavailable
<1>20. ASSUME NEW d \in Datagrams, DatagramTruncated(d) PROVE TypeOK'
  <2>1. stats' \in [Counters -> Nat]
    BY <1>20, <1>a, CountStats DEF DatagramTruncated
  <2>2. task' \in [Sources -> {"idle", "offer", "await", "backoff", "done"}]
    BY <1>20 DEF DatagramTruncated
  <2>. QED
    BY <1>20, <2>1, <2>2 DEF DatagramTruncated
<1>21. ASSUME NEW d \in Datagrams, DatagramWithoutCredit(d) PROVE TypeOK'
  <2>1. stats' \in [Counters -> Nat]
    BY <1>21, <1>a, CountStats DEF DatagramWithoutCredit
  <2>2. task' \in [Sources -> {"idle", "offer", "await", "backoff", "done"}]
    BY <1>21 DEF DatagramWithoutCredit
  <2>3. fate' \in [Messages -> {"none", "held", "admitted", "abandoned", "dropped"}]
    BY <1>21 DEF DatagramWithoutCredit, Messages
  <2>. QED
    BY <1>21, <2>1, <2>2, <2>3 DEF DatagramWithoutCredit
<1>22. ASSUME NEW d \in Datagrams, DatagramReceived(d) PROVE TypeOK'
  <2>1. stats' \in [Counters -> Nat]
    BY <1>22, <1>a, CountStats DEF DatagramReceived
  <2>2. task' \in [Sources -> {"idle", "offer", "await", "backoff", "done"}]
    BY <1>22 DEF DatagramReceived
  <2>3. fate' \in [Messages -> {"none", "held", "admitted", "abandoned", "dropped"}]
    BY <1>22 DEF DatagramReceived, Messages
  <2>. QED
    BY <1>22, <1>c, <2>1, <2>2, <2>3 DEF DatagramReceived
<1>23. ASSUME NEW d \in Datagrams, DatagramAccepted(d) PROVE TypeOK'
  <2>1. stats' \in [Counters -> Nat]
    BY <1>23, <1>b, ResultStats, ReleaseStats DEF DatagramAccepted
  <2>2. task' \in [Sources -> {"idle", "offer", "await", "backoff", "done"}]
    BY <1>23 DEF DatagramAccepted
  <2>3. fate' \in [Messages -> {"none", "held", "admitted", "abandoned", "dropped"}]
    BY <1>23 DEF DatagramAccepted, Messages
  <2>. QED
    BY <1>23, <1>c, <2>1, <2>2, <2>3 DEF DatagramAccepted
<1>24. ASSUME NEW d \in Datagrams, DatagramRefused(d) PROVE TypeOK'
  <2>1. stats' \in [Counters -> Nat]
    <3>1. result[d] \in HandlerResult /\ stats \in [Counters -> Nat]
      BY <1>24, <1>b DEF DatagramRefused, Answered
    <3>2. CountResult(stats, result[d]) \in [Counters -> Nat]
      BY <3>1, ResultStats
    <3>3. Count(CountResult(stats, result[d]), "udp_dropped") \in [Counters -> Nat]
      BY <1>a, <3>2, CountStats
    <3>. QED
      BY <1>24, <3>3, ReleaseStats DEF DatagramRefused
  <2>2. task' \in [Sources -> {"idle", "offer", "await", "backoff", "done"}]
    BY <1>24 DEF DatagramRefused
  <2>3. fate' \in [Messages -> {"none", "held", "admitted", "abandoned", "dropped"}]
    BY <1>24 DEF DatagramRefused, Messages
  <2>. QED
    BY <1>24, <1>c, <2>1, <2>2, <2>3 DEF DatagramRefused
<1>25. ASSUME NEW d \in Datagrams, DatagramUnavailable(d) PROVE TypeOK'
  <2>1. stats' \in [Counters -> Nat]
    BY <1>25, <1>a, CountStats, ReleaseStats DEF DatagramUnavailable
  <2>2. task' \in [Sources -> {"idle", "offer", "await", "backoff", "done"}]
    BY <1>25 DEF DatagramUnavailable
  <2>3. fate' \in [Messages -> {"none", "held", "admitted", "abandoned", "dropped"}]
    BY <1>25 DEF DatagramUnavailable, Messages
  <2>. QED
    BY <1>25, <1>c, <2>1, <2>2, <2>3 DEF DatagramUnavailable
<1>26. ASSUME NEW s \in Sources, Offer(s) PROVE TypeOK'
  <2>1. queue' \in Seq(Delivery)
    BY <1>26, SMTT(30) DEF Offer, Delivery
  <2>2. task' \in [Sources -> {"idle", "offer", "await", "backoff", "done"}]
    BY <1>26 DEF Offer
  <2>. QED
    BY <1>26, <2>1, <2>2 DEF Offer
<1>27. ASSUME NEW w \in Workers, StartWorker(w) PROVE TypeOK'
  <2>1. running' \subseteq Workers
    BY <1>27, SMTT(30) DEF StartWorker
  <2>. QED
    BY <1>27, <2>1 DEF StartWorker
<1>28. ASSUME NEW w \in Workers, TakeDelivery(w) PROVE TypeOK'
  <2>1. queue' \in Seq(Delivery)
    BY <1>28, SMTT(30) DEF TakeDelivery
  <2>2. hand' \in [Workers -> Seq(Delivery)]
    BY <1>28, SMTT(30) DEF TakeDelivery
  <2>3. seen' \in [Sources -> Nat \X Nat]
    <3>1. Head(queue) \in Delivery
      BY <1>28, SMTT(30) DEF TakeDelivery
    <3>2. <<Head(queue).frame, Head(queue).attempt>> \in Nat \X Nat
      BY <3>1 DEF Delivery
    <3>. QED
      BY <1>28, <3>2 DEF TakeDelivery
  <2>. QED
    BY <1>28, <2>1, <2>2, <2>3 DEF TakeDelivery
<1>29. ASSUME NEW w \in Workers, CallBlock(w) PROVE TypeOK'
  <2>1. hand' \in [Workers -> Seq(Delivery)]
    BY <1>29, SMTT(30) DEF CallBlock
  <2>2. accepted' \subseteq Sources \X Nat
    <3>1. Head(hand[w]) \in Delivery
      BY <1>29, SMTT(30) DEF CallBlock
    <3>2. <<Head(hand[w]).src, Head(hand[w]).frame>> \in Sources \X Nat
      BY <3>1 DEF Delivery
    <3>. QED
      BY <1>29, <3>2 DEF CallBlock
  <2>3. result' \in [Sources -> HandlerResult \cup {"none", "discarded"}]
    <3>1. Head(hand[w]) \in Delivery
      BY <1>29, SMTT(30) DEF CallBlock
    <3>2. Head(hand[w]).src \in Sources
      BY <3>1 DEF Delivery
    <3>3. PICK verdict \in HandlerResult :
            result' = IF Alive THEN [result EXCEPT ![Head(hand[w]).src] = verdict] ELSE result
      BY <1>29, VerdictsAssumption DEF CallBlock
    <3>. QED
      BY <3>2, <3>3
  <2>. QED
    BY <1>29, <2>1, <2>2, <2>3 DEF CallBlock
<1>30. ASSUME NEW l, ListenerStops(l) PROVE TypeOK'
  BY <1>30 DEF ListenerStops
<1>31. ASSUME StopAccepting PROVE TypeOK'
  BY <1>31 DEF StopAccepting
<1>32. ASSUME DrainCompletes PROVE TypeOK'
  BY <1>32 DEF DrainCompletes
<1>33. ASSUME DrainTimesOut PROVE TypeOK'
  <2>1. swapped' \in Nat
    BY <1>33, <1>a DEF DrainTimesOut
  <2>2. stats' \in [Counters -> Nat]
    BY <1>33, <1>a DEF DrainTimesOut
  <2>. QED
    BY <1>33, <2>1, <2>2 DEF DrainTimesOut
<1>34. ASSUME RecordAbandoned PROVE TypeOK'
  <2>1. stats' \in [Counters -> Nat]
    BY <1>34, <1>a, SMTT(30) DEF RecordAbandoned
  <2>. QED
    BY <1>34, <2>1 DEF RecordAbandoned
<1>35. ASSUME DropRuntime PROVE TypeOK'
  BY <1>35 DEF DropRuntime
<1>36. ASSUME ReplaceReceiver PROVE TypeOK'
  <2>1. queue' \in Seq(Delivery)
    BY <1>36, SMTT(30) DEF ReplaceReceiver
  <2>2. result' \in [Sources -> HandlerResult \cup {"none", "discarded"}]
    BY <1>36 DEF ReplaceReceiver
  <2>. QED
    BY <1>36, <2>1, <2>2 DEF ReplaceReceiver
<1>37. ASSUME UNCHANGED vars PROVE TypeOK'
  BY <1>37 DEF vars
<1>. QED
  BY <1>1, <1>2, <1>3, <1>4, <1>5, <1>6, <1>7, <1>8, <1>9, <1>10,
     <1>11, <1>12, <1>13, <1>14, <1>15, <1>16, <1>17, <1>18, <1>19, <1>20,
     <1>21, <1>22, <1>23, <1>24, <1>25, <1>26, <1>27, <1>28, <1>29, <1>30,
     <1>31, <1>32, <1>33, <1>34, <1>35, <1>36, <1>37
  DEF Next, ReaderStep, DeliveryStep, DatagramStep, WorkerStep, StopStep, ReadFails, ReadCancelled

-----------------------------------------------------------------------------
(* Order *)

\* Before anything is read there is nothing to order.
LEMMA OrderInit == Init => Order
<1>. SUFFICES ASSUME Init PROVE Order
  OBVIOUS
<1>1. ASSUME NEW c \in Conns PROVE ConnOrder(c)
  <2>1. framed[c] = 0 /\ sent[c] = 0 /\ buffer[c] = <<>> /\ chan[c] = <<>> /\ reader[c] = "new"
        /\ task[c] = "idle"
    BY DEF Init, Sources
  <2>0. Len(chan[c]) = 0 /\ Len(buffer[c]) = 0
    BY <2>1
  <2>2a. ~Busy(c)
    BY <2>1 DEF Busy
  <2>2b. Received(c) = 0
    BY <2>0, <2>1, SMTT(30) DEF Received
  <2>2. Received(c) = 0 /\ Settled(c) = 0 /\ ~Busy(c)
    <3>1. (IF Busy(c) THEN 1 ELSE 0) = 0
      BY <2>2a
    <3>2. Settled(c) = 0 - 0
      BY <2>2b, <3>1 DEF Settled
    <3>. QED
      BY <2>2a, <2>2b, <3>2, SMTT(30)
  <2>3. \A n \in 1..MaxOutcomes : fate[<<c, n>>] = "none"
    BY DEF Init, Messages
  <2>. QED
    BY <2>0, <2>1, <2>2, <2>3, LimitsAssumption, SMTT(30) DEF ConnOrder, ChannelInOrder, FatesInOrder
<1>2. ASSUME NEW d \in Datagrams PROVE DatagramOrder(d)
  BY DEF Init, DatagramOrder, Sources, Messages
<1>. QED
  BY <1>1, <1>2 DEF Order

\* A connection none of whose messages moves keeps its order.
LEMMA ConnKeepsOrder ==
    ASSUME NEW k \in Conns, ConnOrder(k),
           framed'[k] = framed[k], chan'[k] = chan[k],
           reader'[k] = "send" <=> reader[k] = "send",
           Busy(k)' <=> Busy(k), cur'[k] = cur[k],
           framed'[k] + Len(buffer'[k]) <= sent'[k],
           \A n \in 1..MaxOutcomes : fate'[<<k, n>>] = fate[<<k, n>>]
    PROVE  ConnOrder(k)'
<1>1. Received(k)' = Received(k)
  BY DEF Received
<1>2. Settled(k)' = Settled(k)
  BY <1>1 DEF Settled
<1>3. ChannelInOrder(k)'
  BY <1>1 DEF ConnOrder, ChannelInOrder
<1>4. FatesInOrder(k)'
  BY <1>2 DEF ConnOrder, FatesInOrder
<1>. QED
  BY <1>1, <1>2, <1>3, <1>4 DEF ConnOrder

\* Steps that only read, and steps of the workers and of stop(), move no message.
LEMMA ReadsKeepOrder ==
    ASSUME Order, UNCHANGED <<framed, chan, task, cur, fate>>,
           \A k \in Conns : /\ reader'[k] = "send" <=> reader[k] = "send"
                            /\ framed[k] + Len(buffer'[k]) <= sent'[k]
    PROVE  Order'
<1>1. ASSUME NEW k \in Conns PROVE ConnOrder(k)'
  <2>1. ConnOrder(k)
    BY DEF Order
  <2>2. Busy(k)' <=> Busy(k)
    BY DEF Busy
  <2>. QED
    BY <2>1, <2>2, ConnKeepsOrder
<1>2. ASSUME NEW d \in Datagrams PROVE DatagramOrder(d)'
  BY DEF Order, DatagramOrder
<1>. QED
  BY <1>1, <1>2 DEF Order

\* A step of delivery tasks that leaves every message with the task that had it.
LEMMA TasksKeepOrder ==
    ASSUME Order, UNCHANGED <<reader, buffer, sent, framed, chan, cur, fate>>,
           \A c \in Conns : Busy(c)' <=> Busy(c),
           \A d \in Datagrams : /\ task'[d] # "backoff"
                                /\ task'[d] = "idle" => task[d] = "idle"
                                /\ task'[d] \in {"offer", "await"} <=> task[d] \in {"offer", "await"}
    PROVE  Order'
<1>1. ASSUME NEW k \in Conns PROVE ConnOrder(k)'
  <2>1. ConnOrder(k)
    BY DEF Order
  <2>2. framed'[k] + Len(buffer'[k]) <= sent'[k]
    BY <2>1 DEF ConnOrder
  <2>. QED
    BY <2>1, <2>2, ConnKeepsOrder
<1>2. ASSUME NEW d \in Datagrams PROVE DatagramOrder(d)'
  BY DEF Order, DatagramOrder
<1>. QED
  BY <1>1, <1>2 DEF Order

\* A step that settles or moves only messages of connection c keeps the order
\* of the other connections and of the datagrams.
LEMMA OthersKeepOrder ==
    ASSUME TypeOK, Order, NEW c \in Conns, ConnOrder(c)',
           NEW t, task' = [task EXCEPT ![c] = t] \/ task' = task,
           \A k \in Conns \ {c} : /\ reader'[k] = reader[k] /\ buffer'[k] = buffer[k]
                                  /\ sent'[k] = sent[k] /\ framed'[k] = framed[k]
                                  /\ chan'[k] = chan[k],
           \A s \in Sources \ {c} : cur'[s] = cur[s],
           \A m \in Messages : m[1] # c => fate'[m] = fate[m]
    PROVE  Order'
<1>1. ASSUME NEW k \in Conns, k # c PROVE ConnOrder(k)'
  <2>1. ConnOrder(k)
    BY DEF Order
  <2>2. Busy(k)' <=> Busy(k)
    BY <1>1, StateTypes DEF Busy, Sources
  <2>3. framed'[k] + Len(buffer'[k]) <= sent'[k]
    BY <1>1, <2>1 DEF ConnOrder
  <2>4. \A n \in 1..MaxOutcomes : fate'[<<k, n>>] = fate[<<k, n>>]
    BY <1>1 DEF Messages
  <2>5. cur'[k] = cur[k]
    BY <1>1 DEF Sources
  <2>. QED
    BY <1>1, <2>1, <2>2, <2>3, <2>4, <2>5, ConnKeepsOrder
<1>2. ASSUME NEW d \in Datagrams PROVE DatagramOrder(d)'
  <2>1. d # c /\ d \in Sources
    BY SourcesAssumption DEF Sources
  <2>2. task'[d] = task[d] /\ cur'[d] = cur[d]
    BY <2>1, StateTypes
  <2>3. <<d, 1>> \in Messages /\ <<d, 1>>[1] = d
    BY DEF Messages
  <2>4. fate'[<<d, 1>>] = fate[<<d, 1>>]
    BY <2>1, <2>3
  <2>. QED
    BY <2>2, <2>4 DEF Order, DatagramOrder
<1>. QED
  BY <1>1, <1>2 DEF Order

\* The fates of a connection's messages stay in order when the next one is framed.
LEMMA FatesFramed ==
    ASSUME NEW c \in Conns, FatesInOrder(c), framed[c] \in Nat, Settled(c) \in Int,
           Settled(c) <= framed[c], MaxOutcomes \in Nat,
           framed'[c] = framed[c] + 1, Settled(c)' = Settled(c),
           fate'[<<c, framed[c] + 1>>] = "held",
           \A n \in 1..MaxOutcomes : n # framed[c] + 1 => fate'[<<c, n>>] = fate[<<c, n>>]
    PROVE  FatesInOrder(c)'
BY SMTT(30) DEF FatesInOrder

\* They stay in order when the first message still held is settled.
LEMMA FatesSettled ==
    ASSUME NEW c \in Conns, FatesInOrder(c), framed[c] \in Nat, Settled(c) \in Int,
           Settled(c) < framed[c], MaxOutcomes \in Nat,
           framed'[c] = framed[c], Settled(c)' = Settled(c) + 1,
           fate'[<<c, Settled(c) + 1>>] \in {"admitted", "abandoned"},
           \A n \in 1..MaxOutcomes : n # Settled(c) + 1 => fate'[<<c, n>>] = fate[<<c, n>>]
    PROVE  FatesInOrder(c)'
BY SMTT(30) DEF FatesInOrder

\* The channel stays in order when its head is taken.
LEMMA ChannelTaken ==
    ASSUME NEW c \in Conns, ChannelInOrder(c), chan[c] \in Seq(1..MaxOutcomes), Received(c) \in Int,
           chan[c] # <<>>, chan'[c] = Tail(chan[c]), Received(c)' = Received(c) + 1
    PROVE  ChannelInOrder(c)' /\ chan[c][1] = Received(c) + 1
<1>1. /\ Len(chan[c]) >= 1 /\ Len(chan'[c]) = Len(chan[c]) - 1 /\ Len(chan[c]) \in Nat
      /\ \A i \in 1..Len(chan'[c]) : chan'[c][i] = chan[c][i + 1]
  BY Taken
<1>2. ASSUME NEW i \in 1..Len(chan'[c]) PROVE chan'[c][i] = Received(c)' + i
  <2>1. i + 1 \in 1..Len(chan[c]) /\ i \in Int
    BY <1>1, SMTT(30)
  <2>2. chan[c][i + 1] = Received(c) + (i + 1)
    BY <2>1 DEF ChannelInOrder
  <2>3. chan'[c][i] = Received(c) + (i + 1)
    BY <1>1, <2>2
  <2>. QED
    BY <2>1, <2>3, SMTT(30)
<1>3. ChannelInOrder(c)'
  BY <1>2 DEF ChannelInOrder
<1>4. 1 \in 1..Len(chan[c])
  BY <1>1, SMTT(30)
<1>5. chan[c][1] = Received(c) + 1
  BY <1>4 DEF ChannelInOrder
<1>. QED
  BY <1>3, <1>5

\* The types of one connection's part of the state.
LEMMA ConnTypes ==
    ASSUME TypeOK, NEW c \in Conns
    PROVE  /\ framed[c] \in 0..MaxOutcomes /\ sent[c] \in 0..MaxOutcomes
           /\ buffer[c] \in Seq(Outcomes) /\ chan[c] \in Seq(1..MaxOutcomes)
BY StateTypes

\* The sizes of one connection's queues, as numbers.
LEMMA ConnNumbers ==
    ASSUME TypeOK, NEW c \in Conns
    PROVE  /\ framed[c] \in Nat /\ framed[c] <= MaxOutcomes /\ sent[c] \in Nat /\ sent[c] <= MaxOutcomes
           /\ Len(buffer[c]) \in Nat /\ Len(chan[c]) \in Nat /\ MaxOutcomes \in Nat
<1>1. framed[c] \in Nat /\ framed[c] <= MaxOutcomes /\ sent[c] \in Nat /\ sent[c] <= MaxOutcomes
  BY ConnTypes, LimitsAssumption, SMTT(30)
<1>2. Len(buffer[c]) \in Nat /\ Len(chan[c]) \in Nat
  BY ConnTypes, SMTT(30)
<1>. QED
  BY <1>1, <1>2, LimitsAssumption

\* Where the functions of the state that a delivery changes are defined.
LEMMA Domains ==
    ASSUME TypeOK
    PROVE  /\ DOMAIN reader = Conns /\ DOMAIN buffer = Conns /\ DOMAIN framed = Conns
           /\ DOMAIN chan = Conns /\ DOMAIN task = Sources /\ DOMAIN cur = Sources
           /\ DOMAIN fate = Messages
BY StateTypes

\* What was received is at most what was framed and is not in the channel.
LEMMA ReceivedRange ==
    ASSUME NEW c \in Conns, framed[c] \in Nat, Len(chan[c]) \in Nat
    PROVE  Received(c) \in Int /\ Received(c) <= framed[c] - Len(chan[c])
BY SMTT(30) DEF Received

\* What is settled is an integer, at most what was received.
LEMMA SettledRange ==
    ASSUME NEW c \in Conns, Received(c) \in Int
    PROVE  Settled(c) \in Int /\ Settled(c) <= Received(c)
BY SMTT(30) DEF Settled

\* Changing the fate of one message of a connection leaves its other messages,
\* and those of other sources, alone.
LEMMA OneFate ==
    ASSUME NEW c \in Conns, NEW n \in 1..MaxOutcomes, NEW f, DOMAIN fate = Messages,
           fate' = [fate EXCEPT ![<<c, n>>] = f]
    PROVE  /\ \A k \in 1..MaxOutcomes : k # n => fate'[<<c, k>>] = fate[<<c, k>>]
           /\ \A m \in Messages : m[1] # c => fate'[m] = fate[m]
<1>1. \A k \in 1..MaxOutcomes : <<c, k>> \in Messages /\ (k # n => <<c, k>> # <<c, n>>)
  BY DEF Messages
<1>2. \A m \in Messages : m[1] # c => m # <<c, n>>
  BY SMTT(30)
<1>. QED
  BY <1>1, <1>2

\* A framed message goes behind all others of its connection.
LEMMA FrameKeepsOrder ==
    ASSUME TypeOK, Order, NEW c \in Conns, FrameMessage(c) PROVE Order'
<1>1. /\ framed[c] + Len(buffer[c]) <= sent[c] /\ 0 <= Settled(c) /\ ChannelInOrder(c)
      /\ (Busy(c) => cur[c] = Received(c)) /\ FatesInOrder(c)
  BY DEF Order, ConnOrder
<1>2. /\ reader[c] = "read" /\ reader'[c] = "send" /\ framed'[c] = framed[c] + 1
      /\ chan' = chan /\ task' = task /\ cur' = cur /\ sent' = sent
      /\ buffer'[c] = Tail(buffer[c]) /\ buffer[c] # <<>>
      /\ fate' = [fate EXCEPT ![<<c, framed[c] + 1>>] = "held"]
  BY Domains DEF FrameMessage, Waiting, taskVars
<1>3. Len(buffer'[c]) = Len(buffer[c]) - 1 /\ Len(buffer[c]) >= 1
  BY <1>2, ConnTypes, Taken
<1>4. Received(c)' = Received(c) /\ Received(c) \in Int /\ Received(c) <= framed[c]
  BY <1>2, ConnNumbers, SMTT(30) DEF Received
<1>5. Busy(c)' <=> Busy(c)
  BY <1>2 DEF Busy
<1>6. Settled(c)' = Settled(c) /\ Settled(c) \in Int /\ Settled(c) <= framed[c]
  BY <1>4, <1>5, ConnNumbers, SMTT(30) DEF Settled
<1>7. framed[c] + 1 \in 1..MaxOutcomes
  BY <1>1, <1>3, ConnNumbers, SMTT(30)
<1>8. FatesInOrder(c)'
  <2>1. /\ fate'[<<c, framed[c] + 1>>] = "held"
        /\ \A n \in 1..MaxOutcomes : n # framed[c] + 1 => fate'[<<c, n>>] = fate[<<c, n>>]
    <3>. DEFINE new == framed[c] + 1
    <3>1. new \in 1..MaxOutcomes /\ fate' = [fate EXCEPT ![<<c, new>>] = "held"]
      BY <1>2, <1>7
    <3>. HIDE DEF new
    <3>2. DOMAIN fate = Messages
      BY Domains
    <3>3. fate'[<<c, new>>] = "held"
      <4>1. <<c, new>> \in Messages
        BY <3>1 DEF Messages
      <4>. QED
        BY <3>1, <3>2, <4>1
    <3>4. \A n \in 1..MaxOutcomes : n # new => fate'[<<c, n>>] = fate[<<c, n>>]
      BY <3>1, <3>2, OneFate
    <3>. QED
      BY <3>3, <3>4 DEF new
  <2>2. framed[c] \in Nat /\ MaxOutcomes \in Nat /\ framed'[c] = framed[c] + 1
    BY <1>2, ConnNumbers
  <2>. QED
    BY <1>1, <1>6, <2>1, <2>2, FatesFramed
<1>9. ChannelInOrder(c)'
  BY <1>1, <1>2, <1>4 DEF ChannelInOrder
<1>10. framed'[c] + Len(buffer'[c]) <= sent'[c]
  BY <1>1, <1>2, <1>3, ConnNumbers, SMTT(30)
<1>11. ConnOrder(c)'
  BY <1>1, <1>2, <1>4, <1>5, <1>6, <1>8, <1>9, <1>10 DEF ConnOrder
<1>12. \A m \in Messages : m[1] # c => fate'[m] = fate[m]
  BY <1>2, <1>7, Domains, OneFate
<1>13. \A k \in Conns \ {c} : /\ reader'[k] = reader[k] /\ buffer'[k] = buffer[k]
                              /\ sent'[k] = sent[k] /\ framed'[k] = framed[k] /\ chan'[k] = chan[k]
  BY <1>2, Domains DEF FrameMessage
<1>. QED
  BY <1>2, <1>11, <1>12, <1>13, OthersKeepOrder

\* pending_tx.send appends the message that was framed last.
LEMMA SendKeepsOrder ==
    ASSUME TypeOK, Order, NEW c \in Conns, SendPending(c) PROVE Order'
<1>1. /\ framed[c] + Len(buffer[c]) <= sent[c] /\ 0 <= Settled(c) /\ ChannelInOrder(c)
      /\ (Busy(c) => cur[c] = Received(c)) /\ FatesInOrder(c)
  BY DEF Order, ConnOrder
<1>2. /\ reader[c] = "send" /\ reader'[c] = "read" /\ framed' = framed
      /\ chan'[c] = Append(chan[c], framed[c]) /\ task' = task /\ cur' = cur /\ sent' = sent
      /\ buffer' = buffer /\ fate' = fate
  BY Domains DEF SendPending, taskVars
<1>3. /\ Len(chan'[c]) = Len(chan[c]) + 1 /\ chan'[c][Len(chan[c]) + 1] = framed[c]
      /\ \A i \in 1..Len(chan[c]) : chan'[c][i] = chan[c][i]
  BY <1>2, ConnTypes, Appended, SMTT(30)
<1>4. /\ Received(c)' = Received(c) /\ Received(c) \in Int
      /\ framed[c] = Received(c) + (Len(chan[c]) + 1)
  <2>1. framed[c] \in Nat /\ Len(chan[c]) \in Nat
    BY ConnNumbers
  <2>2. Received(c) = framed[c] - 1 - Len(chan[c])
    BY <1>2 DEF Received
  <2>3. Received(c)' = framed[c] - 0 - (Len(chan[c]) + 1)
    BY <1>2, <1>3 DEF Received
  <2>4. Received(c) \in Int /\ framed[c] = Received(c) + (Len(chan[c]) + 1)
    BY <2>1, <2>2, SMTT(30)
  <2>5. Received(c)' = framed[c] - 1 - Len(chan[c])
    BY <2>1, <2>3, SMTT(30)
  <2>. QED
    BY <2>2, <2>4, <2>5
<1>5. Busy(c)' <=> Busy(c)
  BY <1>2 DEF Busy
<1>6. Settled(c)' = Settled(c)
  BY <1>4, <1>5 DEF Settled
<1>7. ChannelInOrder(c)'
  <2>1. ASSUME NEW i \in 1..Len(chan'[c]) PROVE chan'[c][i] = Received(c)' + i
    <3>1. CASE i = Len(chan[c]) + 1
      BY <1>3, <1>4, <3>1
    <3>2. CASE i \in 1..Len(chan[c])
      BY <1>1, <1>3, <1>4, <3>2 DEF ChannelInOrder
    <3>. QED
      BY <1>3, <3>1, <3>2, ConnNumbers, SMTT(30)
  <2>. QED
    BY <2>1 DEF ChannelInOrder
<1>8. FatesInOrder(c)'
  BY <1>1, <1>2, <1>6 DEF FatesInOrder
<1>9. ConnOrder(c)'
  BY <1>1, <1>2, <1>4, <1>5, <1>6, <1>7, <1>8 DEF ConnOrder
<1>10. \A k \in Conns \ {c} : reader'[k] = reader[k] /\ chan'[k] = chan[k]
  BY Domains DEF SendPending
<1>. QED
  BY <1>2, <1>9, <1>10, OthersKeepOrder

\* The delivery task takes the message at the head of the channel, the next of
\* its connection, and is busy with it.
LEMMA ReceiveKeepsOrder ==
    ASSUME TypeOK, Order, NEW c \in Conns, Receive(c) PROVE Order'
<1>1. /\ framed[c] + Len(buffer[c]) <= sent[c] /\ 0 <= Settled(c) /\ ChannelInOrder(c)
      /\ FatesInOrder(c) /\ c \in Sources
  BY DEF Order, ConnOrder, Sources
<1>2. /\ reader' = reader /\ framed' = framed /\ sent' = sent /\ buffer' = buffer /\ fate' = fate
      /\ chan'[c] = Tail(chan[c]) /\ chan[c] # <<>>
      /\ task[c] = "idle" /\ task'[c] = "offer" /\ cur'[c] = Head(chan[c])
  BY <1>1, Domains DEF Receive, connVars
<1>3. Len(chan'[c]) = Len(chan[c]) - 1 /\ Head(chan[c]) = chan[c][1]
  BY <1>2, ConnTypes, Taken
<1>4. Received(c)' = Received(c) + 1 /\ Received(c) \in Int
  <2>1. framed[c] \in Nat /\ Len(chan[c]) \in Nat
    BY ConnNumbers
  <2>2. Received(c)' = framed[c] - (IF reader[c] = "send" THEN 1 ELSE 0) - (Len(chan[c]) - 1)
    BY <1>2, <1>3 DEF Received
  <2>. QED
    BY <2>1, <2>2, SMTT(30) DEF Received
<1>5. Busy(c)' /\ ~Busy(c)
  BY <1>2 DEF Busy
<1>6. Settled(c)' = Settled(c)
  BY <1>4, <1>5, SMTT(30) DEF Settled
<1>7. ChannelInOrder(c)' /\ chan[c][1] = Received(c) + 1
  BY <1>1, <1>2, <1>4, ConnTypes, ChannelTaken
<1>8. cur'[c] = Received(c)'
  BY <1>2, <1>3, <1>4, <1>7
<1>9. FatesInOrder(c)'
  BY <1>1, <1>2, <1>6 DEF FatesInOrder
<1>10. ConnOrder(c)'
  BY <1>1, <1>2, <1>6, <1>7, <1>8, <1>9 DEF ConnOrder
<1>11. /\ \A s \in Sources \ {c} : cur'[s] = cur[s]
       /\ \A k \in Conns \ {c} : chan'[k] = chan[k]
       /\ task' = [task EXCEPT ![c] = "offer"]
  BY Domains DEF Receive
<1>. QED
  BY <1>2, <1>10, <1>11, OthersKeepOrder

\* With no worker left the head of the channel is settled at once.
LEMMA AbandonKeepsOrder ==
    ASSUME TypeOK, Order, NEW c \in Conns, ReceiveWithoutWorkers(c) PROVE Order'
<1>1. /\ framed[c] + Len(buffer[c]) <= sent[c] /\ 0 <= Settled(c) /\ ChannelInOrder(c)
      /\ FatesInOrder(c)
  BY DEF Order, ConnOrder
<1>2. /\ reader' = reader /\ framed' = framed /\ sent' = sent /\ buffer' = buffer
      /\ task' = task /\ cur' = cur /\ task[c] = "idle"
      /\ chan'[c] = Tail(chan[c]) /\ chan[c] # <<>>
      /\ fate' = [fate EXCEPT ![<<c, Head(chan[c])>>] = "abandoned"]
  BY Domains DEF ReceiveWithoutWorkers, connVars, taskVars
<1>3. /\ Len(chan[c]) >= 1 /\ Len(chan'[c]) = Len(chan[c]) - 1
      /\ Head(chan[c]) = chan[c][1] /\ chan[c][1] \in 1..MaxOutcomes
  BY <1>2, ConnTypes, Taken
<1>4. /\ Received(c)' = Received(c) + 1 /\ Received(c) \in Int
      /\ Received(c) <= framed[c] - Len(chan[c])
  <2>1. framed[c] \in Nat /\ Len(chan[c]) \in Nat
    BY ConnNumbers
  <2>2. Received(c)' = framed[c] - (IF reader[c] = "send" THEN 1 ELSE 0) - (Len(chan[c]) - 1)
    BY <1>2, <1>3 DEF Received
  <2>3. Received(c) \in Int /\ Received(c) <= framed[c] - Len(chan[c])
    BY <2>1, ReceivedRange
  <2>4. Received(c)' = Received(c) + 1
    BY <2>1, <2>2, SMTT(30) DEF Received
  <2>. QED
    BY <2>3, <2>4
<1>5. ~Busy(c) /\ ~Busy(c)'
  BY <1>2 DEF Busy
<1>6. Settled(c)' = Settled(c) + 1 /\ Settled(c) \in Int /\ Settled(c) = Received(c)
  BY <1>4, <1>5, SMTT(30) DEF Settled
<1>7. ChannelInOrder(c)' /\ chan[c][1] = Received(c) + 1
  BY <1>1, <1>2, <1>4, ConnTypes, ChannelTaken
<1>8. Head(chan[c]) = Settled(c) + 1 /\ Settled(c) + 1 \in 1..MaxOutcomes
  BY <1>3, <1>6, <1>7
<1>9. fate' = [fate EXCEPT ![<<c, Settled(c) + 1>>] = "abandoned"]
  BY <1>2, <1>8
<1>10. Settled(c) < framed[c]
  BY <1>3, <1>4, <1>6, ConnNumbers, SMTT(30)
<1>11. FatesInOrder(c)'
  <2>1. /\ fate'[<<c, Settled(c) + 1>>] = "abandoned"
        /\ \A n \in 1..MaxOutcomes : n # Settled(c) + 1 => fate'[<<c, n>>] = fate[<<c, n>>]
    <3>. DEFINE next == Settled(c) + 1
    <3>1. next \in 1..MaxOutcomes /\ fate' = [fate EXCEPT ![<<c, next>>] = "abandoned"]
      BY <1>8, <1>9
    <3>. HIDE DEF next
    <3>2. DOMAIN fate = Messages
      BY Domains
    <3>3. fate'[<<c, next>>] = "abandoned"
      <4>1. <<c, next>> \in Messages
        BY <3>1 DEF Messages
      <4>. QED
        BY <3>1, <3>2, <4>1
    <3>4. \A n \in 1..MaxOutcomes : n # next => fate'[<<c, n>>] = fate[<<c, n>>]
      BY <3>1, <3>2, OneFate
    <3>. QED
      BY <3>3, <3>4 DEF next
  <2>2. framed[c] \in Nat /\ MaxOutcomes \in Nat /\ framed'[c] = framed[c]
    BY <1>2, ConnNumbers
  <2>. QED
    BY <1>1, <1>6, <1>10, <2>1, <2>2, FatesSettled
<1>12. ConnOrder(c)'
  BY <1>1, <1>2, <1>5, <1>6, <1>7, <1>11, SMTT(30) DEF ConnOrder
<1>13. \A m \in Messages : m[1] # c => fate'[m] = fate[m]
  BY <1>8, <1>9, Domains, OneFate
<1>14. \A k \in Conns \ {c} : chan'[k] = chan[k]
  BY Domains DEF ReceiveWithoutWorkers
<1>. QED
  BY <1>2, <1>12, <1>13, <1>14, OthersKeepOrder

\* The task settles the message it has in hand, the next one to settle.
LEMMA SettleKeepsOrder ==
    ASSUME TypeOK, Order, NEW c \in Conns, NEW f \in {"admitted", "abandoned"},
           Busy(c), task' = [task EXCEPT ![c] = "idle"],
           fate' = [fate EXCEPT ![Message(c)] = f],
           UNCHANGED <<connVars, chan, cur>>
    PROVE  Order'
<1>1. /\ framed[c] + Len(buffer[c]) <= sent[c] /\ 0 <= Settled(c) /\ ChannelInOrder(c)
      /\ cur[c] = Received(c) /\ FatesInOrder(c) /\ c \in Sources
  BY DEF Order, ConnOrder, Sources
<1>2. /\ reader' = reader /\ framed' = framed /\ sent' = sent /\ buffer' = buffer
      /\ chan' = chan /\ cur' = cur
  BY DEF connVars
<1>3. ~Busy(c)'
  BY <1>1, Domains DEF Busy
<1>4. Received(c)' = Received(c) /\ Received(c) \in Int /\ Received(c) <= framed[c]
  BY <1>2, ConnNumbers, SMTT(30) DEF Received
<1>5. Settled(c)' = Settled(c) + 1 /\ Received(c) = Settled(c) + 1 /\ Settled(c) \in Int
  BY <1>3, <1>4, SMTT(30) DEF Settled
<1>6. Settled(c) + 1 \in 1..MaxOutcomes /\ Settled(c) < framed[c]
  BY <1>1, <1>4, <1>5, ConnNumbers, SMTT(30)
<1>7. fate' = [fate EXCEPT ![<<c, Settled(c) + 1>>] = f]
  BY <1>1, <1>5 DEF Message
<1>8. FatesInOrder(c)'
  <2>1. /\ fate'[<<c, Settled(c) + 1>>] = f
        /\ \A n \in 1..MaxOutcomes : n # Settled(c) + 1 => fate'[<<c, n>>] = fate[<<c, n>>]
    <3>. DEFINE next == Settled(c) + 1
    <3>1. next \in 1..MaxOutcomes /\ fate' = [fate EXCEPT ![<<c, next>>] = f]
      BY <1>6, <1>7
    <3>. HIDE DEF next
    <3>2. DOMAIN fate = Messages
      BY Domains
    <3>3. fate'[<<c, next>>] = f
      <4>1. <<c, next>> \in Messages
        BY <3>1 DEF Messages
      <4>. QED
        BY <3>1, <3>2, <4>1
    <3>4. \A n \in 1..MaxOutcomes : n # next => fate'[<<c, n>>] = fate[<<c, n>>]
      BY <3>1, <3>2, OneFate, SMTT(30)
    <3>. QED
      BY <3>3, <3>4 DEF next
  <2>2. framed[c] \in Nat /\ MaxOutcomes \in Nat /\ framed'[c] = framed[c]
    BY <1>2, ConnNumbers
  <2>. QED
    BY <1>1, <1>5, <1>6, <2>1, <2>2, FatesSettled
<1>9. ChannelInOrder(c)'
  BY <1>1, <1>2, <1>4 DEF ChannelInOrder
<1>10. 0 <= Settled(c)'
  BY <1>1, <1>5, SMTT(30)
<1>11. ConnOrder(c)'
  BY <1>1, <1>2, <1>3, <1>8, <1>9, <1>10 DEF ConnOrder
<1>12. \A m \in Messages : m[1] # c => fate'[m] = fate[m]
  BY <1>6, <1>7, Domains, OneFate, SMTT(30)
<1>. QED
  BY <1>2, <1>11, <1>12, OthersKeepOrder

\* A step of a datagram leaves the connections alone.
LEMMA DatagramKeepsOrder ==
    ASSUME TypeOK, Order, NEW d \in Datagrams, DatagramOrder(d)',
           NEW t, task' = [task EXCEPT ![d] = t],
           NEW f, fate' = [fate EXCEPT ![<<d, 1>>] = f] \/ fate' = fate,
           UNCHANGED <<connVars, chan, cur>>
    PROVE  Order'
<1>1. ASSUME NEW k \in Conns PROVE ConnOrder(k)'
  <2>1. ConnOrder(k) /\ k # d /\ k \in Sources
    BY SourcesAssumption DEF Order, Sources
  <2>2. Busy(k)' <=> Busy(k)
    BY <2>1, StateTypes DEF Busy
  <2>3. framed'[k] + Len(buffer'[k]) <= sent'[k]
    BY <2>1 DEF ConnOrder, connVars
  <2>4. \A n \in 1..MaxOutcomes : fate'[<<k, n>>] = fate[<<k, n>>]
    BY <2>1, StateTypes DEF Messages
  <2>. QED
    BY <2>1, <2>2, <2>3, <2>4, ConnKeepsOrder DEF connVars
<1>2. ASSUME NEW e \in Datagrams, e # d PROVE DatagramOrder(e)'
  <2>1. task'[e] = task[e] /\ cur'[e] = cur[e]
    BY <1>2, StateTypes DEF Sources
  <2>2. fate'[<<e, 1>>] = fate[<<e, 1>>]
    BY <1>2, StateTypes DEF Messages
  <2>. QED
    BY <2>1, <2>2 DEF Order, DatagramOrder
<1>. QED
  BY <1>1, <1>2 DEF Order

\* Every step keeps the order.
LEMMA OrderNext == TypeOK /\ Order /\ [Next]_vars => Order'
<1>. SUFFICES ASSUME TypeOK, Order, [Next]_vars PROVE Order'
  OBVIOUS
<1>. USE DEF connVars, taskVars, stopVars
<1>a. \A c \in Conns : framed[c] + Len(buffer[c]) <= sent[c]
  BY DEF Order, ConnOrder
<1>b. ASSUME UNCHANGED <<connVars, chan, taskVars, fate>> PROVE Order'
  BY <1>a, <1>b, ReadsKeepOrder
<1>c. \A c \in Conns : framed[c] \in Nat /\ sent[c] \in Nat /\ Len(buffer[c]) \in Nat
  BY StateTypes, SMTT(30)
<1>1. ASSUME NEW c \in Conns, Accept(c) PROVE Order'
  BY <1>1, <1>a, ReadsKeepOrder, SwitchesAssumption, StateTypes DEF Accept, Accepting
<1>2. ASSUME NEW c \in Conns, RefuseConnection(c) PROVE Order'
  BY <1>2, <1>a, ReadsKeepOrder, StateTypes DEF RefuseConnection, Accepting
<1>3. ASSUME NEW c \in Conns, ProxyHeaderComplete(c) PROVE Order'
  <2>1. PICK rest \in Chunks \cup {<<>>} :
          sent' = [sent EXCEPT ![c] = @ + Len(rest)] /\ buffer' = [buffer EXCEPT ![c] = rest]
    BY <1>3 DEF ProxyHeaderComplete
  <2>2. framed[c] <= sent[c]
    BY <1>a, <1>c, SMTT(30)
  <2>3. Len(rest) \in Nat
    BY ChunksAssumption, SMTT(30)
  <2>4. \A k \in Conns : framed[k] + Len(buffer'[k]) <= sent'[k]
    BY <1>a, <1>c, <2>1, <2>2, <2>3, StateTypes, SMTT(30)
  <2>. QED
    BY <1>3, <2>4, ReadsKeepOrder, StateTypes DEF ProxyHeaderComplete
<1>4. ASSUME NEW c \in Conns, ProxyHeaderFails(c) PROVE Order'
  BY <1>4, <1>a, ReadsKeepOrder, StateTypes DEF ProxyHeaderFails
<1>5. ASSUME NEW c \in Conns, RejectFrame(c) PROVE Order'
  <2>1. Len(buffer'[c]) <= Len(buffer[c]) /\ Len(buffer'[c]) \in Nat
    BY <1>5, StateTypes, SMTT(30) DEF RejectFrame
  <2>2. \A k \in Conns : framed[k] + Len(buffer'[k]) <= sent'[k]
    BY <1>5, <1>a, <1>c, <2>1, StateTypes, SMTT(30) DEF RejectFrame
  <2>. QED
    BY <1>5, <2>2, ReadsKeepOrder, StateTypes DEF RejectFrame
<1>6. ASSUME NEW c \in Conns, FrameMessage(c) PROVE Order'
  BY <1>6, FrameKeepsOrder
<1>7. ASSUME NEW c \in Conns, SendPending(c) PROVE Order'
  BY <1>7, SendKeepsOrder
<1>8. ASSUME NEW c \in Conns, Read(c) PROVE Order'
  <2>1. PICK chunk \in Chunks :
          sent' = [sent EXCEPT ![c] = @ + Len(chunk)] /\ buffer' = [buffer EXCEPT ![c] = chunk]
    BY <1>8 DEF Read
  <2>2. framed[c] <= sent[c]
    BY <1>a, <1>c, SMTT(30)
  <2>3. Len(chunk) \in Nat
    BY ChunksAssumption, SMTT(30)
  <2>4. \A k \in Conns : framed[k] + Len(buffer'[k]) <= sent'[k]
    BY <1>a, <1>c, <2>1, <2>2, <2>3, StateTypes, SMTT(30)
  <2>. QED
    BY <1>8, <2>4, ReadsKeepOrder, StateTypes DEF Read
<1>9. ASSUME NEW c \in Conns, StopReading(c) PROVE Order'
  BY <1>9, <1>a, ReadsKeepOrder, StateTypes DEF StopReading, Selecting
<1>10. ASSUME NEW c \in Conns, EndOfStream(c) PROVE Order'
  <2>1. Len(buffer'[c]) = 0
    BY <1>10, StateTypes DEF EndOfStream
  <2>2. \A k \in Conns : framed[k] + Len(buffer'[k]) <= sent'[k]
    BY <1>10, <1>a, <1>c, <2>1, StateTypes, SMTT(30) DEF EndOfStream
  <2>. QED
    BY <1>10, <2>2, ReadsKeepOrder, StateTypes DEF EndOfStream
<1>11. ASSUME NEW c \in Conns, CloseStream(c) PROVE Order'
  BY <1>11, <1>a, ReadsKeepOrder, StateTypes DEF CloseStream
<1>12. ASSUME NEW c \in Conns, Receive(c) PROVE Order'
  BY <1>12, ReceiveKeepsOrder
<1>13. ASSUME NEW c \in Conns, ReceiveWithoutWorkers(c) PROVE Order'
  BY <1>13, AbandonKeepsOrder
<1>d. \A c \in Conns : c \in Sources /\ c \notin Datagrams
  BY SourcesAssumption DEF Sources
<1>e. \A d \in Datagrams : task[d] # "backoff" /\ cur[d] = 1
  BY DEF Order, DatagramOrder
<1>f. ASSUME NEW c \in Conns, NEW t, task' = [task EXCEPT ![c] = t],
             Busy(c) <=> t \in {"offer", "await", "backoff"}
      PROVE  /\ \A k \in Conns : Busy(k)' <=> Busy(k)
             /\ \A d \in Datagrams : task'[d] = task[d]
  <2>1. task'[c] = t /\ \A s \in Sources \ {c} : task'[s] = task[s]
    BY <1>d, <1>f, Domains
  <2>2. ASSUME NEW k \in Conns PROVE Busy(k)' <=> Busy(k)
    <3>1. CASE k = c
      BY <1>f, <2>1, <3>1 DEF Busy
    <3>2. CASE k # c
      BY <1>d, <2>1, <3>2 DEF Busy
    <3>. QED
      BY <3>1, <3>2
  <2>3. \A d \in Datagrams : task'[d] = task[d]
    BY <1>d, <2>1 DEF Sources
  <2>. QED
    BY <2>2, <2>3
<1>14. ASSUME NEW c \in Conns, DeliveryEnds(c) PROVE Order'
  <2>1. task' = [task EXCEPT ![c] = "done"] /\ (Busy(c) <=> "done" \in {"offer", "await", "backoff"})
    BY <1>14 DEF DeliveryEnds, Busy
  <2>2. UNCHANGED <<reader, buffer, sent, framed, chan, cur, fate>>
    BY <1>14 DEF DeliveryEnds
  <2>3. \A k \in Conns : Busy(k)' <=> Busy(k)
    BY <1>f, <2>1
  <2>4. \A d \in Datagrams : task'[d] = task[d]
    BY <1>f, <2>1
  <2>5. \A d \in Datagrams : /\ task'[d] # "backoff"
                             /\ task'[d] = "idle" => task[d] = "idle"
                             /\ task'[d] \in {"offer", "await"} <=> task[d] \in {"offer", "await"}
    BY <1>e, <2>4
  <2>. QED
    BY <2>2, <2>3, <2>5, TasksKeepOrder
<1>15. ASSUME NEW c \in Conns, StreamAccepted(c) PROVE Order'
  <2>1. Busy(c)
    BY <1>15 DEF StreamAccepted, Answered, Busy
  <2>. QED
    BY <1>15, <2>1, SettleKeepsOrder DEF StreamAccepted
<1>16. ASSUME NEW c \in Conns, StreamRefused(c) PROVE Order'
  <2>1. task' = [task EXCEPT ![c] = "backoff"] /\ (Busy(c) <=> "backoff" \in {"offer", "await", "backoff"})
    BY <1>16 DEF StreamRefused, Answered, Busy
  <2>2. UNCHANGED <<reader, buffer, sent, framed, chan, cur, fate>>
    BY <1>16 DEF StreamRefused
  <2>3. \A k \in Conns : Busy(k)' <=> Busy(k)
    BY <1>f, <2>1
  <2>4. \A d \in Datagrams : task'[d] = task[d]
    BY <1>f, <2>1
  <2>5. \A d \in Datagrams : /\ task'[d] # "backoff"
                             /\ task'[d] = "idle" => task[d] = "idle"
                             /\ task'[d] \in {"offer", "await"} <=> task[d] \in {"offer", "await"}
    BY <1>e, <2>4
  <2>. QED
    BY <2>2, <2>3, <2>5, TasksKeepOrder
<1>17. ASSUME NEW c \in Conns, StreamGivesUp(c) PROVE Order'
  <2>1. Busy(c)
    BY <1>17 DEF StreamGivesUp, Answered, Busy
  <2>. QED
    BY <1>17, <2>1, SettleKeepsOrder DEF StreamGivesUp
<1>18. ASSUME NEW c \in Conns, Retry(c) PROVE Order'
  <2>1. task' = [task EXCEPT ![c] = "offer"] /\ (Busy(c) <=> "offer" \in {"offer", "await", "backoff"})
    BY <1>18 DEF Retry, Busy
  <2>2. UNCHANGED <<reader, buffer, sent, framed, chan, cur, fate>>
    BY <1>18 DEF Retry
  <2>3. \A k \in Conns : Busy(k)' <=> Busy(k)
    BY <1>f, <2>1
  <2>4. \A d \in Datagrams : task'[d] = task[d]
    BY <1>f, <2>1
  <2>5. \A d \in Datagrams : /\ task'[d] # "backoff"
                             /\ task'[d] = "idle" => task[d] = "idle"
                             /\ task'[d] \in {"offer", "await"} <=> task[d] \in {"offer", "await"}
    BY <1>e, <2>4
  <2>. QED
    BY <2>2, <2>3, <2>5, TasksKeepOrder
<1>19. ASSUME NEW c \in Conns, StreamUnavailable(c) PROVE Order'
  <2>1. Busy(c)
    BY <1>19 DEF StreamUnavailable, Unavailable, Busy
  <2>. QED
    BY <1>19, <2>1, SettleKeepsOrder DEF StreamUnavailable
<1>20. ASSUME NEW d \in Datagrams, DatagramStep(d) PROVE Order'
  <2>1. d \in Sources /\ <<d, 1>> \in Messages /\ DatagramOrder(d)
    BY DEF Sources, Messages, Order
  <2>2. CASE DatagramTruncated(d)
    <3>1. DatagramOrder(d)'
      BY <2>1, <2>2, StateTypes DEF DatagramTruncated, Receiving, DatagramOrder
    <3>. QED
      BY <2>2, <3>1, DatagramKeepsOrder DEF DatagramTruncated
  <2>3. CASE DatagramWithoutCredit(d)
    <3>1. DatagramOrder(d)'
      BY <2>1, <2>3, StateTypes DEF DatagramWithoutCredit, DatagramOrder
    <3>. QED
      BY <2>3, <3>1, DatagramKeepsOrder DEF DatagramWithoutCredit
  <2>4. CASE DatagramReceived(d)
    <3>1. DatagramOrder(d)'
      BY <2>1, <2>4, StateTypes DEF DatagramReceived, DatagramOrder
    <3>. QED
      BY <2>4, <3>1, DatagramKeepsOrder DEF DatagramReceived
  <2>5. CASE DatagramAccepted(d)
    <3>1. DatagramOrder(d)'
      BY <2>1, <2>5, StateTypes DEF DatagramAccepted, DatagramOrder
    <3>. QED
      BY <2>5, <3>1, DatagramKeepsOrder DEF DatagramAccepted
  <2>6. CASE DatagramRefused(d)
    <3>1. DatagramOrder(d)'
      BY <2>1, <2>6, StateTypes DEF DatagramRefused, DatagramOrder
    <3>. QED
      BY <2>6, <3>1, DatagramKeepsOrder DEF DatagramRefused
  <2>7. CASE DatagramUnavailable(d)
    <3>1. DatagramOrder(d)'
      BY <2>1, <2>7, StateTypes DEF DatagramUnavailable, DatagramOrder
    <3>. QED
      BY <2>7, <3>1, DatagramKeepsOrder DEF DatagramUnavailable
  <2>. QED
    BY <1>20, <2>2, <2>3, <2>4, <2>5, <2>6, <2>7 DEF DatagramStep
<1>21. ASSUME NEW s \in Sources, Offer(s) PROVE Order'
  <2>1. \A c \in Conns : Busy(c)' <=> Busy(c)
    BY <1>21, <1>d, StateTypes DEF Offer, Busy
  <2>2. \A d \in Datagrams : /\ task'[d] # "backoff"
                             /\ task'[d] = "idle" => task[d] = "idle"
                             /\ task'[d] \in {"offer", "await"} <=> task[d] \in {"offer", "await"}
    BY <1>21, <1>e, StateTypes DEF Offer, Sources
  <2>. QED
    BY <1>21, <2>1, <2>2, TasksKeepOrder DEF Offer
<1>22. ASSUME NEW w \in Workers, WorkerStep(w) PROVE Order'
  BY <1>22, <1>b DEF WorkerStep, StartWorker, TakeDelivery, CallBlock
<1>23. ASSUME NEW l \in {"stream", "datagram"}, ListenerStops(l) PROVE Order'
  BY <1>23, <1>b DEF ListenerStops
<1>24. CASE StopStep
  BY <1>24, <1>b DEF StopStep, StopAccepting, DrainCompletes, DrainTimesOut, RecordAbandoned,
                     DropRuntime, ReplaceReceiver
<1>25. CASE UNCHANGED vars
  BY <1>25, <1>b DEF vars
<1>. QED
  BY <1>1, <1>2, <1>3, <1>4, <1>5, <1>6, <1>7, <1>8, <1>9, <1>10, <1>11, <1>12, <1>13, <1>14,
     <1>15, <1>16, <1>17, <1>18, <1>19, <1>20, <1>21, <1>22, <1>23, <1>24, <1>25
     DEF Next, ReaderStep, DeliveryStep, ReadFails, ReadCancelled

-----------------------------------------------------------------------------
(* What follows from the order *)

\* The message a delivery task works on is held.
LEMMA BusyHeld ==
    ASSUME TypeOK, Order, NEW c \in Conns, Busy(c)
    PROVE  Message(c) \in Messages /\ fate[Message(c)] = "held"
<1>1. ConnOrder(c)
  BY DEF Order
<1>2. Received(c) \in Int /\ Received(c) <= framed[c] /\ framed[c] \in 0..MaxOutcomes
  <2>1. framed[c] \in Nat /\ Len(chan[c]) \in Nat /\ framed[c] \in 0..MaxOutcomes
    BY ConnNumbers, ConnTypes
  <2>2. Received(c) \in Int /\ Received(c) <= framed[c] - Len(chan[c])
    BY <2>1, ReceivedRange
  <2>. QED
    BY <2>1, <2>2, SMTT(30)
<1>3. Settled(c) = Received(c) - 1 /\ 0 <= Settled(c)
  BY <1>1, <1>2 DEF Settled, ConnOrder
<1>4. Received(c) \in 1..MaxOutcomes
  BY <1>2, <1>3, LimitsAssumption, SMTT(30)
<1>5. Message(c) = <<c, Received(c)>>
  BY <1>1 DEF ConnOrder, Message
<1>6. fate[<<c, Received(c)>>] = "held"
  <2>1. FatesInOrder(c)
    BY <1>1 DEF ConnOrder
  <2>2. Settled(c) < Received(c)
    BY <1>2, <1>3, SMTT(30)
  <2>. QED
    BY <1>2, <1>4, <2>1, <2>2 DEF FatesInOrder
<1>. QED
  BY <1>4, <1>5, <1>6, SMTT(30) DEF Messages

\* While the delivery task is idle, the head of its channel is held.
LEMMA HeadHeld ==
    ASSUME TypeOK, Order, NEW c \in Conns, ~Busy(c), chan[c] # <<>>
    PROVE  <<c, Head(chan[c])>> \in Messages /\ fate[<<c, Head(chan[c])>>] = "held"
<1>1. ConnOrder(c)
  BY DEF Order
<1>2. Received(c) \in Int /\ Received(c) + 1 <= framed[c] /\ framed[c] \in 0..MaxOutcomes
  <2>1. Len(chan[c]) >= 1
    BY ConnTypes, Taken
  <2>2. framed[c] \in Nat /\ Len(chan[c]) \in Nat /\ framed[c] \in 0..MaxOutcomes
    BY ConnNumbers, ConnTypes
  <2>3. Received(c) \in Int /\ Received(c) <= framed[c] - Len(chan[c])
    BY <2>2, ReceivedRange
  <2>. QED
    BY <2>1, <2>2, <2>3, SMTT(30)
<1>3. Settled(c) = Received(c) /\ 0 <= Settled(c)
  <2>1. 0 <= Settled(c)
    BY <1>1 DEF ConnOrder
  <2>. QED
    BY <1>2, <2>1, SMTT(30) DEF Settled
<1>4. Received(c) + 1 \in 1..MaxOutcomes
  BY <1>2, <1>3, LimitsAssumption, SMTT(30)
<1>5. Head(chan[c]) = Received(c) + 1
  <2>1. Head(chan[c]) = chan[c][1] /\ Len(chan[c]) \in Nat /\ Len(chan[c]) >= 1
    BY ConnTypes, Taken
  <2>2. 1 \in 1..Len(chan[c])
    BY <2>1, SMTT(30)
  <2>. QED
    BY <1>1, <2>1, <2>2 DEF ConnOrder, ChannelInOrder
<1>6. fate[<<c, Received(c) + 1>>] = "held"
  <2>1. FatesInOrder(c)
    BY <1>1 DEF ConnOrder
  <2>2. Settled(c) < Received(c) + 1
    BY <1>2, <1>3, SMTT(30)
  <2>. QED
    BY <1>2, <1>4, <2>1, <2>2 DEF FatesInOrder
<1>. QED
  BY <1>4, <1>5, <1>6 DEF Messages

\* The numbers of a connection's segments.
LEMMA Segments ==
    ASSUME TypeOK, Order, NEW c \in Conns
    PROVE  /\ Received(c) \in Int /\ Len(chan[c]) \in Nat /\ framed[c] \in Nat
           /\ framed[c] <= MaxOutcomes /\ MaxOutcomes \in Nat /\ 0 <= Settled(c)
           /\ framed[c] = Received(c) + Len(chan[c]) + (IF reader[c] = "send" THEN 1 ELSE 0)
           /\ Settled(c) = Received(c) - (IF Busy(c) THEN 1 ELSE 0)
<1>1. /\ framed[c] \in Nat /\ framed[c] <= MaxOutcomes /\ MaxOutcomes \in Nat
      /\ Len(chan[c]) \in Nat
  BY ConnNumbers
<1>2. Received(c) \in Int
  BY <1>1, ReceivedRange
<1>3. framed[c] = Received(c) + Len(chan[c]) + (IF reader[c] = "send" THEN 1 ELSE 0)
  BY <1>1, SMTT(30) DEF Received
<1>4. 0 <= Settled(c)
  BY DEF Order, ConnOrder
<1>. QED
  BY <1>1, <1>2, <1>3, <1>4 DEF Settled

\* The held messages of a connection are those behind the settled ones.
LEMMA HeldSegment ==
    ASSUME TypeOK, Order, NEW c \in Conns, NEW n \in 1..MaxOutcomes
    PROVE  fate[<<c, n>>] = "held" <=> n \in (Settled(c) + 1)..framed[c]
<1>1. Settled(c) \in Int /\ framed[c] \in Nat /\ MaxOutcomes \in Nat
  BY Segments, SMTT(30)
<1>2. FatesInOrder(c)
  BY DEF Order, ConnOrder
<1>3. n <= Settled(c) \/ (Settled(c) < n /\ n <= framed[c]) \/ framed[c] < n
  BY <1>1, SMTT(30)
<1>4. /\ n <= Settled(c) => fate[<<c, n>>] # "held"
      /\ Settled(c) < n /\ n <= framed[c] => fate[<<c, n>>] = "held"
      /\ framed[c] < n => fate[<<c, n>>] # "held"
  BY <1>2 DEF FatesInOrder
<1>. QED
  BY <1>1, <1>3, <1>4, SMTT(30)

\* The next message of a connection has not been framed.
LEMMA NextUnframed ==
    ASSUME TypeOK, Order, NEW c \in Conns, framed[c] + 1 \in 1..MaxOutcomes
    PROVE  fate[<<c, framed[c] + 1>>] = "none"
<1>1. FatesInOrder(c) /\ framed[c] \in Nat
  BY ConnNumbers DEF Order, ConnOrder
<1>2. framed[c] < framed[c] + 1
  BY <1>1, SMTT(30)
<1>. QED
  BY <1>1, <1>2 DEF FatesInOrder

-----------------------------------------------------------------------------
(* Giving up *)

givingUp == token \/ ~receivers

\* Deliveries are discarded, and a connection takes its workers for gone, only
\* once the queue has lost its receivers; nothing is queued after that.
GoneForGood ==
    /\ \A s \in Sources : result[s] = "discarded" => ~receivers
    /\ \A c \in Conns : gone[c] => ~receivers
    /\ ~receivers => queue = <<>>

\* Every step keeps that.
LEMMA GoneNext == TypeOK /\ GoneForGood /\ [Next]_vars => GoneForGood'
<1>. SUFFICES ASSUME TypeOK, GoneForGood, [Next]_vars PROVE GoneForGood'
  OBVIOUS
<1>. USE DEF taskVars, workVars
<1>1. CASE UNCHANGED <<result, gone, receivers, queue>>
  BY <1>1 DEF GoneForGood
<1>2. ASSUME NEW c \in Conns, ReaderStep(c) PROVE GoneForGood'
  BY <1>2, <1>1 DEF ReaderStep, Accept, RefuseConnection, ProxyHeaderComplete,
     ProxyHeaderFails, RejectFrame, FrameMessage, SendPending, Read, ReadFails, ReadCancelled,
     StopReading, EndOfStream, CloseStream
<1>3. ASSUME NEW c \in Conns, DeliveryStep(c) PROVE GoneForGood'
  <2>1. CASE Receive(c) \/ ReceiveWithoutWorkers(c) \/ DeliveryEnds(c) \/ Retry(c)
    BY <2>1, <1>1 DEF Receive, ReceiveWithoutWorkers, DeliveryEnds, Retry
  <2>2. CASE StreamAccepted(c) \/ StreamRefused(c) \/ StreamGivesUp(c)
    <3>1. UNCHANGED <<gone, receivers, queue>> /\ result' = [result EXCEPT ![c] = "none"]
      BY <2>2 DEF StreamAccepted, StreamRefused, StreamGivesUp
    <3>. QED
      BY <3>1, StateTypes DEF GoneForGood
  <2>3. CASE StreamUnavailable(c)
    <3>1. /\ UNCHANGED <<receivers, queue>> /\ result' = [result EXCEPT ![c] = "none"]
          /\ gone' = [gone EXCEPT ![c] = TRUE]
      BY <2>3 DEF StreamUnavailable
    <3>2. ~receivers
      BY <2>3 DEF StreamUnavailable, Unavailable, GoneForGood, Sources
    <3>. QED
      BY <3>1, <3>2 DEF GoneForGood
  <2>. QED
    BY <1>3, <2>1, <2>2, <2>3 DEF DeliveryStep
<1>4. ASSUME NEW d \in Datagrams, DatagramStep(d) PROVE GoneForGood'
  BY <1>4, <1>1 DEF DatagramStep, DatagramTruncated, DatagramWithoutCredit,
     DatagramReceived, DatagramAccepted, DatagramRefused, DatagramUnavailable
<1>5. ASSUME NEW s \in Sources, Offer(s) PROVE GoneForGood'
  BY <1>5 DEF Offer, GoneForGood
<1>6. ASSUME NEW w \in Workers, WorkerStep(w) PROVE GoneForGood'
  <2>1. CASE StartWorker(w)
    BY <2>1, <1>1 DEF StartWorker
  <2>2. CASE TakeDelivery(w)
    BY <2>2 DEF TakeDelivery, GoneForGood
  <2>3. CASE CallBlock(w)
    <3>1. UNCHANGED <<gone, receivers, queue>>
      BY <2>3 DEF CallBlock
    <3>2. \A s \in Sources : result'[s] = "discarded" => result[s] = "discarded"
      <4>1. PICK verdict \in HandlerResult :
              result' = IF Alive THEN [result EXCEPT ![Head(hand[w]).src] = verdict] ELSE result
        BY <2>3, VerdictsAssumption DEF CallBlock
      <4>. QED
        BY <4>1, StateTypes DEF HandlerResult
    <3>. QED
      BY <3>1, <3>2 DEF GoneForGood
  <2>. QED
    BY <1>6, <2>1, <2>2, <2>3 DEF WorkerStep
<1>7. ASSUME NEW l \in {"stream", "datagram"}, ListenerStops(l) PROVE GoneForGood'
  BY <1>7, <1>1 DEF ListenerStops
<1>8. CASE StopStep
  <2>1. CASE ReplaceReceiver
    BY <2>1 DEF ReplaceReceiver, GoneForGood
  <2>. QED
    BY <1>8, <2>1, <1>1 DEF StopStep, StopAccepting, DrainCompletes, DrainTimesOut, RecordAbandoned,
                            DropRuntime
<1>9. CASE UNCHANGED vars
  BY <1>9, <1>1 DEF vars
<1>. QED
  BY <1>2, <1>3, <1>4, <1>5, <1>6, <1>7, <1>8, <1>9 DEF Next

\* drain takes the gauge into its hands only when its limit passes, once.
DrainOnce ==
    /\ phase \in {"serving", "draining"} => swapped = 0
    /\ phase = "recording" => timedOut

\* stop() drains once.
LEMMA DrainOnceNext == TypeOK /\ DrainOnce /\ [Next]_vars => DrainOnce'
<1>. SUFFICES ASSUME TypeOK, DrainOnce, [Next]_vars PROVE DrainOnce'
  OBVIOUS
<1>1. CASE UNCHANGED <<phase, swapped, timedOut>>
  BY <1>1 DEF DrainOnce
<1>2. CASE StopStep
  BY <1>2 DEF StopStep, StopAccepting, DrainCompletes, DrainTimesOut, RecordAbandoned, DropRuntime,
              ReplaceReceiver, stopVars, DrainOnce
<1>3. ASSUME NEW c \in Conns, ReaderStep(c) PROVE DrainOnce'
  BY <1>3, <1>1 DEF ReaderStep, stopVars, Accept, RefuseConnection, ProxyHeaderComplete,
     ProxyHeaderFails, RejectFrame, FrameMessage, SendPending, Read, ReadFails, ReadCancelled,
     StopReading, EndOfStream, CloseStream
<1>4. ASSUME NEW c \in Conns, DeliveryStep(c) PROVE DrainOnce'
  BY <1>4, <1>1 DEF DeliveryStep, stopVars, Receive, ReceiveWithoutWorkers, DeliveryEnds,
     StreamAccepted, StreamRefused, StreamGivesUp, Retry, StreamUnavailable
<1>5. ASSUME NEW d \in Datagrams, DatagramStep(d) PROVE DrainOnce'
  BY <1>5, <1>1 DEF DatagramStep, stopVars, DatagramTruncated, DatagramWithoutCredit,
     DatagramReceived, DatagramAccepted, DatagramRefused, DatagramUnavailable
<1>6. ASSUME NEW s \in Sources, Offer(s) PROVE DrainOnce'
  BY <1>6, <1>1 DEF Offer, stopVars
<1>7. ASSUME NEW w \in Workers, WorkerStep(w) PROVE DrainOnce'
  BY <1>7, <1>1 DEF WorkerStep, stopVars, StartWorker, TakeDelivery, CallBlock
<1>8. ASSUME NEW l \in {"stream", "datagram"}, ListenerStops(l) PROVE DrainOnce'
  BY <1>8, <1>1 DEF ListenerStops
<1>9. CASE UNCHANGED vars
  BY <1>9, <1>1 DEF vars, stopVars
<1>. QED
  BY <1>2, <1>3, <1>4, <1>5, <1>6, <1>7, <1>8, <1>9 DEF Next

-----------------------------------------------------------------------------
(* The invariant *)

\* Every theorem about SyslogDelivery rests on this invariant.
IInv == TypeOK /\ Order /\ DrainOnce /\ GoneForGood

\* The inductive invariant holds in every reachable state.
LEMMA Invariant == Spec => []IInv
<1>1. Init => IInv
  <2>1. Init => DrainOnce /\ GoneForGood
    BY DEF Init, DrainOnce, GoneForGood
  <2>. QED
    BY <2>1, TypeInit, OrderInit DEF IInv
<1>2. IInv /\ [Next]_vars => IInv'
  BY TypeNext, OrderNext, DrainOnceNext, GoneNext DEF IInv
<1>. QED
  BY <1>1, <1>2, PTL DEF Spec

\* The variables keep their types: in particular the saturating gauge never
\* underflows and a connection's numbering stays within what its peer sent.
THEOREM TypeCorrect == Spec => []TypeOK
<1>1. IInv => TypeOK
  BY DEF IInv
<1>. QED
  BY <1>1, Invariant, PTL
=============================================================================
