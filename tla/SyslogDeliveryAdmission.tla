---------------------- MODULE SyslogDeliveryAdmission -----------------------
(***************************************************************************)
(* What SyslogDelivery promises its peers: that it counts every message    *)
(* and holds no more than its limits, and that it implements               *)
(* SyslogAdmission, for any number of connections, datagrams and workers   *)
(* and any limits.  From Order follows that a message being settled was    *)
(* held until then, which is what the accounting needs.                    *)
(***************************************************************************)
EXTENDS SyslogDeliveryOrder, FiniteSetTheorems

\* Zenon proves a leaf that names no other prover.
USE ZenonT(30)

-----------------------------------------------------------------------------
(* Accounting *)

\* There are finitely many messages, so they can be counted by fate.
LEMMA FatesFinite ==
    /\ IsFiniteSet(Messages)
    /\ \A f : IsFiniteSet(WithFate(f)) /\ Cardinality(WithFate(f)) \in Nat
<1>0. MaxOutcomes \in Int /\ 1 \in Int
  BY LimitsAssumption, SMTT(30)
<1>1a. IsFiniteSet(1..MaxOutcomes)
  BY <1>0, FS_Interval
<1>1. IsFiniteSet(1..MaxOutcomes) /\ IsFiniteSet({1})
  BY <1>1a, FS_Singleton
<1>2. IsFiniteSet(Conns \X (1..MaxOutcomes)) /\ IsFiniteSet(Datagrams \X {1})
  BY <1>1, SourcesAssumption, FS_Product
<1>3. IsFiniteSet(Messages)
  BY <1>2, FS_Union DEF Messages
<1>4. ASSUME NEW f PROVE IsFiniteSet(WithFate(f)) /\ Cardinality(WithFate(f)) \in Nat
  <2>1. WithFate(f) \subseteq Messages
    BY DEF WithFate
  <2>. QED
    BY <1>3, <2>1, FS_Subset, FS_CardinalityType
<1>. QED
  BY <1>3, <1>4

\* Message m goes from fate f to fate g.
Moves(m, f, g) == m \in Messages /\ f # g /\ fate[m] = f /\ fate' = [fate EXCEPT ![m] = g]

\* When one message changes its fate, the old one loses it and the new one
\* gains it.
LEMMA FateMoves ==
    ASSUME TypeOK, NEW m, NEW f, NEW g, Moves(m, f, g)
    PROVE  /\ Cardinality(WithFate(f)') = Cardinality(WithFate(f)) - 1
           /\ Cardinality(WithFate(g)') = Cardinality(WithFate(g)) + 1
           /\ \A h : h # f /\ h # g => WithFate(h)' = WithFate(h)
           /\ Cardinality(WithFate(f)) >= 1
<1>1. \A n \in Messages : fate'[n] = IF n = m THEN g ELSE fate[n]
  BY StateTypes, SMTT(30) DEF Moves
<1>2. WithFate(f)' = WithFate(f) \ {m} /\ m \in WithFate(f)
  BY <1>1, SMTT(30) DEF WithFate, Moves
<1>3. WithFate(g)' = WithFate(g) \cup {m} /\ m \notin WithFate(g)
  BY <1>1 DEF WithFate, Moves
<1>4. \A h : h # f /\ h # g => WithFate(h)' = WithFate(h)
  BY <1>1 DEF WithFate, Moves
<1>5. IsFiniteSet(WithFate(f)) /\ IsFiniteSet(WithFate(g)) /\ Cardinality(WithFate(f)) \in Nat
  BY FatesFinite
<1>6. Cardinality(WithFate(f)') = Cardinality(WithFate(f)) - 1
  BY <1>2, <1>5, FS_RemoveElement
<1>7. Cardinality(WithFate(g)') = Cardinality(WithFate(g)) + 1
  BY <1>3, <1>5, FS_AddElement
<1>8. Cardinality(WithFate(f)') \in Nat
  BY <1>2, <1>5, FS_RemoveElement, FS_CardinalityType
<1>9. Cardinality(WithFate(f)) >= 1
  BY <1>5, <1>6, <1>8, SMTT(30)
<1>. QED
  BY <1>4, <1>6, <1>7, <1>9

\* Every permit is free or owned by a held message.
PermitsKept == credits \in Nat /\ credits + Cardinality(Held) = MaxPending

Accounting == StatsExact /\ NothingUncounted /\ PermitsKept

\* The counters the accounting is about.
Ledger(st) == <<st["messages_delivered"], st["udp_dropped"], st["pending"],
                st["abandoned_at_shutdown"]>>

\* A step that settles no message and leaves those counters alone.
LEMMA AccountsUntouched ==
    ASSUME Accounting, fate' = fate, Ledger(stats') = Ledger(stats),
           UNCHANGED <<swapped, timedOut, credits>>
    PROVE  Accounting'
<1>1. \A f : WithFate(f)' = WithFate(f)
  BY DEF WithFate
<1>2. /\ stats'["messages_delivered"] = stats["messages_delivered"]
      /\ stats'["udp_dropped"] = stats["udp_dropped"]
      /\ stats'["pending"] = stats["pending"]
      /\ stats'["abandoned_at_shutdown"] = stats["abandoned_at_shutdown"]
  BY DEF Ledger
<1>. QED
  BY <1>1, <1>2 DEF Accounting, StatsExact, NothingUncounted, PermitsKept, Held

\* A message takes a permit.
LEMMA AccountsHold ==
    ASSUME TypeOK, Accounting, NEW m, Moves(m, "none", "held"), credits > 0,
           credits' = credits - 1,
           stats' = Count(stats, "pending"),
           UNCHANGED <<swapped, timedOut>>
    PROVE  Accounting'
<1>1. /\ Cardinality(WithFate("held")') = Cardinality(WithFate("held")) + 1
      /\ \A h \in {"admitted", "abandoned", "dropped"} : WithFate(h)' = WithFate(h)
  BY FateMoves, SMTT(30)
<1>2. /\ "messages_delivered" \in Counters /\ "udp_dropped" \in Counters
      /\ "pending" \in Counters /\ "abandoned_at_shutdown" \in Counters
  BY DEF Counters
<1>3a. stats \in [Counters -> Nat]
  BY StateTypes
<1>3b. /\ Count(stats, "pending")["pending"] = stats["pending"] + 1
       /\ \A j \in Counters \ {"pending"} : Count(stats, "pending")[j] = stats[j]
  BY <1>2, <1>3a, CountStats
<1>3. /\ stats'["pending"] = stats["pending"] + 1
      /\ stats'["messages_delivered"] = stats["messages_delivered"]
      /\ stats'["udp_dropped"] = stats["udp_dropped"]
      /\ stats'["abandoned_at_shutdown"] = stats["abandoned_at_shutdown"]
  BY <1>2, <1>3b
<1>4. stats["pending"] \in Nat /\ stats["abandoned_at_shutdown"] \in Nat /\ swapped \in Nat
  BY <1>2, StateTypes
<1>5. \A f : Cardinality(WithFate(f)) \in Nat
  BY FatesFinite
<1>6. credits \in Nat
  BY DEF Accounting, PermitsKept
<1>. QED
  BY <1>1, <1>3, <1>4, <1>5, <1>6, SMTT(30) DEF Accounting, StatsExact, NothingUncounted, PermitsKept, Held

\* A held message is settled with fate f, and every counter follows: f gains
\* one, the gauge goes down unless a timed-out drain has already cleared it.
LEMMA AccountsSettle ==
    ASSUME TypeOK, Accounting, NEW m, NEW f \in {"admitted", "abandoned", "dropped"},
           Moves(m, "held", f), credits' = credits + 1,
           stats'["pending"] = (IF stats["pending"] = 0 THEN 0 ELSE stats["pending"] - 1),
           stats'["messages_delivered"]
             = stats["messages_delivered"] + (IF f = "admitted" THEN 1 ELSE 0),
           stats'["abandoned_at_shutdown"]
             = stats["abandoned_at_shutdown"] + (IF f = "abandoned" THEN 1 ELSE 0),
           stats'["udp_dropped"] = stats["udp_dropped"] + (IF f = "dropped" THEN 1 ELSE 0),
           UNCHANGED <<swapped, timedOut>>
    PROVE  Accounting'
<1>1. /\ Cardinality(WithFate("held")') = Cardinality(WithFate("held")) - 1
      /\ Cardinality(WithFate("held")) >= 1
      /\ Cardinality(WithFate(f)') = Cardinality(WithFate(f)) + 1
      /\ \A h : h # "held" /\ h # f => WithFate(h)' = WithFate(h)
  BY FateMoves, SMTT(30)
<1>2. /\ "messages_delivered" \in Counters /\ "udp_dropped" \in Counters
      /\ "pending" \in Counters /\ "abandoned_at_shutdown" \in Counters
  BY DEF Counters
<1>3. /\ stats["pending"] \in Nat /\ stats["abandoned_at_shutdown"] \in Nat /\ swapped \in Nat
      /\ stats["messages_delivered"] \in Nat /\ stats["udp_dropped"] \in Nat
  BY <1>2, StateTypes
<1>4. \A h : Cardinality(WithFate(h)) \in Nat
  BY FatesFinite
<1>5. PermitsKept'
  BY <1>1, <1>4, LimitsAssumption, SMTT(30) DEF Accounting, PermitsKept, Held
<1>6. StatsExact' /\ NothingUncounted'
  <2>1. CASE f = "admitted"
    BY <2>1, <1>1, <1>3, <1>4, SMTT(30) DEF Accounting, StatsExact, NothingUncounted, Held
  <2>2. CASE f = "abandoned"
    BY <2>2, <1>1, <1>3, <1>4, SMTT(30) DEF Accounting, StatsExact, NothingUncounted, Held
  <2>3. CASE f = "dropped"
    BY <2>3, <1>1, <1>3, <1>4, SMTT(30) DEF Accounting, StatsExact, NothingUncounted, Held
  <2>. QED
    BY <2>1, <2>2, <2>3
<1>. QED
  BY <1>5, <1>6 DEF Accounting

\* A datagram that finds no permit is dropped and counted.
LEMMA AccountsDrop ==
    ASSUME TypeOK, Accounting, NEW m, Moves(m, "none", "dropped"),
           stats' = Count(stats, "udp_dropped"), UNCHANGED <<swapped, timedOut, credits>>
    PROVE  Accounting'
<1>1. /\ Cardinality(WithFate("dropped")') = Cardinality(WithFate("dropped")) + 1
      /\ \A h \in {"admitted", "abandoned", "held"} : WithFate(h)' = WithFate(h)
  BY FateMoves, SMTT(30)
<1>2. /\ "messages_delivered" \in Counters /\ "udp_dropped" \in Counters
      /\ "pending" \in Counters /\ "abandoned_at_shutdown" \in Counters
  BY DEF Counters
<1>3. stats \in [Counters -> Nat]
  BY StateTypes
<1>4. /\ Count(stats, "udp_dropped")["udp_dropped"] = stats["udp_dropped"] + 1
      /\ \A j \in Counters \ {"udp_dropped"} : Count(stats, "udp_dropped")[j] = stats[j]
  BY <1>2, <1>3, CountStats
<1>5. /\ stats'["udp_dropped"] = stats["udp_dropped"] + 1
      /\ stats'["messages_delivered"] = stats["messages_delivered"]
      /\ stats'["pending"] = stats["pending"]
      /\ stats'["abandoned_at_shutdown"] = stats["abandoned_at_shutdown"]
  BY <1>2, <1>4
<1>. QED
  BY <1>1, <1>5 DEF Accounting, StatsExact, NothingUncounted, PermitsKept, Held

\* A drain that times out moves the gauge into its own hands and then to the
\* abandoned messages.
LEMMA DrainKeepsAccounts ==
    ASSUME TypeOK, DrainOnce, Accounting, DrainTimesOut \/ RecordAbandoned
    PROVE  Accounting'
<1>1. (\A f : WithFate(f)' = WithFate(f)) /\ credits' = credits
  BY DEF DrainTimesOut, RecordAbandoned, WithFate
<1>2. /\ "messages_delivered" \in Counters /\ "udp_dropped" \in Counters
      /\ "pending" \in Counters /\ "abandoned_at_shutdown" \in Counters
  BY DEF Counters
<1>3. stats \in [Counters -> Nat] /\ swapped \in Nat
  BY StateTypes
<1>4. CASE DrainTimesOut
  <2>1. /\ stats'["pending"] = 0 /\ swapped' = stats["pending"] /\ timedOut'
        /\ swapped = 0
        /\ \A k \in Counters \ {"pending"} : stats'[k] = stats[k]
    BY <1>2, <1>3, <1>4 DEF DrainTimesOut, DrainOnce
  <2>. QED
    BY <1>1, <1>2, <1>3, <2>1, SMTT(30)
    DEF Accounting, StatsExact, NothingUncounted, PermitsKept, Held
<1>5. CASE RecordAbandoned
  <2>1. /\ stats'["abandoned_at_shutdown"] = stats["abandoned_at_shutdown"] + swapped
        /\ swapped' = 0 /\ timedOut'
        /\ \A k \in Counters \ {"abandoned_at_shutdown"} : stats'[k] = stats[k]
    BY <1>2, <1>3, <1>5 DEF RecordAbandoned, DrainOnce
  <2>. QED
    BY <1>1, <1>2, <1>3, <2>1, SMTT(30)
    DEF Accounting, StatsExact, NothingUncounted, PermitsKept, Held
<1>. QED
  BY <1>4, <1>5

\* Nothing is held and nothing counted at the start.
LEMMA AccountingInit == Init => Accounting
<1>. SUFFICES ASSUME Init PROVE Accounting
  OBVIOUS
<1>1. \A f : f # "none" => WithFate(f) = {}
  BY DEF Init, WithFate
<1>2. \A f \in {"held", "admitted", "abandoned", "dropped"} : Cardinality(WithFate(f)) = 0
  BY <1>1, FS_EmptySet
<1>3. /\ stats["messages_delivered"] = 0 /\ stats["udp_dropped"] = 0
      /\ stats["pending"] = 0 /\ stats["abandoned_at_shutdown"] = 0 /\ swapped = 0
      /\ credits = MaxPending
  BY DEF Init, Counters
<1>. QED
  BY <1>2, <1>3, LimitsAssumption, SMTT(30) DEF Accounting, StatsExact, NothingUncounted, PermitsKept, Held

\* Every step keeps the accounts, because a message that is settled was held.
LEMMA AccountingNext == TypeOK /\ Order /\ DrainOnce /\ Accounting /\ [Next]_vars => Accounting'
<1>. SUFFICES ASSUME TypeOK, Order, DrainOnce, Accounting, [Next]_vars PROVE Accounting'
  OBVIOUS
<1>. USE DEF connVars, taskVars, stopVars
<1>a. /\ "connections_opened" \in Counters /\ "connections_closed" \in Counters
      /\ "connections_refused" \in Counters /\ "proxy_errors" \in Counters
      /\ "frames_rejected" \in Counters /\ "udp_truncated" \in Counters
      /\ "deliveries_refused" \in Counters /\ "handler_errors" \in Counters
      /\ "messages_delivered" \in Counters /\ "udp_dropped" \in Counters
      /\ "pending" \in Counters /\ "abandoned_at_shutdown" \in Counters
  BY DEF Counters
<1>b. stats \in [Counters -> Nat]
  BY StateTypes
<1>c. ASSUME NEW st \in [Counters -> Nat], NEW k \in Counters,
             k \notin {"messages_delivered", "udp_dropped", "pending", "abandoned_at_shutdown"}
      PROVE  Ledger(Count(st, k)) = Ledger(st) /\ Count(st, k) \in [Counters -> Nat]
  BY <1>a, <1>c, CountStats, SMTT(30) DEF Ledger
<1>d. ASSUME UNCHANGED <<stats, fate, swapped, timedOut, credits>> PROVE Accounting'
  BY <1>d, AccountsUntouched
<1>1. ASSUME NEW c \in Conns, Accept(c) PROVE Accounting'
  BY <1>1, <1>a, <1>b, <1>c, AccountsUntouched DEF Accept
<1>2. ASSUME NEW c \in Conns, RefuseConnection(c) PROVE Accounting'
  BY <1>2, <1>a, <1>b, <1>c, AccountsUntouched DEF RefuseConnection
<1>3. ASSUME NEW c \in Conns, ProxyHeaderComplete(c) PROVE Accounting'
  BY <1>3, <1>d DEF ProxyHeaderComplete
<1>4. ASSUME NEW c \in Conns, ProxyHeaderFails(c) PROVE Accounting'
  BY <1>4, <1>a, <1>b, <1>c, AccountsUntouched DEF ProxyHeaderFails
<1>5. ASSUME NEW c \in Conns, RejectFrame(c) PROVE Accounting'
  BY <1>5, <1>a, <1>b, <1>c, AccountsUntouched DEF RejectFrame
<1>6. ASSUME NEW c \in Conns, FrameMessage(c) PROVE Accounting'
  <2>1. framed[c] + 1 \in 1..MaxOutcomes
    <3>1. Len(buffer[c]) >= 1 /\ framed[c] \in Nat /\ sent[c] \in 0..MaxOutcomes
      BY <1>6, StateTypes, SMTT(30) DEF FrameMessage, Waiting
    <3>2. framed[c] + Len(buffer[c]) <= sent[c]
      BY DEF Order, ConnOrder
    <3>3. Len(buffer[c]) \in Nat
      BY StateTypes, SMTT(30)
    <3>. QED
      BY <3>1, <3>2, <3>3, LimitsAssumption, SMTT(30)
  <2>2. fate[<<c, framed[c] + 1>>] = "none"
    BY <2>1, StateTypes, SMTT(30) DEF Order, ConnOrder, FatesInOrder
  <2>3. Moves(<<c, framed[c] + 1>>, "none", "held")
    BY <1>6, <2>1, <2>2 DEF Moves, Messages, FrameMessage
  <2>. QED
    BY <1>6, <2>3, AccountsHold DEF FrameMessage
<1>7. ASSUME NEW c \in Conns, SendPending(c) PROVE Accounting'
  BY <1>7, <1>d DEF SendPending
<1>8. ASSUME NEW c \in Conns, Read(c) PROVE Accounting'
  BY <1>8, <1>d DEF Read
<1>9. ASSUME NEW c \in Conns, StopReading(c) PROVE Accounting'
  BY <1>9, <1>d DEF StopReading
<1>10. ASSUME NEW c \in Conns, EndOfStream(c) PROVE Accounting'
  BY <1>10, <1>d DEF EndOfStream
<1>11. ASSUME NEW c \in Conns, CloseStream(c) PROVE Accounting'
  BY <1>11, <1>a, <1>b, <1>c, AccountsUntouched DEF CloseStream
<1>12. ASSUME NEW c \in Conns, Receive(c) PROVE Accounting'
  BY <1>12, <1>d DEF Receive
<1>13. ASSUME NEW c \in Conns, ReceiveWithoutWorkers(c) PROVE Accounting'
  <2>1. ~Busy(c) /\ chan[c] # <<>>
    BY <1>13 DEF ReceiveWithoutWorkers, Busy
  <2>2. Moves(<<c, Head(chan[c])>>, "held", "abandoned")
    BY <1>13, <2>1, HeadHeld DEF Moves, ReceiveWithoutWorkers
  <2>3. stats' = AbandonPending(stats) /\ credits' = credits + 1 /\ UNCHANGED <<swapped, timedOut>>
    BY <1>13 DEF ReceiveWithoutWorkers
  <2>4. /\ stats'["abandoned_at_shutdown"] = stats["abandoned_at_shutdown"] + 1
        /\ stats'["pending"] = IF stats["pending"] = 0 THEN 0 ELSE stats["pending"] - 1
        /\ stats'["messages_delivered"] = stats["messages_delivered"] + 0
        /\ stats'["udp_dropped"] = stats["udp_dropped"] + 0
    BY <2>3, <1>a, <1>b, AbandonStats, SMTT(30)
  <2>. QED
    BY <2>2, <2>3, <2>4, AccountsSettle
<1>14. ASSUME NEW c \in Conns, DeliveryEnds(c) PROVE Accounting'
  BY <1>14, <1>d DEF DeliveryEnds
<1>e. ASSUME NEW r \in {"Refused", "Failed"}
      PROVE  Ledger(CountResult(stats, r)) = Ledger(stats) /\ CountResult(stats, r) \in [Counters -> Nat]
  <2>1. r \in HandlerResult /\ r # "Accepted"
    BY DEF HandlerResult
  <2>2. stats["messages_delivered"] + 0 = stats["messages_delivered"]
    BY <1>a, <1>b, SMTT(30)
  <2>. QED
    BY <1>b, <2>1, <2>2, ResultStats DEF Ledger
<1>f. /\ CountResult(stats, "Accepted") \in [Counters -> Nat]
      /\ CountResult(stats, "Accepted")["messages_delivered"] = stats["messages_delivered"] + 1
      /\ CountResult(stats, "Accepted")["udp_dropped"] = stats["udp_dropped"] + 0
      /\ CountResult(stats, "Accepted")["pending"] = stats["pending"]
      /\ CountResult(stats, "Accepted")["abandoned_at_shutdown"] = stats["abandoned_at_shutdown"] + 0
  <2>1. "Accepted" \in HandlerResult
    BY DEF HandlerResult
  <2>2. stats["udp_dropped"] + 0 = stats["udp_dropped"]
        /\ stats["abandoned_at_shutdown"] + 0 = stats["abandoned_at_shutdown"]
    BY <1>a, <1>b, SMTT(30)
  <2>. QED
    BY <1>b, <2>1, <2>2, ResultStats
<1>g. LET st == ReleasePending(CountResult(stats, "Accepted"))
      IN /\ st["pending"] = IF stats["pending"] = 0 THEN 0 ELSE stats["pending"] - 1
         /\ st["messages_delivered"] = stats["messages_delivered"] + 1
         /\ st["abandoned_at_shutdown"] = stats["abandoned_at_shutdown"] + 0
         /\ st["udp_dropped"] = stats["udp_dropped"] + 0
  BY <1>a, <1>f, ReleaseStats
<1>15. ASSUME NEW c \in Conns, StreamAccepted(c) PROVE Accounting'
  <2>1. Busy(c)
    BY <1>15 DEF StreamAccepted, Answered, Busy
  <2>2. Moves(Message(c), "held", "admitted")
    BY <1>15, <2>1, BusyHeld DEF Moves, StreamAccepted
  <2>3. stats' = ReleasePending(CountResult(stats, "Accepted"))
        /\ credits' = credits + 1 /\ UNCHANGED <<swapped, timedOut>>
    BY <1>15 DEF StreamAccepted
  <2>. QED
    BY <1>g, <2>2, <2>3, AccountsSettle
<1>16. ASSUME NEW c \in Conns, StreamRefused(c) PROVE Accounting'
  BY <1>16, <1>e, AccountsUntouched DEF StreamRefused, Answered
<1>17. ASSUME NEW c \in Conns, StreamGivesUp(c) PROVE Accounting'
  <2>1. Busy(c)
    BY <1>17 DEF StreamGivesUp, Answered, Busy
  <2>2. Moves(Message(c), "held", "abandoned")
    BY <1>17, <2>1, BusyHeld DEF Moves, StreamGivesUp
  <2>3. /\ stats' = AbandonPending(CountResult(stats, result[c]))
        /\ credits' = credits + 1 /\ UNCHANGED <<swapped, timedOut>>
        /\ result[c] \in {"Refused", "Failed"}
    BY <1>17 DEF StreamGivesUp, Answered
  <2>4. Ledger(CountResult(stats, result[c])) = Ledger(stats)
        /\ CountResult(stats, result[c]) \in [Counters -> Nat]
    BY <1>e, <2>3
  <2>5. /\ stats'["abandoned_at_shutdown"] = stats["abandoned_at_shutdown"] + 1
        /\ stats'["pending"] = IF stats["pending"] = 0 THEN 0 ELSE stats["pending"] - 1
        /\ stats'["messages_delivered"] = stats["messages_delivered"] + 0
        /\ stats'["udp_dropped"] = stats["udp_dropped"] + 0
    BY <2>3, <2>4, <1>a, <1>b, AbandonStats, SMTT(30) DEF Ledger
  <2>. QED
    BY <2>2, <2>3, <2>5, AccountsSettle
<1>18. ASSUME NEW c \in Conns, Retry(c) PROVE Accounting'
  BY <1>18, <1>d DEF Retry
<1>19. ASSUME NEW c \in Conns, StreamUnavailable(c) PROVE Accounting'
  <2>1. Busy(c)
    BY <1>19 DEF StreamUnavailable, Unavailable, Busy
  <2>2. Moves(Message(c), "held", "abandoned")
    BY <1>19, <2>1, BusyHeld DEF Moves, StreamUnavailable
  <2>3. stats' = AbandonPending(stats) /\ credits' = credits + 1 /\ UNCHANGED <<swapped, timedOut>>
    BY <1>19 DEF StreamUnavailable
  <2>4. /\ stats'["abandoned_at_shutdown"] = stats["abandoned_at_shutdown"] + 1
        /\ stats'["pending"] = IF stats["pending"] = 0 THEN 0 ELSE stats["pending"] - 1
        /\ stats'["messages_delivered"] = stats["messages_delivered"] + 0
        /\ stats'["udp_dropped"] = stats["udp_dropped"] + 0
    BY <2>3, <1>a, <1>b, AbandonStats, SMTT(30)
  <2>. QED
    BY <2>2, <2>3, <2>4, AccountsSettle
<1>20. ASSUME NEW d \in Datagrams, DatagramStep(d) PROVE Accounting'
  <2>1. <<d, 1>> \in Messages /\ DatagramOrder(d)
    BY DEF Messages, Order
  <2>2. CASE DatagramTruncated(d)
    BY <2>2, <1>a, <1>b, <1>c, AccountsUntouched DEF DatagramTruncated
  <2>3. CASE DatagramWithoutCredit(d)
    <3>1. Moves(<<d, 1>>, "none", "dropped")
      BY <2>1, <2>3 DEF Moves, DatagramWithoutCredit, Receiving, DatagramOrder
    <3>2. stats' = Count(stats, "udp_dropped") /\ UNCHANGED <<swapped, timedOut, credits>>
      BY <2>3 DEF DatagramWithoutCredit
    <3>. QED
      BY <3>1, <3>2, AccountsDrop
  <2>4. CASE DatagramReceived(d)
    <3>1. Moves(<<d, 1>>, "none", "held")
      BY <2>1, <2>4 DEF Moves, DatagramReceived, Receiving, DatagramOrder
    <3>. QED
      BY <2>4, <3>1, AccountsHold DEF DatagramReceived
  <2>5. CASE DatagramAccepted(d)
    <3>1. Moves(<<d, 1>>, "held", "admitted")
      BY <2>1, <2>5 DEF Moves, DatagramAccepted, Answered, DatagramOrder
    <3>2. stats' = ReleasePending(CountResult(stats, "Accepted"))
          /\ credits' = credits + 1 /\ UNCHANGED <<swapped, timedOut>>
      BY <2>5 DEF DatagramAccepted
    <3>. QED
      BY <1>g, <3>1, <3>2, AccountsSettle
  <2>6. ASSUME NEW st \in [Counters -> Nat], Ledger(st) = Ledger(stats), Moves(<<d, 1>>, "held", "dropped"),
               stats' = ReleasePending(Count(st, "udp_dropped")), credits' = credits + 1,
               UNCHANGED <<swapped, timedOut>>
        PROVE  Accounting'
    <3>1. /\ Count(st, "udp_dropped") \in [Counters -> Nat]
          /\ Count(st, "udp_dropped")["udp_dropped"] = st["udp_dropped"] + 1
          /\ \A j \in Counters \ {"udp_dropped"} : Count(st, "udp_dropped")[j] = st[j]
      BY <1>a, CountStats
    <3>2. /\ st["udp_dropped"] = stats["udp_dropped"] /\ st["pending"] = stats["pending"]
          /\ st["messages_delivered"] = stats["messages_delivered"] + 0
          /\ st["abandoned_at_shutdown"] = stats["abandoned_at_shutdown"] + 0
      BY <1>a, <1>b, <2>6, SMTT(30) DEF Ledger
    <3>3. /\ stats'["pending"] = IF stats["pending"] = 0 THEN 0 ELSE stats["pending"] - 1
          /\ stats'["messages_delivered"] = stats["messages_delivered"] + 0
          /\ stats'["abandoned_at_shutdown"] = stats["abandoned_at_shutdown"] + 0
          /\ stats'["udp_dropped"] = stats["udp_dropped"] + 1
      BY <1>a, <2>6, <3>1, <3>2, ReleaseStats, SMTT(30)
    <3>. QED
      BY <2>6, <3>3, AccountsSettle
  <2>7. CASE DatagramRefused(d)
    <3>1. Moves(<<d, 1>>, "held", "dropped")
      BY <2>1, <2>7 DEF Moves, DatagramRefused, Answered, DatagramOrder
    <3>2. result[d] \in {"Refused", "Failed"}
          /\ credits' = credits + 1 /\ UNCHANGED <<swapped, timedOut>>
          /\ stats' = ReleasePending(Count(CountResult(stats, result[d]), "udp_dropped"))
      BY <2>7 DEF DatagramRefused, Answered
    <3>. QED
      BY <1>e, <2>6, <3>1, <3>2
  <2>8. CASE DatagramUnavailable(d)
    <3>1. Moves(<<d, 1>>, "held", "dropped")
      BY <2>1, <2>8 DEF Moves, DatagramUnavailable, Unavailable, DatagramOrder
    <3>2. stats' = ReleasePending(Count(stats, "udp_dropped"))
          /\ credits' = credits + 1 /\ UNCHANGED <<swapped, timedOut>>
      BY <2>8 DEF DatagramUnavailable
    <3>. QED
      BY <1>b, <2>6, <3>1, <3>2
  <2>. QED
    BY <1>20, <2>2, <2>3, <2>4, <2>5, <2>7, <2>8 DEF DatagramStep
<1>21. ASSUME NEW s \in Sources, Offer(s) PROVE Accounting'
  BY <1>21, <1>d DEF Offer
<1>22. ASSUME NEW w \in Workers, WorkerStep(w) PROVE Accounting'
  BY <1>22, <1>d DEF WorkerStep, StartWorker, TakeDelivery, CallBlock
<1>23. ASSUME NEW l \in {"stream", "datagram"}, ListenerStops(l) PROVE Accounting'
  BY <1>23, <1>d DEF ListenerStops
<1>24. CASE DrainTimesOut \/ RecordAbandoned
  BY <1>24, DrainKeepsAccounts
<1>25. CASE StopAccepting \/ DrainCompletes \/ DropRuntime \/ ReplaceReceiver
  BY <1>25, <1>d DEF StopAccepting, DrainCompletes, DropRuntime, ReplaceReceiver
<1>26. CASE UNCHANGED vars
  BY <1>26, <1>d DEF vars
<1>. QED
  BY <1>1, <1>2, <1>3, <1>4, <1>5, <1>6, <1>7, <1>8, <1>9, <1>10, <1>11, <1>12, <1>13, <1>14,
     <1>15, <1>16, <1>17, <1>18, <1>19, <1>20, <1>21, <1>22, <1>23, <1>24, <1>25, <1>26
     DEF Next, ReaderStep, DeliveryStep, ReadFails, ReadCancelled, StopStep

\* The accounts hold in every reachable state.
LEMMA AccountsInvariant == Spec => []Accounting
<1>1. IInv /\ Accounting /\ [Next]_vars => Accounting'
  BY AccountingNext DEF IInv
<1>. QED
  BY <1>1, AccountingInit, Invariant, PTL DEF Spec

\* Until a drain times out, the counters of syslog_stats are the number of
\* messages that met each fate.
THEOREM CountersExact == Spec => []StatsExact
<1>1. Accounting => StatsExact
  BY DEF Accounting
<1>. QED
  BY <1>1, AccountsInvariant, PTL

\* Also after a drain has timed out, and while tasks finish during it, no
\* message goes uncounted.
THEOREM EveryMessageCounted == Spec => []NothingUncounted
<1>1. Accounting => NothingUncounted
  BY DEF Accounting
<1>. QED
  BY <1>1, AccountsInvariant, PTL

-----------------------------------------------------------------------------
(* Refinement *)

\* What comes before a message.
LEMMA BeforeIt ==
    ASSUME NEW c, NEW n PROVE Admission!Before(<<c, n>>) = {<<c, k>> : k \in 1..(n - 1)}
BY DEF Admission!Before

\* A message of a connection that is settled or about to be has only settled
\* ones before it.
LEMMA EarlierSettled ==
    ASSUME TypeOK, Order, NEW c \in Conns, NEW n \in 1..MaxOutcomes, n <= Settled(c) + 1
    PROVE  \A b \in Admission!Before(<<c, n>>) : fate[b] \in {"admitted", "abandoned"}
<1>1. FatesInOrder(c) /\ Settled(c) \in Int
  <2>1. Received(c) \in Int
    BY ConnNumbers, ReceivedRange
  <2>. QED
    BY <2>1, SettledRange DEF Order, ConnOrder
<1>2. ASSUME NEW k \in 1..(n - 1) PROVE fate[<<c, k>>] \in {"admitted", "abandoned"}
  <2>1. k \in 1..MaxOutcomes /\ k <= Settled(c)
    BY <1>1, LimitsAssumption, SMTT(30)
  <2>. QED
    BY <1>1, <2>1 DEF FatesInOrder
<1>. QED
  BY <1>2 DEF Admission!Before

\* A datagram has nothing before it.
LEMMA NothingBefore == ASSUME NEW d PROVE Admission!Before(<<d, 1>>) = {}
<1>1. 1..(1 - 1) = {}
  BY SMTT(30)
<1>. QED
  BY <1>1 DEF Admission!Before

\* The next message of a connection has only framed ones before it.
LEMMA EarlierFramed ==
    ASSUME TypeOK, Order, NEW c \in Conns, framed[c] + 1 \in 1..MaxOutcomes
    PROVE  /\ fate[<<c, framed[c] + 1>>] = "none"
           /\ \A b \in Admission!Before(<<c, framed[c] + 1>>) : fate[b] # "none"
<1>1. FatesInOrder(c) /\ Settled(c) \in Int /\ framed[c] \in Nat
  <2>1. Received(c) \in Int
    BY ConnNumbers, ReceivedRange
  <2>. QED
    BY <2>1, SettledRange, ConnNumbers DEF Order, ConnOrder
<1>2. fate[<<c, framed[c] + 1>>] = "none"
  BY NextUnframed
<1>3. ASSUME NEW k \in 1..(framed[c] + 1 - 1) PROVE fate[<<c, k>>] # "none"
  <2>1. k \in 1..MaxOutcomes /\ k <= framed[c] /\ (k <= Settled(c) \/ Settled(c) < k)
    BY <1>1, LimitsAssumption, SMTT(30)
  <2>. QED
    BY <1>1, <2>1 DEF FatesInOrder
<1>4. PICK n : n = framed[c] + 1
  OBVIOUS
<1>5. \A b \in Admission!Before(<<c, n>>) : fate[b] # "none"
  <2>1. \A k \in 1..(n - 1) : fate[<<c, k>>] # "none"
    BY <1>1, <1>3, <1>4, SMTT(30)
  <2>2. Admission!Before(<<c, n>>) = {<<c, k>> : k \in 1..(n - 1)}
    BY BeforeIt
  <2>. QED
    BY <2>1, <2>2
<1>. QED
  BY <1>2, <1>4, <1>5

\* SyslogAdmission speaks of the same messages and counts them alike.
LEMMA SameMessages ==
    /\ Admission!Messages = Messages /\ Admission!Held = Held
    /\ Admission!Cardinality(Held) = Cardinality(Held)
<1>1. Admission!Messages = Messages /\ Admission!Held = Held
  BY DEF Admission!Messages, Messages, Admission!Held, Held, WithFate
<1>2. Admission!Cardinality(Held) = Cardinality(Held)
  BY DEF Admission!Cardinality, Cardinality
<1>. QED
  BY <1>1, <1>2

\* Every step is a step of SyslogAdmission or changes nothing it speaks of.
LEMMA AdmissionStep ==
    TypeOK /\ Order /\ GoneForGood /\ Accounting /\ [Next]_vars => [Admission!Next]_<<fate, givingUp>>
<1>. SUFFICES ASSUME TypeOK, Order, GoneForGood, Accounting, [Next]_vars
              PROVE  Admission!Next \/ UNCHANGED <<fate, givingUp>>
  BY DEF givingUp
<1>. USE DEF stopVars, workVars, connVars, taskVars
<1>a. ASSUME UNCHANGED <<fate, token, receivers>> PROVE UNCHANGED <<fate, givingUp>>
  BY <1>a DEF givingUp
<1>b. ASSUME UNCHANGED <<token, receivers>> PROVE UNCHANGED givingUp
  BY <1>b DEF givingUp
<1>c. ASSUME NEW m \in Messages, \/ Admission!Hold(m) \/ Admission!Admit(m)
                                \/ Admission!Abandon(m) \/ Admission!Drop(m)
      PROVE  Admission!Next
  BY <1>c, SameMessages DEF Admission!Next
<1>d. MaxPending \in Nat /\ Cardinality(Held) \in Nat
  BY LimitsAssumption, FatesFinite DEF Held
<1>1. ASSUME NEW c \in Conns, FrameMessage(c) PROVE Admission!Next
  <2>1. framed[c] + 1 \in 1..MaxOutcomes
    <3>1. framed[c] + Len(buffer[c]) <= sent[c]
      BY DEF Order, ConnOrder
    <3>2. Len(buffer[c]) >= 1
      BY <1>1, ConnTypes, Taken DEF FrameMessage, Waiting
    <3>. QED
      BY <3>1, <3>2, ConnNumbers, SMTT(30)
  <2>2. <<c, framed[c] + 1>> \in Messages
    BY <2>1 DEF Messages
  <2>3. Admission!Cardinality(Admission!Held) < MaxPending
    BY <1>1, <1>d, SameMessages, SMTT(30) DEF FrameMessage, Accounting, PermitsKept, Held
  <2>4. UNCHANGED <<token, receivers>> /\ fate' = [fate EXCEPT ![<<c, framed[c] + 1>>] = "held"]
    BY <1>1 DEF FrameMessage
  <2>5. Admission!Hold(<<c, framed[c] + 1>>)
    <3>1. (token \/ ~receivers)' = (token \/ ~receivers)
      BY <2>4
    <3>2. /\ fate[<<c, framed[c] + 1>>] = "none"
          /\ \A b \in Admission!Before(<<c, framed[c] + 1>>) : fate[b] # "none"
      BY <2>1, EarlierFramed
    <3>. QED
      BY <2>3, <2>4, <3>1, <3>2 DEF Admission!Hold
  <2>. QED
    BY <1>c, <2>2, <2>5
<1>2. ASSUME NEW c \in Conns, NEW f \in {"admitted", "abandoned"}, Busy(c),
             fate' = [fate EXCEPT ![Message(c)] = f], UNCHANGED <<token, receivers>>,
             f = "abandoned" => givingUp
      PROVE  Admission!Next
  <2>1. Message(c) \in Messages /\ fate[Message(c)] = "held"
    BY <1>2, BusyHeld
  <2>2. Message(c) = <<c, Received(c)>> /\ Received(c) \in Int /\ Settled(c) = Received(c) - 1
    <3>1. Received(c) \in Int
      BY ConnNumbers, ReceivedRange
    <3>. QED
      BY <1>2, <3>1 DEF Message, Order, ConnOrder, Settled
  <2>3. Received(c) \in 1..MaxOutcomes
    <3>1. 0 <= Settled(c) /\ Received(c) <= framed[c] - Len(chan[c])
      BY ConnNumbers, ReceivedRange DEF Order, ConnOrder
    <3>. QED
      BY <2>2, <3>1, ConnNumbers, SMTT(30)
  <2>4. \A b \in Admission!Before(Message(c)) : fate[b] \in {"admitted", "abandoned"}
    <3>1. Received(c) <= Settled(c) + 1
      BY <2>2, SMTT(30)
    <3>. QED
      BY <2>2, <2>3, <3>1, EarlierSettled
  <2>5. Admission!Settle(Message(c), f)
    BY <1>2, <2>1, <2>4 DEF Admission!Settle
  <2>6. Message(c)[1] \in Conns
    BY DEF Message
  <2>7. Admission!Admit(Message(c)) \/ Admission!Abandon(Message(c))
    BY <1>2, <2>5, <2>6 DEF Admission!Admit, Admission!Abandon, givingUp
  <2>. QED
    BY <1>c, <2>1, <2>7
<1>3. ASSUME NEW c \in Conns, ReceiveWithoutWorkers(c) PROVE Admission!Next
  <2>. DEFINE m == <<c, Head(chan[c])>>
  <2>1. ~Busy(c) /\ chan[c] # <<>> /\ gone[c] /\ UNCHANGED <<token, receivers>>
        /\ fate' = [fate EXCEPT ![m] = "abandoned"]
    BY <1>3 DEF ReceiveWithoutWorkers, Busy
  <2>2. m \in Messages /\ fate[m] = "held"
    BY <2>1, HeadHeld
  <2>3. Head(chan[c]) \in 1..MaxOutcomes /\ Head(chan[c]) <= Settled(c) + 1
    <3>1. Head(chan[c]) = chan[c][1] /\ chan[c][1] \in 1..MaxOutcomes /\ Len(chan[c]) \in Nat
          /\ Len(chan[c]) >= 1
      BY <2>1, ConnTypes, Taken
    <3>2. 1 \in 1..Len(chan[c])
      BY <3>1, SMTT(30)
    <3>3. chan[c][1] = Received(c) + 1
      BY <3>2 DEF Order, ConnOrder, ChannelInOrder
    <3>4. Received(c) \in Int
      BY ConnNumbers, ReceivedRange
    <3>5. Settled(c) = Received(c)
      BY <2>1, <3>4, SMTT(30) DEF Settled
    <3>. QED
      BY <3>1, <3>3, <3>4, <3>5, SMTT(30)
  <2>4. \A b \in Admission!Before(m) : fate[b] \in {"admitted", "abandoned"}
    BY <2>3, EarlierSettled
  <2>5. token \/ ~receivers
    BY <2>1 DEF GoneForGood
  <2>6. Admission!Abandon(m)
    BY <2>1, <2>2, <2>4, <2>5 DEF Admission!Abandon, Admission!Settle
  <2>. QED
    BY <1>c, <2>2, <2>6
<1>4. ASSUME NEW c \in Conns, DeliveryStep(c) PROVE Admission!Next \/ UNCHANGED <<fate, givingUp>>
  <2>0. c \in Sources
    BY DEF Sources
  <2>1. CASE Receive(c) \/ DeliveryEnds(c) \/ StreamRefused(c) \/ Retry(c)
    BY <2>1, <1>a DEF Receive, DeliveryEnds, StreamRefused, Retry
  <2>2. CASE StreamAccepted(c)
    BY <2>2, <1>2 DEF StreamAccepted, Answered, Busy
  <2>3. CASE StreamGivesUp(c)
    BY <2>3, <1>2 DEF StreamGivesUp, Answered, Busy, givingUp
  <2>4. CASE StreamUnavailable(c)
    <3>1. ~receivers /\ Busy(c)
      BY <2>0, <2>4 DEF StreamUnavailable, Unavailable, Busy, GoneForGood
    <3>. QED
      BY <2>4, <3>1, <1>2 DEF StreamUnavailable, givingUp
  <2>. QED
    BY <1>3, <1>4, <2>1, <2>2, <2>3, <2>4 DEF DeliveryStep
<1>5. ASSUME NEW d \in Datagrams, DatagramStep(d) PROVE Admission!Next \/ UNCHANGED <<fate, givingUp>>
  <2>1. <<d, 1>> \in Messages /\ <<d, 1>>[1] = d /\ DatagramOrder(d)
    BY DEF Messages, Order
  <2>2. CASE DatagramTruncated(d)
    BY <2>2, <1>a DEF DatagramTruncated
  <2>3. CASE DatagramReceived(d)
    <3>1. /\ fate[<<d, 1>>] = "none" /\ fate' = [fate EXCEPT ![<<d, 1>>] = "held"]
          /\ UNCHANGED <<token, receivers>>
      BY <2>1, <2>3 DEF DatagramReceived, Receiving, DatagramOrder
    <3>2. Admission!Cardinality(Admission!Held) < MaxPending
      BY <2>3, <1>d, SameMessages, SMTT(30) DEF DatagramReceived, Accounting, PermitsKept, Held
    <3>3. Admission!Hold(<<d, 1>>)
      <4>1. (token \/ ~receivers)' = (token \/ ~receivers)
        BY <3>1
      <4>2. \A b \in Admission!Before(<<d, 1>>) : fate[b] # "none"
        BY NothingBefore
      <4>. QED
        BY <3>1, <3>2, <4>1, <4>2 DEF Admission!Hold
    <3>. QED
      BY <1>c, <2>1, <3>3
  <2>4. CASE DatagramAccepted(d)
    <3>1. /\ fate[<<d, 1>>] = "held" /\ fate' = [fate EXCEPT ![<<d, 1>>] = "admitted"]
          /\ UNCHANGED <<token, receivers>>
      BY <2>1, <2>4 DEF DatagramAccepted, Answered, DatagramOrder
    <3>2. Admission!Admit(<<d, 1>>)
      BY <3>1, NothingBefore DEF Admission!Admit, Admission!Settle
    <3>. QED
      BY <1>c, <2>1, <3>2
  <2>5. CASE DatagramWithoutCredit(d) \/ DatagramRefused(d) \/ DatagramUnavailable(d)
    <3>1. fate[<<d, 1>>] \in {"none", "held"}
      BY <2>1, <2>5 DEF DatagramWithoutCredit, Receiving, DatagramRefused, Answered,
                        DatagramUnavailable, Unavailable, DatagramOrder
    <3>2. fate' = [fate EXCEPT ![<<d, 1>>] = "dropped"] /\ UNCHANGED <<token, receivers>>
      BY <2>5 DEF DatagramWithoutCredit, DatagramRefused, DatagramUnavailable
    <3>3. Admission!Drop(<<d, 1>>)
      BY <2>1, <3>1, <3>2 DEF Admission!Drop
    <3>. QED
      BY <1>c, <2>1, <3>3
  <2>. QED
    BY <1>5, <2>2, <2>3, <2>4, <2>5 DEF DatagramStep
<1>6. ASSUME StopAccepting \/ ReplaceReceiver PROVE Admission!Next \/ UNCHANGED <<fate, givingUp>>
  <2>1. UNCHANGED fate /\ (token' \/ ~receivers')
    BY <1>6 DEF StopAccepting, ReplaceReceiver
  <2>2. CASE token \/ ~receivers
    BY <2>1, <2>2 DEF givingUp
  <2>3. CASE ~(token \/ ~receivers)
    <3>1. (token' \/ ~receivers') = TRUE
      BY <2>1
    <3>2. Admission!GiveUp
      BY <2>1, <2>3, <3>1 DEF Admission!GiveUp
    <3>. QED
      BY <3>2 DEF Admission!Next
  <2>. QED
    BY <2>2, <2>3
<1>7. ASSUME NEW c \in Conns, ReaderStep(c) PROVE Admission!Next \/ UNCHANGED <<fate, givingUp>>
  BY <1>7, <1>1, <1>a DEF ReaderStep, Accept, RefuseConnection, ProxyHeaderComplete,
     ProxyHeaderFails, RejectFrame, SendPending, Read, ReadFails, ReadCancelled,
     StopReading, EndOfStream, CloseStream
<1>8. ASSUME NEW w \in Workers, WorkerStep(w) PROVE UNCHANGED <<fate, givingUp>>
  BY <1>8, <1>a DEF WorkerStep, StartWorker, TakeDelivery, CallBlock
<1>9. ASSUME NEW l \in {"stream", "datagram"}, ListenerStops(l) PROVE UNCHANGED <<fate, givingUp>>
  BY <1>9, <1>a DEF ListenerStops
<1>10. ASSUME NEW s \in Sources, Offer(s) PROVE UNCHANGED <<fate, givingUp>>
  BY <1>10, <1>a DEF Offer
<1>11. ASSUME StopStep PROVE Admission!Next \/ UNCHANGED <<fate, givingUp>>
  BY <1>11, <1>6, <1>a DEF StopStep, DrainCompletes, DrainTimesOut, RecordAbandoned, DropRuntime
<1>12. CASE UNCHANGED vars
  BY <1>12, <1>a DEF vars
<1>. QED
  BY <1>4, <1>5, <1>7, <1>8, <1>9, <1>10, <1>11, <1>12 DEF Next

\* SyslogDelivery implements SyslogAdmission: with all its tasks, channels,
\* permits and workers the syslog side settles every message once and in order,
\* holds at most max_pending, and abandons only when it is giving up.
THEOREM Implements == Spec => ImplementsAdmission
<1>1. Init => Admission!Init
  BY DEF Init, Admission!Init, Messages, Admission!Messages
<1>2. IInv /\ Accounting /\ [Next]_vars => [Admission!Next]_<<fate, token \/ ~receivers>>
  BY AdmissionStep DEF IInv, givingUp
<1>. QED
  BY <1>1, <1>2, Invariant, AccountsInvariant, PTL DEF Spec, ImplementsAdmission, Admission!Spec

-----------------------------------------------------------------------------
(* Limits *)

\* The places where a connection keeps its messages, as numbers.
Places(c) ==
    {chan[c][i] : i \in DOMAIN chan[c]}
    \cup (IF reader[c] = "send" THEN {framed[c]} ELSE {})
    \cup (IF Busy(c) THEN {cur[c]} ELSE {})

\* They are the numbers behind the settled ones.
LEMMA PlacesSegment ==
    ASSUME TypeOK, Order, NEW c \in Conns
    PROVE  Places(c) = (Settled(c) + 1)..framed[c]
<1>1. /\ Received(c) \in Int /\ Len(chan[c]) \in Nat /\ framed[c] \in Nat
      /\ framed[c] = Received(c) + Len(chan[c]) + (IF reader[c] = "send" THEN 1 ELSE 0)
      /\ Settled(c) = Received(c) - (IF Busy(c) THEN 1 ELSE 0)
  BY Segments
<1>2. DOMAIN chan[c] = 1..Len(chan[c])
  BY ConnTypes, SMTT(30)
<1>3. \A i \in 1..Len(chan[c]) : chan[c][i] = Received(c) + i
  BY DEF Order, ConnOrder, ChannelInOrder
<1>4. Busy(c) => cur[c] = Received(c)
  BY DEF Order, ConnOrder
<1>5. {chan[c][i] : i \in DOMAIN chan[c]} = (Received(c) + 1)..(Received(c) + Len(chan[c]))
  <2>1. ASSUME NEW n \in (Received(c) + 1)..(Received(c) + Len(chan[c]))
        PROVE  \E i \in DOMAIN chan[c] : n = chan[c][i]
    <3>1. n - Received(c) \in 1..Len(chan[c]) /\ n = Received(c) + (n - Received(c))
      BY <1>1, SMTT(30)
    <3>. QED
      BY <1>2, <1>3, <3>1
  <2>2. ASSUME NEW i \in DOMAIN chan[c]
        PROVE  chan[c][i] \in (Received(c) + 1)..(Received(c) + Len(chan[c]))
    BY <1>1, <1>2, <1>3, SMTT(30)
  <2>. QED
    BY <2>1, <2>2
<1>6. Places(c) = (Received(c) + 1)..(Received(c) + Len(chan[c]))
                  \cup (IF reader[c] = "send" THEN {Received(c) + Len(chan[c]) + 1} ELSE {})
                  \cup (IF Busy(c) THEN {Received(c)} ELSE {})
  BY <1>1, <1>4, <1>5 DEF Places
<1>. HIDE DEF Places
<1>7. CASE Busy(c) /\ reader[c] = "send"
  BY <1>1, <1>6, <1>7, SMTT(30)
<1>8. CASE ~Busy(c) /\ reader[c] = "send"
  BY <1>1, <1>6, <1>8, SMTT(30)
<1>9. CASE Busy(c) /\ reader[c] # "send"
  BY <1>1, <1>6, <1>9, SMTT(30)
<1>10. CASE ~Busy(c) /\ reader[c] # "send"
  BY <1>1, <1>6, <1>10, SMTT(30)
<1>. QED
  BY <1>7, <1>8, <1>9, <1>10

\* What a connection's tasks have in hand is what is held of its messages.
LEMMA HandsSegment ==
    ASSUME TypeOK, Order, NEW c \in Conns
    PROVE  InHand(c) = {<<c, n>> : n \in (Settled(c) + 1)..framed[c]}
<1>1. InHand(c) = {<<c, n>> : n \in Places(c)}
  BY DEF InHand, Places, Message, Busy
<1>. QED
  BY <1>1, PlacesSegment

\* While the runtime lives, the undelivered messages are exactly those a task
\* has in hand: none is forgotten with its permit, whatever the limits.
THEOREM PermitsAccounted == Spec => []PermitsInHand
<1>1. IInv => PermitsInHand
  <2>. SUFFICES ASSUME TypeOK, Order PROVE PermitsInHand
    BY DEF IInv
  <2>. DEFINE Live == {e \in Datagrams : task[e] \in {"offer", "await"}}
              Streams == UNION {InHand(c) : c \in Conns}
              Single == {<<d, 1>> : d \in Live}
  <2>1. ASSUME NEW m \in Held PROVE m \in Streams \/ m \in Single
    <3>1. CASE m \in Conns \X (1..MaxOutcomes)
      <4>1. PICK c \in Conns, n \in 1..MaxOutcomes : m = <<c, n>>
        BY <3>1, SMTT(30)
      <4>2. n \in (Settled(c) + 1)..framed[c]
        BY <4>1, HeldSegment DEF Held, WithFate
      <4>3. m \in InHand(c)
        BY <4>1, <4>2, HandsSegment
      <4>. QED
        BY <4>3
    <3>2. CASE m \in Datagrams \X {1}
      <4>1. PICK d \in Datagrams : m = <<d, 1>>
        BY <3>2, SMTT(30)
      <4>2. task[d] \in {"offer", "await"}
        BY <4>1 DEF Order, DatagramOrder, Held, WithFate
      <4>3. d \in Live
        BY <4>2
      <4>. HIDE DEF Live
      <4>. QED
        BY <4>1, <4>3
    <3>. QED
      BY <3>1, <3>2 DEF Held, WithFate, Messages
  <2>2. ASSUME NEW c \in Conns, NEW m \in InHand(c) PROVE m \in Held
    <3>1. PICK n \in (Settled(c) + 1)..framed[c] : m = <<c, n>>
      BY <2>2, HandsSegment
    <3>2. n \in 1..MaxOutcomes
      <4>1. Settled(c) \in Int /\ 0 <= Settled(c) /\ framed[c] \in Nat /\ framed[c] <= MaxOutcomes
            /\ MaxOutcomes \in Nat
        BY Segments, SMTT(30)
      <4>. QED
        BY <4>1, SMTT(30)
    <3>3. fate[<<c, n>>] = "held"
      BY <3>2, HeldSegment
    <3>. QED
      BY <3>1, <3>2, <3>3 DEF Held, WithFate, Messages
  <2>3. ASSUME NEW d \in Datagrams, task[d] \in {"offer", "await"} PROVE <<d, 1>> \in Held
    BY <2>3 DEF Order, DatagramOrder, Held, WithFate, Messages
  <2>4. \A m \in Streams : m \in Held
    BY <2>2
  <2>5. \A m \in Single : m \in Held
    BY <2>3
  <2>. HIDE DEF Streams, Single
  <2>6. Held = Streams \cup Single
    BY <2>1, <2>4, <2>5
  <2>. QED
    BY <2>6 DEF PermitsInHand, AllInHand, Streams, Single
<1>. QED
  BY <1>1, Invariant, PTL

\* Whatever the limits, and however the tasks interleave, no permit is lost or
\* given twice: the free ones and the messages in hand add up to max_pending.
THEOREM NoPermitLost == Spec => []PermitsBalanced
<1>1. Accounting /\ PermitsInHand => PermitsBalanced
  <2>1. Accounting => credits >= 0 /\ credits + Cardinality(Held) = MaxPending
    BY SMTT(30) DEF Accounting, PermitsKept
  <2>. QED
    BY <2>1 DEF PermitsInHand, PermitsBalanced
<1>. QED
  BY <1>1, AccountsInvariant, PermitsAccounted, PTL

\* The channel of a connection has at most its capacity.
ChannelBound == \A c \in Conns : Len(chan[c]) <= MaxPendingPerConnection

\* Only pending_tx.send fills it, when there is a slot.
LEMMA ChannelBoundNext == TypeOK /\ ChannelBound /\ [Next]_vars => ChannelBound'
<1>. SUFFICES ASSUME TypeOK, ChannelBound, [Next]_vars PROVE ChannelBound'
  OBVIOUS
<1>0. MaxPendingPerConnection \in Nat /\ \A c \in Conns : Len(chan[c]) \in Nat
  BY LimitsAssumption, ConnNumbers
<1>1. CASE UNCHANGED chan
  BY <1>1 DEF ChannelBound
<1>2. ASSUME NEW c \in Conns, SendPending(c) PROVE ChannelBound'
  <2>1. Len(chan'[c]) = Len(chan[c]) + 1 /\ Len(chan[c]) < MaxPendingPerConnection
    BY <1>2, ConnTypes, Appended, StateTypes, SMTT(30) DEF SendPending
  <2>2. \A k \in Conns : k # c => chan'[k] = chan[k]
    BY <1>2, StateTypes DEF SendPending
  <2>. QED
    BY <1>0, <2>1, <2>2, SMTT(30) DEF ChannelBound
<1>3. ASSUME NEW c \in Conns, Receive(c) \/ ReceiveWithoutWorkers(c) PROVE ChannelBound'
  <2>1. chan[c] # <<>> /\ chan' = [chan EXCEPT ![c] = Tail(@)]
    BY <1>3 DEF Receive, ReceiveWithoutWorkers
  <2>2. Len(chan'[c]) = Len(chan[c]) - 1
    BY <2>1, ConnTypes, Taken, StateTypes
  <2>3. \A k \in Conns : k # c => chan'[k] = chan[k]
    BY <2>1, StateTypes
  <2>. QED
    BY <1>0, <2>2, <2>3, SMTT(30) DEF ChannelBound
<1>4. ASSUME NEW c \in Conns, ReaderStep(c) PROVE ChannelBound'
  BY <1>4, <1>2, <1>1 DEF ReaderStep, Accept, RefuseConnection, ProxyHeaderComplete,
     ProxyHeaderFails, RejectFrame, FrameMessage, Read, ReadFails, ReadCancelled,
     StopReading, EndOfStream, CloseStream
<1>5. ASSUME NEW c \in Conns, DeliveryStep(c) PROVE ChannelBound'
  BY <1>5, <1>3, <1>1 DEF DeliveryStep, DeliveryEnds, StreamAccepted, StreamRefused, StreamGivesUp,
     Retry, StreamUnavailable
<1>6. ASSUME NEW d \in Datagrams, DatagramStep(d) PROVE ChannelBound'
  BY <1>6, <1>1 DEF DatagramStep, DatagramTruncated, DatagramWithoutCredit,
     DatagramReceived, DatagramAccepted, DatagramRefused, DatagramUnavailable
<1>7. CASE (\E s \in Sources : Offer(s)) \/ (\E w \in Workers : WorkerStep(w))
  BY <1>7, <1>1 DEF Offer, WorkerStep, StartWorker, TakeDelivery, CallBlock
<1>8. CASE StopStep \/ \E l \in {"stream", "datagram"} : ListenerStops(l)
  BY <1>8, <1>1 DEF ListenerStops, StopStep, StopAccepting, DrainCompletes, DrainTimesOut,
     RecordAbandoned, DropRuntime, ReplaceReceiver
<1>9. CASE UNCHANGED vars
  BY <1>9, <1>1 DEF vars
<1>. QED
  BY <1>4, <1>5, <1>6, <1>7, <1>8, <1>9 DEF Next

\* A connection holds at most two messages more than its channel.
THEOREM ConnectionBounded == Spec => []ConnectionBound
<1>1. Spec => []ChannelBound
  <2>1. Init => ChannelBound
    <3>. SUFFICES ASSUME Init, NEW c \in Conns PROVE Len(chan[c]) <= MaxPendingPerConnection
      BY DEF ChannelBound
    <3>1. chan[c] = <<>> /\ Len(<<>>) = 0
      BY DEF Init
    <3>. QED
      BY <3>1, LimitsAssumption, SMTT(30)
  <2>2. IInv /\ ChannelBound /\ [Next]_vars => ChannelBound'
    BY ChannelBoundNext DEF IInv
  <2>. QED
    BY <2>1, <2>2, Invariant, PTL DEF Spec
<1>2. IInv /\ ChannelBound => ConnectionBound
  <2>. SUFFICES ASSUME TypeOK, Order, ChannelBound, NEW c \in Conns
                PROVE  Cardinality({m \in Held : m[1] = c}) <= MaxPendingPerConnection + 2
    BY DEF IInv, ConnectionBound
  <2>. DEFINE Mine == {m \in Held : m[1] = c}
              Unsettled == (Settled(c) + 1)..framed[c]
              f == [m \in Mine |-> m[2]]
  <2>1. /\ Received(c) \in Int /\ Len(chan[c]) \in Nat /\ framed[c] \in Nat
        /\ framed[c] = Received(c) + Len(chan[c]) + (IF reader[c] = "send" THEN 1 ELSE 0)
        /\ Settled(c) = Received(c) - (IF Busy(c) THEN 1 ELSE 0)
    BY Segments
  <2>2. IsFiniteSet(Unsettled) /\ Cardinality(Unsettled) <= Len(chan[c]) + 2
    <3>1. Settled(c) + 1 \in Int /\ framed[c] \in Int
      BY <2>1, SMTT(30)
    <3>2. /\ IsFiniteSet(Unsettled)
          /\ Cardinality(Unsettled) = IF Settled(c) + 1 > framed[c] THEN 0
                                  ELSE framed[c] - (Settled(c) + 1) + 1
      BY <3>1, FS_Interval
    <3>. QED
      BY <2>1, <3>2, SMTT(30)
  <2>3. ASSUME NEW m \in Mine PROVE m = <<c, m[2]>> /\ m[2] \in Unsettled
    <3>1. m \in Conns \X (1..MaxOutcomes)
      BY <2>3, SourcesAssumption DEF Held, WithFate, Messages
    <3>2. PICK n \in 1..MaxOutcomes : m = <<c, n>>
      BY <2>3, <3>1, SMTT(30)
    <3>3. fate[<<c, n>>] = "held"
      BY <2>3, <3>2 DEF Held, WithFate
    <3>. QED
      BY <3>2, <3>3, HeldSegment
  <2>4. f \in Injection(Mine, Unsettled)
    <3>1. f \in [Mine -> Unsettled]
      BY <2>3
    <3>2. \A a, b \in Mine : f[a] = f[b] => a = b
      BY <2>3
    <3>. QED
      BY <3>1, <3>2 DEF Injection, IsInjective
  <2>5. Cardinality(Mine) <= Cardinality(Unsettled) /\ IsFiniteSet(Mine)
    BY <2>2, <2>4, FS_Injection
  <2>6. Cardinality(Mine) \in Nat /\ Cardinality(Unsettled) \in Nat
    BY <2>2, <2>5, FS_CardinalityType
  <2>7. Len(chan[c]) <= MaxPendingPerConnection
    BY DEF ChannelBound
  <2>. HIDE DEF Mine, Unsettled
  <2>8. Cardinality(Mine) <= MaxPendingPerConnection + 2
    BY <2>1, <2>2, <2>5, <2>6, <2>7, LimitsAssumption, SMTT(30)
  <2>. QED
    BY <2>8 DEF Mine
<1>. QED
  BY <1>1, <1>2, Invariant, PTL

Served == {c \in Conns : reader[c] \in {"proxy", "read", "send", "closing"}}

Counted == connections = Cardinality(Served) /\ connections <= MaxConnections

\* Every way into serve_stream and out of it is counted.
LEMMA CountedNext == TypeOK /\ Counted /\ [Next]_vars => Counted'
<1>. SUFFICES ASSUME TypeOK, Counted, [Next]_vars PROVE Counted'
  OBVIOUS
<1>. USE DEF connVars
<1>0. IsFiniteSet(Served) /\ Cardinality(Served) \in Nat /\ MaxConnections \in Nat
  <2>1. Served \subseteq Conns
    BY DEF Served
  <2>. QED
    BY <2>1, SourcesAssumption, LimitsAssumption, FS_Subset, FS_CardinalityType
<1>1. ASSUME Served' = Served, UNCHANGED connections PROVE Counted'
  BY <1>1 DEF Counted
<1>2. ASSUME UNCHANGED <<reader, connections>> PROVE Counted'
  BY <1>1, <1>2 DEF Served
<1>3. ASSUME NEW c \in Conns, Accept(c) PROVE Counted'
  <2>1. reader[c] = "new" /\ reader' = [reader EXCEPT ![c] = IF ProxyProtocol THEN "proxy" ELSE "read"]
    BY <1>3 DEF Accept, Accepting
  <2>2. Served' = Served \cup {c} /\ c \notin Served
    BY <2>1, StateTypes, SMTT(30) DEF Served
  <2>3. Cardinality(Served') = Cardinality(Served) + 1
    BY <1>0, <2>2, FS_AddElement
  <2>4. connections' = connections + 1 /\ connections < MaxConnections
    BY <1>3 DEF Accept
  <2>. QED
    BY <1>0, <2>3, <2>4, SMTT(30) DEF Counted
<1>4. ASSUME NEW c \in Conns, ProxyHeaderFails(c) \/ CloseStream(c) PROVE Counted'
  <2>1. c \in Served /\ reader' = [reader EXCEPT ![c] = "done"] /\ connections' = connections - 1
    BY <1>4 DEF ProxyHeaderFails, CloseStream, Served
  <2>2. Served' = Served \ {c}
    BY <2>1, StateTypes DEF Served
  <2>3. Cardinality(Served') = Cardinality(Served) - 1
    BY <1>0, <2>1, <2>2, FS_RemoveElement
  <2>. QED
    BY <1>0, <2>1, <2>3, SMTT(30) DEF Counted
<1>5. ASSUME NEW c \in Conns,
             \/ RefuseConnection(c) \/ ProxyHeaderComplete(c) \/ RejectFrame(c) \/ FrameMessage(c)
             \/ SendPending(c) \/ Read(c) \/ StopReading(c) \/ EndOfStream(c)
      PROVE  Counted'
  <2>1. UNCHANGED connections
    BY <1>5 DEF RefuseConnection, ProxyHeaderComplete, RejectFrame, FrameMessage, SendPending, Read,
                StopReading, EndOfStream
  <2>2. \/ reader' = reader
        \/ /\ reader[c] \in {"proxy", "read", "send"}
           /\ \E r \in {"read", "send", "closing"} : reader' = [reader EXCEPT ![c] = r]
        \/ reader[c] = "new" /\ reader' = [reader EXCEPT ![c] = "refused"]
    <3>1. CASE RejectFrame(c)
      BY <3>1 DEF RejectFrame
    <3>. QED
      BY <1>5, <3>1 DEF RefuseConnection, Accepting, ProxyHeaderComplete, FrameMessage, Waiting,
                        SendPending, Read, StopReading, Selecting, EndOfStream
  <2>3. Served' = Served
    BY <2>2, StateTypes DEF Served
  <2>. QED
    BY <1>1, <2>1, <2>3
<1>6. ASSUME NEW c \in Conns, ReaderStep(c) PROVE Counted'
  BY <1>6, <1>3, <1>4, <1>5 DEF ReaderStep, ReadFails, ReadCancelled
<1>7. ASSUME NEW c \in Conns, DeliveryStep(c) PROVE Counted'
  BY <1>7, <1>2 DEF DeliveryStep, Receive, ReceiveWithoutWorkers, DeliveryEnds, StreamAccepted,
     StreamRefused, StreamGivesUp, Retry, StreamUnavailable
<1>8. ASSUME NEW d \in Datagrams, DatagramStep(d) PROVE Counted'
  BY <1>8, <1>2 DEF DatagramStep, DatagramTruncated, DatagramWithoutCredit,
     DatagramReceived, DatagramAccepted, DatagramRefused, DatagramUnavailable
<1>9. CASE (\E s \in Sources : Offer(s)) \/ (\E w \in Workers : WorkerStep(w))
  BY <1>9, <1>2 DEF Offer, WorkerStep, StartWorker, TakeDelivery, CallBlock
<1>10. CASE StopStep \/ \E l \in {"stream", "datagram"} : ListenerStops(l)
  BY <1>10, <1>2 DEF ListenerStops, StopStep, StopAccepting, DrainCompletes, DrainTimesOut,
     RecordAbandoned, DropRuntime, ReplaceReceiver
<1>11. CASE UNCHANGED vars
  BY <1>11, <1>2 DEF vars
<1>. QED
  BY <1>6, <1>7, <1>8, <1>9, <1>10, <1>11 DEF Next

\* The connection counter is the number of connections being served, within
\* max_connections, however many connect and however they end.
THEOREM ConnectionsAccounted == Spec => []ConnectionsCounted
<1>1. Init => Counted
  <2>. SUFFICES ASSUME Init PROVE Counted
    OBVIOUS
  <2>1. Served = {} /\ connections = 0
    BY DEF Init, Served
  <2>. QED
    BY <2>1, FS_EmptySet, LimitsAssumption, SMTT(30) DEF Counted
<1>2. IInv /\ Counted /\ [Next]_vars => Counted'
  BY CountedNext DEF IInv
<1>3. Counted => ConnectionsCounted
  BY DEF Counted, ConnectionsCounted, Served
<1>. QED
  BY <1>1, <1>2, <1>3, Invariant, PTL DEF Spec
=============================================================================
