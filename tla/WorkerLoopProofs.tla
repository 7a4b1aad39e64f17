-------------------------- MODULE WorkerLoopProofs --------------------------
(***************************************************************************)
(* Proofs about WorkerLoop, for any set of workers, any work_ratio and any *)
(* width of the streak counter.                                            *)
(*                                                                         *)
(* What a worker is ahead of the waiting requests is bounded by its streak *)
(* (Ahead): both go up together, and whatever resets the streak resets     *)
(* `ahead` too, except for the wrap, which can only happen when the worker *)
(* has just found the request queue empty and so is ahead of nobody.       *)
(***************************************************************************)
EXTENDS WorkerLoop, TLAPS

\* A message taken by the select and not yet counted.
Uncounted(w) == IF pc[w] = "wake" /\ hand[w] = "syslog" THEN 1 ELSE 0

Ahead(w) ==
    /\ ahead[w] <= streak[w] + Uncounted(w) + (IF wrapped[w] THEN 1 ELSE 0)
    /\ pc[w] = "first" => streak[w] < WorkRatio
    /\ pc[w] \in {"second", "select"} => ahead[w] = 0
    /\ pc[w] = "wake" => ahead[w] <= 1
    /\ pc[w] = "wake" /\ hand[w] # "syslog" => ahead[w] = 0

\* Once no request waits, nobody is ahead of one.
NobodyAhead == queued["http"] = 0 => \A w \in Workers : ahead[w] = 0

IInv == TypeOK /\ NobodyAhead /\ (\A w \in Workers : Ahead(w)) /\ RatioBound

-----------------------------------------------------------------------------
(* The wrapping counter *)

\* Counting keeps the streak within its width, and wraps exactly when the
\* history says so.
LEMMA CountTypes ==
    ASSUME TypeOK, NEW w \in Workers, NEW ch \in Channels, CountItem(w, ch)
    PROVE  /\ streak' \in [Workers -> 0..(StreakModulus - 1)]
           /\ wrapped' \in [Workers -> BOOLEAN]
           /\ \A v \in Workers \ {w} : streak'[v] = streak[v] /\ wrapped'[v] = wrapped[v]
           /\ ch = "http" => streak'[w] = 0 /\ ~wrapped'[w]
           /\ ch = "syslog" =>
                \/ streak'[w] = streak[w] + 1 /\ wrapped'[w] = wrapped[w]
                                              /\ streak[w] + 1 < StreakModulus
                \/ streak'[w] = 0 /\ wrapped'[w] /\ streak[w] + 1 = StreakModulus
<1>. USE RatioAssumption DEF TypeOK
<1>1. streak[w] \in 0..(StreakModulus - 1) /\ wrapped[w] \in BOOLEAN
  OBVIOUS
<1>2. ASSUME NEW n \in 0..(StreakModulus - 1)
      PROVE  /\ (n + 1) % StreakModulus \in 0..(StreakModulus - 1)
             /\ n + 1 < StreakModulus => (n + 1) % StreakModulus = n + 1
             /\ n + 1 = StreakModulus => (n + 1) % StreakModulus = 0
  OBVIOUS
<1>3. CASE ch = "http"
  BY <1>1, <1>3 DEF CountItem
<1>4. CASE ch = "syslog"
  <2>1. /\ streak' = [streak EXCEPT ![w] = (streak[w] + 1) % StreakModulus]
        /\ wrapped' = [wrapped EXCEPT ![w] = wrapped[w] \/ streak[w] + 1 = StreakModulus]
    BY <1>4 DEF CountItem
  <2>2. streak[w] + 1 < StreakModulus \/ streak[w] + 1 = StreakModulus
    BY <1>1
  <2>. QED
    BY <1>1, <1>2, <1>4, <2>1, <2>2
<1>. QED
  BY <1>3, <1>4 DEF Channels

\* What taking an item does to the queues and to the history.
LEMMA TakeTypes ==
    ASSUME TypeOK, NobodyAhead, NEW w \in Workers, NEW ch \in Channels, Take(w, ch)
    PROVE  /\ queued' \in [Channels -> Nat] /\ ahead' \in [Workers -> Nat]
           /\ last' \in Channels \cup {"none"} /\ NobodyAhead'
           /\ \A v \in Workers \ {w} : ahead'[v] = ahead[v] \/ ahead'[v] = 0
           /\ ch = "http" => ahead'[w] = 0
           /\ ch = "syslog" => ahead'[w] = ahead[w] + 1 \/ ahead'[w] = 0
<1>1. queued' \in [Channels -> Nat]
  BY DEF TypeOK, Take
<1>2. CASE queued'["http"] = 0
  <2>1. ahead' = [v \in Workers |-> 0]
    BY <1>2 DEF Take
  <2>2. ahead' \in [Workers -> Nat] /\ \A v \in Workers : ahead'[v] = 0
    BY <2>1
  <2>3. last' \in Channels \cup {"none"}
    BY DEF Take
  <2>. QED
    BY <1>1, <2>2, <2>3 DEF NobodyAhead
<1>3. CASE queued'["http"] # 0
  <2>1. ahead' = [ahead EXCEPT ![w] = IF ch = "syslog" THEN @ + 1 ELSE 0]
    BY <1>3 DEF Take
  <2>. QED
    BY <1>1, <1>3, <2>1 DEF Take, NobodyAhead, TypeOK
<1>. QED
  BY <1>2, <1>3

-----------------------------------------------------------------------------
(* The inductive invariant *)

\* Nobody is ahead at the start.
LEMMA InitInv == Init => IInv
BY RatioAssumption DEF Init, IInv, TypeOK, NobodyAhead, Ahead, Uncounted, RatioBound, Channels

\* A worker none of whose own variables changed, and whose `ahead` stayed or
\* was reset, keeps its part of the invariant.
LEMMA OtherWorkers ==
    ASSUME IInv, NEW v \in Workers, pc'[v] = pc[v], hand'[v] = hand[v], streak'[v] = streak[v],
           wrapped'[v] = wrapped[v], ahead'[v] = ahead[v] \/ ahead'[v] = 0
    PROVE  /\ Ahead(v)'
           /\ ahead'[v] <= IF wrapped'[v] THEN WorkRatio + 1
                           ELSE IF WorkRatio = 0 THEN 1 ELSE WorkRatio
BY RatioAssumption DEF IInv, TypeOK, Ahead, Uncounted, RatioBound

\* Every step keeps the invariant.
LEMMA NextInv == IInv /\ [Next]_vars => IInv'
<1>. SUFFICES ASSUME IInv, [Next]_vars PROVE IInv'
  OBVIOUS
<1>. USE RatioAssumption DEF IInv
<1>a. ASSUME NEW w \in Workers, pc' \in [Workers -> {"run", "first", "http", "second", "select", "wake", "exit"}],
             \A v \in Workers \ {w} : pc'[v] = pc[v], gvl' \in Workers \cup {"stop", "none"},
             UNCHANGED <<queued, open, streak, hand, ahead, wrapped, last>>,
             pc[w] # "wake", pc'[w] # "wake",
             pc'[w] = "first" => streak[w] < WorkRatio,
             pc'[w] \in {"second", "select"} => ahead[w] = 0
      PROVE  IInv'
  <2>1. TypeOK' /\ NobodyAhead'
    BY <1>a DEF TypeOK, NobodyAhead
  <2>2. RatioBound'
    BY <1>a DEF RatioBound
  <2>3. Ahead(w)'
    BY <1>a DEF Ahead, Uncounted, TypeOK
  <2>4. \A v \in Workers \ {w} : Ahead(v)'
    BY <1>a, OtherWorkers
  <2>. QED
    BY <2>1, <2>2, <2>3, <2>4
<1>b. ASSUME UNCHANGED <<streak, hand, ahead, wrapped, pc>>, TypeOK', NobodyAhead' PROVE IInv'
  BY <1>b DEF RatioBound, Ahead, Uncounted
<1>1. ASSUME NEW ch \in Channels, Arrive(ch) PROVE IInv'
  <2>1. TypeOK'
    BY <1>1 DEF Arrive, TypeOK
  <2>2. NobodyAhead'
    BY <1>1 DEF Arrive, NobodyAhead, TypeOK, Channels
  <2>. QED
    BY <1>1, <1>b, <2>1, <2>2 DEF Arrive
<1>2. ASSUME NEW w \in Workers, NextItem(w) PROVE IInv'
  BY <1>2, <1>a DEF NextItem, SyslogFirst, TypeOK
<1>3. ASSUME NEW w \in Workers, YieldGvl(w) PROVE IInv'
  BY <1>3, <1>b DEF YieldGvl, TypeOK, NobodyAhead
<1>4. ASSUME NEW w \in Workers, NEW ch \in Channels, TryFinds(w, ch) PROVE IInv'
  <2>1. Take(w, ch) /\ CountItem(w, ch) /\ TypeOK /\ NobodyAhead
    BY <1>4 DEF TryFinds
  <2>2. /\ queued' \in [Channels -> Nat] /\ ahead' \in [Workers -> Nat]
        /\ last' \in Channels \cup {"none"} /\ NobodyAhead'
        /\ \A v \in Workers \ {w} : ahead'[v] = ahead[v] \/ ahead'[v] = 0
        /\ ch = "http" => ahead'[w] = 0
        /\ ch = "syslog" => ahead'[w] = ahead[w] + 1 \/ ahead'[w] = 0
    BY <2>1, TakeTypes
  <2>3. /\ streak' \in [Workers -> 0..(StreakModulus - 1)] /\ wrapped' \in [Workers -> BOOLEAN]
        /\ \A v \in Workers \ {w} : streak'[v] = streak[v] /\ wrapped'[v] = wrapped[v]
        /\ ch = "http" => streak'[w] = 0 /\ ~wrapped'[w]
        /\ ch = "syslog" =>
             \/ streak'[w] = streak[w] + 1 /\ wrapped'[w] = wrapped[w]
                                           /\ streak[w] + 1 < StreakModulus
             \/ streak'[w] = 0 /\ wrapped'[w] /\ streak[w] + 1 = StreakModulus
    BY <2>1, CountTypes
  <2>4. TypeOK'
    BY <1>4, <2>2, <2>3 DEF TryFinds, TypeOK
  <2>5. /\ pc'[w] = "run" /\ \A v \in Workers \ {w} : pc'[v] = pc[v] /\ hand'[v] = hand[v]
        /\ ch = "syslog" => pc[w] \in {"first", "second"}
    BY <1>4 DEF TryFinds, TypeOK
  <2>6. \A v \in Workers \ {w} :
          Ahead(v)' /\ ahead'[v] <= IF wrapped'[v] THEN WorkRatio + 1
                                    ELSE IF WorkRatio = 0 THEN 1 ELSE WorkRatio
    BY <2>2, <2>3, <2>5, OtherWorkers
  <2>7. ahead[w] \in Nat /\ streak[w] \in 0..(StreakModulus - 1) /\ ahead'[w] \in Nat
    BY <2>2 DEF TypeOK
  <2>8. Ahead(w) /\ Uncounted(w) = 0
    BY <1>4 DEF TryFinds, Uncounted
  <2>9. Ahead(w)' /\ ahead'[w] <= IF wrapped'[w] THEN WorkRatio + 1
                                  ELSE IF WorkRatio = 0 THEN 1 ELSE WorkRatio
    <3>1. CASE ch = "http"
      BY <2>2, <2>3, <2>5, <3>1 DEF Ahead, Uncounted
    <3>2. CASE ch = "syslog" /\ pc[w] = "first"
      BY <2>2, <2>3, <2>5, <2>7, <2>8, <3>2 DEF Ahead, Uncounted
    <3>3. CASE ch = "syslog" /\ pc[w] = "second"
      <4>1. ahead'[w] <= 1 /\ ahead'[w] \in Nat
        BY <2>2, <2>7, <2>8, <3>3 DEF Ahead
      <4>2. wrapped'[w] \/ streak'[w] >= 1
        BY <2>3, <2>7, <3>3
      <4>3. streak'[w] \in Nat /\ Uncounted(w)' = 0
        BY <2>3, <2>5 DEF Uncounted
      <4>4. ahead'[w] <= streak'[w] + Uncounted(w)' + (IF wrapped'[w] THEN 1 ELSE 0)
        BY <4>1, <4>2, <4>3
      <4>. QED
        BY <2>5, <4>1, <4>4 DEF Ahead
    <3>. QED
      BY <2>5, <3>1, <3>2, <3>3 DEF Channels
  <2>. QED
    BY <2>2, <2>4, <2>6, <2>9 DEF RatioBound
<1>5. ASSUME NEW w \in Workers, TrySyslogEmpty(w) PROVE IInv'
  <2>1. pc[w] = "second" => ahead[w] = 0
    BY DEF Ahead
  <2>. QED
    BY <1>5, <1>a, <2>1 DEF TrySyslogEmpty, TypeOK
<1>6. ASSUME NEW w \in Workers, TryHttpEmpty(w) PROVE IInv'
  <2>1. ahead[w] = 0
    BY <1>6 DEF TryHttpEmpty, Empty, NobodyAhead
  <2>. QED
    BY <1>6, <1>a, <2>1 DEF TryHttpEmpty, TypeOK
<1>7. ASSUME NEW w \in Workers, TryClosed(w) PROVE IInv'
  BY <1>7, <1>a DEF TryClosed, TypeOK
<1>8. ASSUME NEW w \in Workers, NEW ch \in Channels, SelectFinds(w, ch) PROVE IInv'
  <2>1. Take(w, ch) /\ TypeOK /\ NobodyAhead
    BY <1>8 DEF SelectFinds
  <2>2. /\ queued' \in [Channels -> Nat] /\ ahead' \in [Workers -> Nat]
        /\ last' \in Channels \cup {"none"} /\ NobodyAhead'
        /\ \A v \in Workers \ {w} : ahead'[v] = ahead[v] \/ ahead'[v] = 0
        /\ ch = "http" => ahead'[w] = 0
        /\ ch = "syslog" => ahead'[w] = ahead[w] + 1 \/ ahead'[w] = 0
    BY <2>1, TakeTypes
  <2>3. TypeOK'
    BY <1>8, <2>2 DEF SelectFinds, TypeOK
  <2>4. /\ pc[w] = "select" /\ pc'[w] = "wake" /\ hand'[w] = ch
        /\ \A v \in Workers \ {w} : pc'[v] = pc[v] /\ hand'[v] = hand[v]
        /\ UNCHANGED <<streak, wrapped>>
    BY <1>8 DEF SelectFinds, TypeOK
  <2>5. \A v \in Workers \ {w} :
          Ahead(v)' /\ ahead'[v] <= IF wrapped'[v] THEN WorkRatio + 1
                                    ELSE IF WorkRatio = 0 THEN 1 ELSE WorkRatio
    BY <2>2, <2>4, OtherWorkers
  <2>6. ahead[w] = 0 /\ streak[w] \in 0..(StreakModulus - 1)
    BY <2>4 DEF Ahead, TypeOK
  <2>7. Ahead(w)' /\ ahead'[w] <= IF wrapped'[w] THEN WorkRatio + 1
                                  ELSE IF WorkRatio = 0 THEN 1 ELSE WorkRatio
    BY <2>2, <2>4, <2>6 DEF Ahead, Uncounted, Channels
  <2>. QED
    BY <2>2, <2>3, <2>5, <2>7 DEF RatioBound
<1>9. ASSUME NEW w \in Workers, SelectClosed(w) PROVE IInv'
  <2>1. TypeOK' /\ NobodyAhead'
    BY <1>9 DEF SelectClosed, TypeOK, NobodyAhead
  <2>2. RatioBound'
    BY <1>9 DEF SelectClosed, RatioBound
  <2>3. Ahead(w)'
    BY <1>9 DEF SelectClosed, Ahead, Uncounted, TypeOK
  <2>4. \A v \in Workers \ {w} : Ahead(v)'
    BY <1>9, OtherWorkers DEF SelectClosed, TypeOK
  <2>. QED
    BY <2>1, <2>2, <2>3, <2>4
<1>10. ASSUME NEW w \in Workers, WakeWithItem(w) PROVE IInv'
  <2>1. hand[w] \in Channels /\ CountItem(w, hand[w]) /\ TypeOK
    BY <1>10 DEF WakeWithItem, TypeOK
  <2>2. /\ streak' \in [Workers -> 0..(StreakModulus - 1)] /\ wrapped' \in [Workers -> BOOLEAN]
        /\ \A v \in Workers \ {w} : streak'[v] = streak[v] /\ wrapped'[v] = wrapped[v]
        /\ hand[w] = "http" => streak'[w] = 0 /\ ~wrapped'[w]
        /\ hand[w] = "syslog" =>
             \/ streak'[w] = streak[w] + 1 /\ wrapped'[w] = wrapped[w]
                                           /\ streak[w] + 1 < StreakModulus
             \/ streak'[w] = 0 /\ wrapped'[w] /\ streak[w] + 1 = StreakModulus
    BY <2>1, CountTypes
  <2>3. TypeOK' /\ NobodyAhead'
    BY <1>10, <2>2 DEF WakeWithItem, TypeOK, NobodyAhead
  <2>4. /\ pc[w] = "wake" /\ pc'[w] = "run" /\ ahead' = ahead
        /\ \A v \in Workers \ {w} : pc'[v] = pc[v] /\ hand'[v] = hand[v]
    BY <1>10 DEF WakeWithItem, TypeOK
  <2>5. \A v \in Workers \ {w} :
          Ahead(v)' /\ ahead'[v] <= IF wrapped'[v] THEN WorkRatio + 1
                                    ELSE IF WorkRatio = 0 THEN 1 ELSE WorkRatio
    BY <2>2, <2>4, OtherWorkers
  <2>6. ahead[w] \in Nat /\ ahead[w] <= 1 /\ (hand[w] = "http" => ahead[w] = 0)
        /\ streak[w] \in 0..(StreakModulus - 1)
    BY <2>4 DEF Ahead, TypeOK
  <2>7. Ahead(w)' /\ ahead'[w] <= IF wrapped'[w] THEN WorkRatio + 1
                                  ELSE IF WorkRatio = 0 THEN 1 ELSE WorkRatio
    BY <2>1, <2>2, <2>4, <2>6 DEF Ahead, Uncounted, Channels
  <2>. QED
    BY <2>3, <2>5, <2>7 DEF RatioBound
<1>11. ASSUME NEW w \in Workers, WakeAndExit(w) PROVE IInv'
  <2>1. TypeOK' /\ NobodyAhead'
    BY <1>11 DEF WakeAndExit, TypeOK, NobodyAhead
  <2>2. RatioBound'
    BY <1>11 DEF WakeAndExit, RatioBound
  <2>3. Ahead(w)'
    BY <1>11 DEF WakeAndExit, Ahead, Uncounted, TypeOK
  <2>4. \A v \in Workers \ {w} : Ahead(v)'
    BY <1>11, OtherWorkers DEF WakeAndExit, TypeOK
  <2>. QED
    BY <2>1, <2>2, <2>3, <2>4
<1>12. CASE StopStep
  <2>1. TypeOK' /\ NobodyAhead'
    BY <1>12 DEF StopStep, StopDropsSenders, ChannelCloses, StopReturns, TypeOK, NobodyAhead
  <2>. QED
    BY <1>12, <1>b, <2>1 DEF StopStep, StopDropsSenders, ChannelCloses, StopReturns
<1>13. CASE UNCHANGED vars
  BY <1>13, <1>b DEF vars, TypeOK, NobodyAhead
<1>. QED
  BY <1>1, <1>2, <1>3, <1>4, <1>5, <1>6, <1>7, <1>8, <1>9, <1>10, <1>11, <1>12, <1>13
     DEF Next, TryStep, SelectStep, WakeStep

-----------------------------------------------------------------------------
(* Theorems *)

\* Whatever work_ratio, the number of workers and the width of the counter,
\* next_work_item keeps a worker from running further ahead of waiting requests
\* than RatioBound says, also across a wrap of the counter.
THEOREM RatioRespected == Spec => []RatioBound
<1>1. IInv => RatioBound
  BY DEF IInv
<1>. QED
  BY <1>1, InitInv, NextInv, PTL DEF Spec

\* The workers' variables keep their types; the streak never leaves its width.
THEOREM TypeCorrect == Spec => []TypeOK
<1>1. IInv => TypeOK
  BY DEF IInv
<1>. QED
  BY <1>1, InitInv, NextInv, PTL DEF Spec

\* Code that looks at the queues runs under the GVL, one worker at a time, and
\* no worker blocks in the select or leaves the loop with the GVL in hand.
THEOREM GvlHeldAlone == Spec => []GvlExclusive
<1>1. Init => GvlExclusive
  BY GvlAssumption DEF Init, GvlExclusive
<1>2. TypeOK /\ GvlExclusive /\ [Next]_vars => GvlExclusive'
  <2>. SUFFICES ASSUME TypeOK, GvlExclusive, [Next]_vars PROVE GvlExclusive'
    OBVIOUS
  <2>. USE GvlAssumption DEF TypeOK, GvlExclusive
  <2>1. ASSUME NEW w \in Workers, NextItem(w) \/ YieldGvl(w) PROVE GvlExclusive'
    BY <2>1 DEF NextItem, YieldGvl
  <2>2. ASSUME NEW w \in Workers, NEW ch \in Channels, TryFinds(w, ch) PROVE GvlExclusive'
    BY <2>2 DEF TryFinds
  <2>3. ASSUME NEW w \in Workers, TrySyslogEmpty(w) PROVE GvlExclusive'
    BY <2>3 DEF TrySyslogEmpty
  <2>4. ASSUME NEW w \in Workers, TryHttpEmpty(w) PROVE GvlExclusive'
    BY <2>4 DEF TryHttpEmpty
  <2>5. ASSUME NEW w \in Workers, TryClosed(w) PROVE GvlExclusive'
    BY <2>5 DEF TryClosed
  <2>6. ASSUME NEW w \in Workers, SelectStep(w) PROVE GvlExclusive'
    BY <2>6 DEF SelectStep, SelectFinds, SelectClosed
  <2>7. ASSUME NEW w \in Workers, WakeStep(w) PROVE GvlExclusive'
    BY <2>7 DEF WakeStep, WakeWithItem, WakeAndExit
  <2>8. ASSUME NEW ch \in Channels, Arrive(ch) PROVE GvlExclusive'
    BY <2>8 DEF Arrive
  <2>9. CASE StopStep
    BY <2>9 DEF StopStep, StopDropsSenders, ChannelCloses, StopReturns
  <2>10. CASE UNCHANGED vars
    BY <2>10 DEF vars
  <2>. QED
    BY <2>1, <2>2, <2>3, <2>4, <2>5, <2>6, <2>7, <2>8, <2>9, <2>10 DEF Next, TryStep
<1>. QED
  BY <1>1, <1>2, TypeCorrect, PTL DEF Spec
=============================================================================
