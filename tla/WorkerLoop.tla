----------------------------- MODULE WorkerLoop -----------------------------
(***************************************************************************)
(* How the Ruby workers share two queues: run_worker and next_work_item of *)
(* ext/hyper_ruby/src/lib.rs, with the GVL a worker holds while it looks   *)
(* at the queues and gives up while it waits, and the stop() that drops    *)
(* the senders.  Items are anonymous: a queue is the number of its items.  *)
(***************************************************************************)
EXTENDS Integers

CONSTANTS
    Workers,          \* Ruby threads inside run_worker
    WorkRatio,        \* config.syslog.work_ratio
    StreakModulus,    \* syslog_streak wraps at this value (u32: 2^32)
    ChannelCapacity   \* capacity of either queue

Channels == {"http", "syslog"}

\* work_ratio is a u32 as well; neither it nor the streak can reach the modulus.
ASSUME RatioAssumption ==
    /\ StreakModulus \in Nat \ {0}
    /\ WorkRatio \in 0..(StreakModulus - 1)

ASSUME CapacityAssumption == ChannelCapacity \in Nat \ {0}

\* Who may hold the GVL: a worker, the thread inside stop(), or nobody.
ASSUME GvlAssumption == Workers \cap {"stop", "none"} = {}

VARIABLES
    queued,   \* work_rx and syslog_rx: how many items wait
    open,     \* channels that still have a sender
    gvl,      \* who holds the GVL
    pc,       \* "run", "first", "http", "second", "select", "wake", "exit"
    streak,   \* syslog_streak
    hand,     \* what the blocking select returned
    \* history
    ahead,    \* messages a worker took since a request waits, without taking one
    wrapped,  \* the streak wrapped since the worker last took a request
    last      \* the kind of item taken last

vars == <<queued, open, gvl, pc, streak, hand, ahead, wrapped, last>>

Init ==
    /\ queued = [ch \in Channels |-> 0]
    /\ open = Channels
    /\ gvl = "none"
    /\ pc = [w \in Workers |-> "run"]
    /\ streak = [w \in Workers |-> 0]
    /\ hand = [w \in Workers |-> "none"]
    /\ ahead = [w \in Workers |-> 0]
    /\ wrapped = [w \in Workers |-> FALSE]
    /\ last = "none"

\* A listener queues an item (try_send, polled while the queue is full).
Arrive(ch) ==
    /\ ch \in open /\ queued[ch] < ChannelCapacity
    /\ queued' = [queued EXCEPT ![ch] = @ + 1]
    /\ UNCHANGED <<open, gvl, pc, streak, hand, ahead, wrapped, last>>

-----------------------------------------------------------------------------
(* The two try_recv outcomes besides Found *)

Empty(ch) == queued[ch] = 0 /\ ch \in open
Closed(ch) == queued[ch] = 0 /\ ch \notin open

\* An item leaves the queue into the hands of w.  A message taken while a
\* request waits goes ahead of it; once no request waits nobody is ahead.
Take(w, ch) ==
    /\ queued[ch] > 0
    /\ queued' = [queued EXCEPT ![ch] = @ - 1]
    /\ ahead' = IF queued'["http"] = 0 THEN [v \in Workers |-> 0]
                ELSE [ahead EXCEPT ![w] = IF ch = "syslog" THEN @ + 1 ELSE 0]
    /\ last' = ch

\* count_work_item.
CountItem(w, ch) ==
    /\ streak' = [streak EXCEPT ![w] = IF ch = "syslog" THEN (@ + 1) % StreakModulus ELSE 0]
    /\ wrapped' = [wrapped EXCEPT ![w] = /\ ch = "syslog"
                                         /\ @ \/ streak[w] + 1 = StreakModulus]

\* Mutants: one message too many; requests always first.
SyslogFirstOnceMore(w) == streak[w] <= WorkRatio
SyslogNeverFirst(w) == w \notin Workers

SyslogFirst(w) == streak[w] < WorkRatio

-----------------------------------------------------------------------------
(* next_work_item *)

\* The block has returned (or the worker has just started): with the GVL in
\* hand the worker looks for its next item.
NextItem(w) ==
    /\ pc[w] = "run" /\ gvl \in {"none", w}
    /\ gvl' = w
    /\ pc' = [pc EXCEPT ![w] = IF SyslogFirst(w) THEN "first" ELSE "http"]
    /\ UNCHANGED <<queued, open, streak, hand, ahead, wrapped, last>>

\* Ruby switches threads while the block runs.
YieldGvl(w) ==
    /\ pc[w] = "run" /\ gvl = w
    /\ gvl' = "none"
    /\ UNCHANGED <<queued, open, pc, streak, hand, ahead, wrapped, last>>

\* A try_recv that finds an item: it is counted and the block is called.
TryFinds(w, ch) ==
    /\ gvl = w
    /\ pc[w] \in (IF ch = "syslog" THEN {"first", "second"} ELSE {"http"})
    /\ Take(w, ch) /\ CountItem(w, ch)
    /\ pc' = [pc EXCEPT ![w] = "run"]
    /\ UNCHANGED <<open, gvl, hand>>

\* One that finds the queue empty: on to the next attempt, or release the GVL
\* and wait for either queue.
TrySyslogEmpty(w) ==
    /\ gvl = w /\ pc[w] \in {"first", "second"} /\ Empty("syslog")
    /\ pc' = [pc EXCEPT ![w] = IF @ = "first" THEN "http" ELSE "select"]
    /\ gvl' = IF pc[w] = "first" THEN w ELSE "none"
    /\ UNCHANGED <<queued, open, streak, hand, ahead, wrapped, last>>

TryHttpEmpty(w) ==
    /\ gvl = w /\ pc[w] = "http" /\ Empty("http")
    /\ pc' = [pc EXCEPT ![w] = IF SyslogFirst(w) THEN "select" ELSE "second"]
    /\ gvl' = IF SyslogFirst(w) THEN "none" ELSE w
    /\ UNCHANGED <<queued, open, streak, hand, ahead, wrapped, last>>

\* One that finds the channel closed ends the worker.
TryClosed(w) ==
    /\ gvl = w
    /\ \/ pc[w] \in {"first", "second"} /\ Closed("syslog")
       \/ pc[w] = "http" /\ Closed("http")
    /\ pc' = [pc EXCEPT ![w] = "exit"]
    /\ gvl' = "none"
    /\ UNCHANGED <<queued, open, streak, hand, ahead, wrapped, last>>

\* Mutant: the select waits for messages only.
SelectFindsMessages(w, ch) ==
    /\ pc[w] = "select" /\ ch = "syslog"
    /\ Take(w, ch)
    /\ hand' = [hand EXCEPT ![w] = ch]
    /\ pc' = [pc EXCEPT ![w] = "wake"]
    /\ UNCHANGED <<open, gvl, streak, wrapped>>

\* The blocking select takes an item of either queue, without the GVL ...
SelectFinds(w, ch) ==
    /\ pc[w] = "select"
    /\ Take(w, ch)
    /\ hand' = [hand EXCEPT ![w] = ch]
    /\ pc' = [pc EXCEPT ![w] = "wake"]
    /\ UNCHANGED <<open, gvl, streak, wrapped>>

\* Mutant: the select is tried again when a channel is closed.
SelectClosedAgain(w) ==
    /\ pc[w] = "select" /\ \E ch \in Channels : Closed(ch)
    /\ UNCHANGED vars

\* ... or learns that one of them is closed.
SelectClosed(w) ==
    /\ pc[w] = "select" /\ \E ch \in Channels : Closed(ch)
    /\ hand' = [hand EXCEPT ![w] = "none"]
    /\ pc' = [pc EXCEPT ![w] = "wake"]
    /\ UNCHANGED <<queued, open, gvl, streak, ahead, wrapped, last>>

\* Mutant: the worker goes on without the GVL.
WakeWithoutGvl(w) ==
    /\ pc[w] = "wake" /\ hand[w] # "none"
    /\ CountItem(w, hand[w])
    /\ hand' = [hand EXCEPT ![w] = "none"]
    /\ gvl' = w
    /\ pc' = [pc EXCEPT ![w] = "run"]
    /\ UNCHANGED <<queued, open, ahead, last>>

\* nogvl takes the GVL back before it returns.
WakeWithItem(w) ==
    /\ pc[w] = "wake" /\ gvl = "none" /\ hand[w] # "none"
    /\ CountItem(w, hand[w])
    /\ hand' = [hand EXCEPT ![w] = "none"]
    /\ gvl' = w
    /\ pc' = [pc EXCEPT ![w] = "run"]
    /\ UNCHANGED <<queued, open, ahead, last>>

WakeAndExit(w) ==
    /\ pc[w] = "wake" /\ gvl = "none" /\ hand[w] = "none"
    /\ pc' = [pc EXCEPT ![w] = "exit"]
    /\ UNCHANGED <<queued, open, gvl, streak, hand, ahead, wrapped, last>>

-----------------------------------------------------------------------------
(* stop() drops the senders and the runtime that has the other clones *)

StopDropsSenders ==
    /\ gvl = "none" /\ open = Channels
    /\ gvl' = "stop"
    /\ UNCHANGED <<queued, open, pc, streak, hand, ahead, wrapped, last>>

ChannelCloses(ch) ==
    /\ gvl = "stop" /\ ch \in open
    /\ open' = open \ {ch}
    /\ UNCHANGED <<queued, gvl, pc, streak, hand, ahead, wrapped, last>>

StopReturns ==
    /\ gvl = "stop" /\ open = {}
    /\ gvl' = "none"
    /\ UNCHANGED <<queued, open, pc, streak, hand, ahead, wrapped, last>>

-----------------------------------------------------------------------------

TryStep(w) ==
    \/ \E ch \in Channels : TryFinds(w, ch)
    \/ TrySyslogEmpty(w) \/ TryHttpEmpty(w) \/ TryClosed(w)

SelectStep(w) == (\E ch \in Channels : SelectFinds(w, ch)) \/ SelectClosed(w)

WakeStep(w) == WakeWithItem(w) \/ WakeAndExit(w)

StopStep == StopDropsSenders \/ (\E ch \in Channels : ChannelCloses(ch)) \/ StopReturns

Next ==
    \/ \E ch \in Channels : Arrive(ch)
    \/ \E w \in Workers : NextItem(w) \/ YieldGvl(w) \/ TryStep(w) \/ SelectStep(w) \/ WakeStep(w)
    \/ StopStep

Spec == Init /\ [][Next]_vars

\* Threads run, blocks return, and Ruby hands the GVL to its waiters in turn.
\* Once stop() has begun to drop the senders it goes on.
Fairness ==
    /\ \A w \in Workers : /\ WF_vars(TryStep(w)) /\ WF_vars(SelectStep(w))
                          /\ SF_vars(NextItem(w)) /\ SF_vars(WakeStep(w))
    /\ WF_vars((\E ch \in Channels : ChannelCloses(ch)) \/ StopReturns)

FairSpec == Spec /\ Fairness

-----------------------------------------------------------------------------
(* Properties *)

\* Types of the variables.
TypeOK ==
    /\ queued \in [Channels -> Nat]
    /\ open \subseteq Channels
    /\ gvl \in Workers \cup {"stop", "none"}
    /\ pc \in [Workers -> {"run", "first", "http", "second", "select", "wake", "exit"}]
    /\ streak \in [Workers -> 0..(StreakModulus - 1)]
    /\ hand \in [Workers -> Channels \cup {"none"}]
    /\ ahead \in [Workers -> Nat]
    /\ wrapped \in [Workers -> BOOLEAN]
    /\ last \in Channels \cup {"none"}

\* How many syslog messages a worker takes while requests wait and it takes none
\* of them (lib.rs:611-614): work_ratio, or one when work_ratio is 0, because a
\* request may come between the look at its queue and the next attempt.  A
\* streak that wraps around u32 starts the count again and allows one more.
RatioBound ==
    \A w \in Workers :
        ahead[w] <= IF wrapped[w] THEN WorkRatio + 1 ELSE IF WorkRatio = 0 THEN 1 ELSE WorkRatio

\* Code under the GVL runs one worker at a time, and nobody waits for an item
\* while holding it: a select with the GVL in hand would stop every other
\* thread of the process.
GvlExclusive ==
    \A w \in Workers :
        /\ pc[w] \in {"first", "http", "second"} => gvl = w
        /\ pc[w] \in {"select", "wake", "exit"} => gvl # w

\* A flood of syslog messages does not starve the requests.
RequestsNotStarved ==
    (queued["http"] > 0 /\ last = "syslog") ~> (last = "http" \/ "http" \notin open)

\* Nor do requests starve the messages, while work_ratio is positive.
MessagesNotStarved ==
    (queued["syslog"] > 0 /\ last = "http") ~> (last = "syslog" \/ "syslog" \notin open)

\* stop() ends every worker: whichever way it waits, it learns that the
\* channels are closed.
WorkersEnd == (open = {}) ~> \A w \in Workers : pc[w] = "exit"
=============================================================================
