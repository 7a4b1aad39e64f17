-------------------------- MODULE SyslogAdmission ---------------------------
(***************************************************************************)
(* What the syslog listeners promise about a message, with no tasks,       *)
(* channels or workers in sight (lib/hyper_ruby.rb:16 and 34-42).  At most *)
(* MaxPending messages are held.  The messages of a connection are held in *)
(* the order they came and each is settled once, in that order: admitted   *)
(* by the handler, or abandoned, which needs the server to be giving up.   *)
(* A datagram is admitted or dropped.                                      *)
(***************************************************************************)
EXTENDS Integers, FiniteSets

CONSTANTS Conns, Datagrams, MaxFrames, MaxPending

VARIABLES
    fate,      \* "none", "held", "admitted", "abandoned" or "dropped"
    givingUp   \* the server is stopping, or no worker can answer any more

Messages == (Conns \X (1..MaxFrames)) \cup (Datagrams \X {1})

Held == {m \in Messages : fate[m] = "held"}

\* The messages of the same connection that came before m.
Before(m) == {<<m[1], n>> : n \in 1..(m[2] - 1)}

Init ==
    /\ fate = [m \in Messages |-> "none"]
    /\ givingUp = FALSE

Hold(m) ==
    /\ fate[m] = "none" /\ Cardinality(Held) < MaxPending
    /\ \A b \in Before(m) : fate[b] # "none"
    /\ fate' = [fate EXCEPT ![m] = "held"]
    /\ UNCHANGED givingUp

Settle(m, outcome) ==
    /\ fate[m] = "held"
    /\ \A b \in Before(m) : fate[b] \in {"admitted", "abandoned"}
    /\ fate' = [fate EXCEPT ![m] = outcome]
    /\ UNCHANGED givingUp

Admit(m) == Settle(m, "admitted")

Abandon(m) == givingUp /\ m[1] \in Conns /\ Settle(m, "abandoned")

\* A datagram is dropped when it comes or after its only attempt.
Drop(m) ==
    /\ m[1] \in Datagrams /\ fate[m] \in {"none", "held"}
    /\ fate' = [fate EXCEPT ![m] = "dropped"]
    /\ UNCHANGED givingUp

GiveUp ==
    /\ ~givingUp
    /\ givingUp' = TRUE
    /\ UNCHANGED fate

Next ==
    \/ \E m \in Messages : Hold(m) \/ Admit(m) \/ Abandon(m) \/ Drop(m)
    \/ GiveUp

Spec == Init /\ [][Next]_<<fate, givingUp>>
=============================================================================
