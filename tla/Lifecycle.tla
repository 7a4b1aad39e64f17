----------------------------- MODULE Lifecycle -----------------------------
(***************************************************************************)
(* The life of one HyperRuby::Server object (ext/hyper_ruby/src/lib.rs):   *)
(* configure, start, stop, run_worker and syslog_listening? called by      *)
(* several Ruby threads.  Every start() makes a new generation of          *)
(* channels, shutdown broadcast, runtime, server task and listeners; the   *)
(* fields of the object say which generation each of them belongs to.      *)
(* start() holds the GVL throughout, stop() releases it once, to drain     *)
(* the syslog listeners.  A runtime lives while the object or a stop()     *)
(* refers to it, and takes its tasks with it.                              *)
(***************************************************************************)
EXTENDS Integers, FiniteSets

CONSTANTS
    Threads,   \* Ruby threads that call stop
    Starters,  \* those of them that call start and configure as well
    Workers,   \* Ruby threads that call run_worker
    Paths,     \* paths of "unix:" addresses
    Tcp,       \* an address that is none
    Unreadable,\* starts that cannot read the metadata of the sockets they bind
    MaxGen     \* bound: calls of start()

ASSUME LifecycleAssumption ==
    /\ MaxGen \in Nat
    /\ Starters \subseteq Threads
    /\ Tcp \notin Paths /\ "none" \notin Threads

Gens == 1 .. MaxGen
None == 0
Option == 0 .. MaxGen

\* The identity by which a start() knows its socket files again; no stored
\* identity is that of a file whose metadata could not be read.
Stray == MaxGen + 1
Ident(g) == IF g \in Unreadable THEN Stray ELSE g

VARIABLES
    bind_address, syslog_enabled,        \* self.config
    work_tx, work_rx,                    \* self.work_tx and syslog_work_tx, self.work_rx and syslog_work_rx
    shutdown, runtime, server_handle,    \* fields of self
    socket_ident, syslog_runtime,
    gen,          \* generations made
    http,         \* the server task: "none", "serving", "told" (to shut down),
                  \* "lingering" (its connections only)
    syslog,       \* the listeners: "none", "listening", "draining"
    file,         \* whose socket file is at a path
    syslog_file,  \* and at the stream_path of the configuration
    pc,           \* stop(): "idle", "waiting", "draining", "finishing"
    rt, sr, task, \* its locals: the runtime, the syslog runtime, the awaited task
    gvl,          \* the thread that blocks with the GVL held
    worker,       \* the generation of channels a worker listens to
    both,         \* whether it takes syslog messages as well
    moved,        \* history: paths of files under which the address was changed
    disturbed     \* history: another start() or stop() came in during this drain

config == <<bind_address, syslog_enabled>>
self == <<work_tx, work_rx, shutdown, runtime, server_handle, socket_ident, syslog_runtime, gen>>
tasks == <<http, syslog>>
files == <<file, syslog_file>>
calls == <<pc, rt, sr, task, gvl>>
workers == <<worker, both>>
history == <<moved, disturbed>>
vars == <<config, self, tasks, files, calls, workers, history>>

Init ==
    /\ bind_address \in Paths \cup {Tcp} /\ syslog_enabled \in BOOLEAN
    /\ work_tx = None /\ work_rx = None /\ shutdown = None /\ runtime = None
    /\ server_handle = None /\ socket_ident = None /\ syslog_runtime = None
    /\ gen = 0
    /\ http = [g \in Gens |-> "none"]
    /\ syslog = [g \in Gens |-> "none"]
    /\ file = [p \in Paths |-> None] /\ syslog_file = None
    /\ pc = [t \in Threads |-> "idle"]
    /\ rt = [t \in Threads |-> None] /\ sr = [t \in Threads |-> None]
    /\ task = [t \in Threads |-> None]
    /\ gvl = "none"
    /\ worker = [w \in Workers |-> None] /\ both = [w \in Workers |-> FALSE]
    /\ moved = {} /\ disturbed = [t \in Threads |-> FALSE]

-----------------------------------------------------------------------------
(* Tasks *)

Running(g) == syslog[g] # "none"

\* What is left of the tasks in h and s when only the runtimes in live exist.
Reap(h, s, live) ==
    /\ http' = [g \in Gens |-> IF g \in live THEN h[g] ELSE "none"]
    /\ syslog' = [g \in Gens |-> IF g \in live THEN s[g] ELSE "none"]

\* The server task sees the shutdown and waits for its connections, or ten
\* seconds; connections that take longer, or are not watched, stay.
ServerTaskEnds(g) ==
    /\ http[g] = "told"
    /\ \E h \in {"none", "lingering"} : http' = [http EXCEPT ![g] = h]
    /\ UNCHANGED <<config, self, syslog, files, calls, workers, history>>

ConnectionsEnd(g) ==
    /\ http[g] = "lingering"
    /\ http' = [http EXCEPT ![g] = "none"]
    /\ UNCHANGED <<config, self, syslog, files, calls, workers, history>>

\* The tasks of cancelled listeners end once the messages they had framed are
\* settled, by the workers of their generation.
ListenersEnd(g) ==
    /\ syslog[g] = "draining"
    /\ syslog' = [syslog EXCEPT ![g] = "none"]
    /\ UNCHANGED <<config, self, http, files, calls, workers, history>>

-----------------------------------------------------------------------------
(* configure, run_worker *)

Idle(t) == pc[t] = "idle" /\ gvl = "none"

Configure(t) ==
    /\ Idle(t) /\ t \in Starters
    /\ \E a \in Paths \cup {Tcp}, s \in BOOLEAN :
        /\ <<a, s>> # config
        /\ bind_address' = a /\ syslog_enabled' = s
        /\ moved' = IF a = bind_address THEN moved ELSE {p \in Paths : file[p] # None}
    /\ UNCHANGED <<self, tasks, files, calls, workers, disturbed>>

HttpSender(g) == work_tx = g \/ http[g] # "none"
SyslogSender(g) == work_tx = g \/ Running(g)

\* A closed channel stops a worker.
Closed(g, b) == ~HttpSender(g) \/ (b /\ ~SyslogSender(g))

\* Raises unless the server was started, and returns at once from a channel
\* that is closed by now.
RunWorker(w) ==
    /\ worker[w] = None /\ gvl = "none"
    /\ work_rx # None /\ ~Closed(work_rx, syslog_enabled)
    /\ worker' = [worker EXCEPT ![w] = work_rx]
    /\ both' = [both EXCEPT ![w] = syslog_enabled]
    /\ UNCHANGED <<config, self, tasks, files, calls, history>>

WorkerLeaves(w) ==
    /\ worker[w] # None /\ gvl = "none"
    /\ Closed(worker[w], both[w])
    /\ worker' = [worker EXCEPT ![w] = None]
    /\ both' = [both EXCEPT ![w] = FALSE]
    /\ UNCHANGED <<config, self, tasks, files, calls, history>>

\* SyslogRuntime.listening is cleared only by a stop() that has taken the handle.
syslog_listening == syslog_runtime # None

-----------------------------------------------------------------------------
(* start *)

\* The generation that start() makes.
G == gen + 1

\* The runtimes that stop() calls in progress hold on to.
HeldByStops == {rt[u] : u \in Threads}

Disturbs(t) ==
    disturbed' = [u \in Threads |-> u # t /\ (disturbed[u] \/ pc[u] = "draining")]

\* The channels and the shutdown sender are replaced before anything can fail.
NewChannels(t) ==
    /\ Idle(t) /\ t \in Starters /\ gen < MaxGen
    /\ gen' = G
    /\ work_tx' = G /\ work_rx' = G /\ shutdown' = G
    /\ Disturbs(t)
    /\ UNCHANGED <<config, calls, workers>>

\* Builder::build fails.
StartNoRuntime(t) ==
    /\ NewChannels(t)
    /\ UNCHANGED <<runtime, server_handle, socket_ident, syslog_runtime,
                   http, syslog, files, moved>>

\* Mutant: the old runtime lives on.
NewRuntimeKeepsOld(h, s) ==
    /\ runtime' = G
    /\ Reap(h, s, HeldByStops \cup {G, runtime})

\* The new runtime takes the place of the old one, whose tasks end.
NewRuntime(h, s) ==
    /\ runtime' = G
    /\ Reap(h, s, HeldByStops \cup {G})

StartNoBind(t) ==
    /\ NewChannels(t)
    /\ NewRuntime(http, syslog)
    /\ UNCHANGED <<server_handle, socket_ident, syslog_runtime, files, moved>>

\* The HTTP listener is bound, its file installed over what was there, and the
\* server task spawned.  The identity of the file is stored if it can be read.
BindHttp(s) ==
    /\ NewRuntime([http EXCEPT ![G] = "serving"], [syslog EXCEPT ![G] = s])
    /\ IF bind_address \in Paths
       THEN /\ file' = [file EXCEPT ![bind_address] = Ident(G)]
            /\ socket_ident' = IF G \in Unreadable THEN None ELSE G
            /\ moved' = moved \ {bind_address}
       ELSE UNCHANGED <<file, socket_ident, moved>>

\* A syslog listener cannot be bound.  The ones before it run on, but their
\* socket file is removed if its identity is known; start() raises before it
\* stores the server task.
StartNoSyslog(t) ==
    /\ NewChannels(t) /\ syslog_enabled
    /\ \E s \in {"none", "listening"} :
        /\ BindHttp(s)
        /\ syslog_file' = CASE s = "none" -> syslog_file
                            [] s = "listening" -> IF G \in Unreadable THEN Stray ELSE None
    /\ UNCHANGED <<server_handle, syslog_runtime>>

Start(t) ==
    /\ NewChannels(t)
    /\ \/ /\ syslog_enabled
          /\ BindHttp("listening")
          /\ syslog_runtime' = G /\ syslog_file' = Ident(G)
       \/ /\ ~syslog_enabled
          /\ BindHttp("none")
          /\ UNCHANGED <<syslog_runtime, syslog_file>>
    /\ server_handle' = G

-----------------------------------------------------------------------------
(* stop *)

TakeHandlesKeepsSyslog(t) ==
    /\ rt' = [rt EXCEPT ![t] = runtime]
    /\ sr' = [sr EXCEPT ![t] = syslog_runtime]
    /\ task' = [task EXCEPT ![t] = server_handle]
    /\ server_handle' = None /\ UNCHANGED syslog_runtime

TakeHandles(t) ==
    /\ rt' = [rt EXCEPT ![t] = runtime]
    /\ sr' = [sr EXCEPT ![t] = syslog_runtime]
    /\ task' = [task EXCEPT ![t] = server_handle]
    /\ syslog_runtime' = None /\ server_handle' = None

SendShutdown ==
    http' = [g \in Gens |-> IF g = shutdown /\ http[g] = "serving" THEN "told" ELSE http[g]]

stop_accepting ==
    syslog' = [g \in Gens |-> IF g = syslog_runtime /\ Running(g) THEN "draining" ELSE syslog[g]]

StopBeginsDropsChannels(t) ==
    /\ Idle(t) /\ runtime # None
    /\ TakeHandles(t) /\ SendShutdown /\ stop_accepting
    /\ pc' = [pc EXCEPT ![t] = "waiting"] /\ gvl' = t
    /\ work_tx' = None
    /\ Disturbs(t)
    /\ UNCHANGED <<config, work_rx, shutdown, runtime, socket_ident, gen, files, workers, moved>>

\* The object with a runtime: the shutdown is sent, the listeners are told, and
\* the call blocks on the server task with the GVL held.
StopBegins(t) ==
    /\ Idle(t) /\ runtime # None
    /\ TakeHandles(t) /\ SendShutdown /\ stop_accepting
    /\ pc' = [pc EXCEPT ![t] = "waiting"] /\ gvl' = t
    /\ Disturbs(t)
    /\ UNCHANGED <<config, work_tx, work_rx, shutdown, runtime, socket_ident, gen,
                   files, workers, moved>>

\* The task has ended, or went with its runtime; its handle is gone.  The GVL is
\* released for a drain.
TaskJoined(t) ==
    /\ pc[t] = "waiting"
    /\ task[t] # None => http[task[t]] \notin {"serving", "told"}
    /\ task' = [task EXCEPT ![t] = None]
    /\ pc' = [pc EXCEPT ![t] = IF sr[t] = None THEN "finishing" ELSE "draining"]
    /\ gvl' = IF sr[t] = None THEN t ELSE "none"
    /\ UNCHANGED <<config, self, tasks, files, rt, sr, workers, history>>

DrainOver(t) ==
    /\ pc' = [pc EXCEPT ![t] = "finishing"]
    /\ disturbed' = [disturbed EXCEPT ![t] = FALSE]
    /\ UNCHANGED <<config, self, tasks, files, rt, sr, task, gvl, workers, moved>>

DrainEnds(t) == pc[t] = "draining" /\ ~Running(sr[t]) /\ DrainOver(t)

\* Mutant: the drain has no limit.
DrainUnlimited(t) == pc[t] = "draining" /\ ~Running(sr[t]) /\ DrainOver(t)

\* SYSLOG_DRAIN_TIMEOUT: the gauge is cleared for all generations.
DrainTimesOut(t) == pc[t] = "draining" /\ Running(sr[t]) /\ DrainOver(t)

TakeFieldsKeepsChannels ==
    /\ runtime' = None /\ shutdown' = None
    /\ UNCHANGED work_tx

TakeFields == work_tx' = None /\ runtime' = None /\ shutdown' = None

\* remove_socket_file, of the generation g.
UnlinkNoSyslogFile(g) == UNCHANGED syslog_file

UnlinkSyslogFile(g) == syslog_file' = IF syslog_file = g THEN None ELSE syslog_file

\* The end of stop(): the syslog file of generation g if it is still there, the
\* fields as they are by now, and the file of the address configured by now.
Clear(g, live) ==
    /\ UnlinkSyslogFile(g)
    /\ TakeFields
    /\ IF bind_address \in Paths
       THEN /\ socket_ident' = None
            /\ file' = IF file[bind_address] = socket_ident
                       THEN [file EXCEPT ![bind_address] = None] ELSE file
       ELSE UNCHANGED <<socket_ident, file>>
    /\ moved' = {p \in moved : file'[p] # None}
    /\ Reap(http, syslog, live)
    /\ UNCHANGED <<config, work_rx, server_handle, gen, workers>>

StopFinishes(t) ==
    /\ pc[t] = "finishing" /\ gvl \in {"none", t}
    /\ Clear(sr[t], {rt[u] : u \in Threads \ {t}})
    /\ pc' = [pc EXCEPT ![t] = "idle"] /\ gvl' = "none"
    /\ rt' = [rt EXCEPT ![t] = None] /\ sr' = [sr EXCEPT ![t] = None]
    /\ Disturbs(t)
    /\ UNCHANGED <<syslog_runtime, task>>

\* Without a runtime there is nothing to wait for.
StopWithoutRuntime(t) ==
    /\ Idle(t) /\ runtime = None
    /\ syslog_runtime' = None
    /\ Clear(syslog_runtime, HeldByStops)
    /\ Disturbs(t)
    /\ UNCHANGED calls

-----------------------------------------------------------------------------

TaskStep(g) ==
    ServerTaskEnds(g) \/ ConnectionsEnd(g) \/ ListenersEnd(g)
StopStep(t) == TaskJoined(t) \/ DrainEnds(t) \/ DrainTimesOut(t) \/ StopFinishes(t)

Next ==
    \/ \E g \in Gens : TaskStep(g)
    \/ \E t \in Threads :
        \/ Configure(t) \/ Start(t) \/ StartNoRuntime(t) \/ StartNoBind(t) \/ StartNoSyslog(t)
        \/ StopBegins(t) \/ StopWithoutRuntime(t) \/ StopStep(t)
    \/ \E w \in Workers : RunWorker(w) \/ WorkerLeaves(w)

Spec == Init /\ [][Next]_vars

\* tokio runs the server task and fires its ten seconds and the drain's limit, a
\* stop() in progress goes on, and Ruby hands the GVL to its waiters in turn.
\* Nobody is made to call anything, and no message is made to be accepted.
Fairness ==
    /\ WF_vars(\E g \in Gens : ServerTaskEnds(g))
    /\ \A t \in Threads : WF_vars(StopStep(t))
    /\ \A w \in Workers : WF_vars(WorkerLeaves(w))

FairSpec == Spec /\ Fairness

-----------------------------------------------------------------------------
(* Properties *)

TypeOK ==
    /\ bind_address \in Paths \cup {Tcp} /\ syslog_enabled \in BOOLEAN
    /\ {work_tx, work_rx, shutdown, runtime, server_handle, socket_ident, syslog_runtime,
        gen} \subseteq Option
    /\ syslog_file \in Option \cup {Stray}
    /\ http \in [Gens -> {"none", "serving", "told", "lingering"}]
    /\ syslog \in [Gens -> {"none", "listening", "draining"}]
    /\ file \in [Paths -> Option \cup {Stray}]
    /\ pc \in [Threads -> {"idle", "waiting", "draining", "finishing"}]
    /\ rt \in [Threads -> Option] /\ sr \in [Threads -> Option] /\ task \in [Threads -> Option]
    /\ gvl \in Threads \cup {"none"}
    /\ worker \in [Workers -> Option] /\ both \in [Workers -> BOOLEAN]
    /\ moved \subseteq Paths /\ disturbed \in [Threads -> BOOLEAN]

AllIdle == \A t \in Threads : pc[t] = "idle"

\* Once every call has returned and the object holds no runtime, nothing of any
\* generation runs, also after failed starts and a start() or stop() in the
\* middle of another stop().  When the object holds no syslog runtime
\* either, none of its socket files is left, except one whose metadata could not
\* be read at bind, or under which bind_address was configured anew.
StoppedClean ==
    AllIdle /\ runtime = None =>
        /\ \A g \in Gens : http[g] = "none" /\ syslog[g] = "none"
        /\ syslog_runtime = None => syslog_file \in {None, Stray}
        /\ \A p \in Paths : file[p] \in {None, Stray} \/ p \in moved

\* syslog_listening? is true only while the listeners it speaks of accept, or
\* after the runtime they ran on was replaced by another start() or dropped by
\* the stop() of an earlier generation.
ListeningAccurate ==
    syslog_listening /\ runtime = syslog_runtime => syslog[syslog_runtime] = "listening"

\* While stop() drains listeners their workers stay, so that messages already
\* framed can be accepted: the channels are dropped after the drain only.  The
\* exception is a start(), or a stop() that begins or ends, during the drain.
DrainKeepsWorkers ==
    [][\A t \in Threads, w \in Workers :
        /\ pc[t] = "draining" /\ Running(sr[t])
        /\ worker[w] = sr[t] /\ worker'[w] # sr[t]
        => disturbed[t]]_vars

\* A server task that nobody told to shut down loses its shutdown sender only to
\* a start() that fails before it has a runtime: any other start() drops the
\* runtime the task is on, and stop() sends before it lets go of the sender.
SenderKept ==
    [][\A g \in Gens :
        /\ http[g] = "serving" /\ http'[g] = "serving"
        /\ shutdown = g /\ shutdown' # g
        => gen' = gen + 1 /\ runtime' = runtime]_vars

\* A stop() waits, with the GVL held, for a server task that nobody has told to
\* shut down.  Nobody will: every other call waits for the GVL.
Hung ==
    \E t \in Threads : pc[t] = "waiting" /\ task[t] # None /\ http[task[t]] = "serving"

\* Every stop() returns although it waits for the server task with the GVL held,
\* whatever is called before and during it, unless it is, or waits behind, the
\* stop() of a task that lost its shutdown sender.
StopReturns ==
    \A t \in Threads : pc[t] = "waiting" ~> pc[t] = "idle" \/ Hung

\* Once the object is stopped and no call is in progress, every run_worker
\* returns, with the same exception for what is called later.
WorkersReleased ==
    \A w \in Workers :
        AllIdle /\ runtime = None /\ shutdown = None ~> worker[w] = None \/ Hung
=============================================================================
