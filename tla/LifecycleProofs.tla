-------------------------- MODULE LifecycleProofs --------------------------
(***************************************************************************)
(* The theorems about Lifecycle, for any number of Ruby threads, workers   *)
(* and socket paths and any number of calls of start(), and about          *)
(* SocketFile: what stop() may do to the socket file of another server and *)
(* what is left of the files, for any number of servers on one path.       *)
(***************************************************************************)
EXTENDS Lifecycle, SocketFile, TLAPS

\* Zenon proves a leaf that names no other prover.
USE ZenonT(30)

-----------------------------------------------------------------------------
(* The invariant *)

\* A generation that start() has not made yet is nowhere.
Made == /\ runtime <= gen /\ server_handle <= gen /\ syslog_runtime <= gen /\ shutdown <= gen
        /\ \A t \in Threads : rt[t] <= gen

\* A thread outside stop() holds nothing.
HoldsNothing == \A t \in Threads : pc[t] = "idle" => rt[t] = None /\ sr[t] = None

\* A task runs on a runtime that the object or a stop() holds.
TasksHeld == \A g \in Gens : http[g] # "none" \/ Running(g) =>
                runtime = g \/ \E t \in Threads : rt[t] = g

\* The socket file of the listeners belongs to a handle that will remove it,
\* unless its identity is unknown.
SyslogFileOwned == syslog_file \notin {None, Stray} =>
    syslog_file = syslog_runtime \/ \E t \in Threads : sr[t] = syslog_file

\* A socket file of the server is the one stop() will look for and recognise,
\* with the same exception and that of an address configured anew.
FileOwned == \A p \in Paths \ moved : file[p] \notin {None, Stray} =>
    p = bind_address /\ socket_ident = file[p] /\ runtime # None

\* The server task and the listeners of one start() are stored and taken
\* together, and the task serves until it is taken.
Handles ==
    /\ shutdown = work_tx
    /\ syslog_runtime # None => \A t \in Threads : rt[t] # syslog_runtime
    /\ syslog_runtime # None /\ runtime = syslog_runtime => server_handle = syslog_runtime
    /\ server_handle # None /\ runtime = server_handle => http[server_handle] = "serving"

\* A stop() waits for the server task with the GVL.  While its listeners run,
\* their channels are the object's, or the task it waits for was not told.
Waits == \A t \in Threads : pc[t] = "waiting" =>
    /\ gvl = t
    /\ sr[t] # None /\ Running(sr[t]) =>
         work_tx = sr[t] \/ (task[t] = sr[t] /\ http[sr[t]] = "serving")

\* The channels of listeners being drained stay, unless another call came in.
Drains == \A t \in Threads : pc[t] = "draining" =>
    /\ sr[t] # None
    /\ Running(sr[t]) /\ ~disturbed[t] => work_tx = sr[t]

\* A stop() that took the runtime of the newest start() has told its task.
Told == \A t \in Threads : rt[t] \in Gens /\ rt[t] = shutdown => http[shutdown] # "serving"

IInv == /\ TypeOK /\ Made /\ HoldsNothing /\ TasksHeld /\ SyslogFileOwned /\ FileOwned
        /\ Handles /\ Waits /\ Drains /\ Told /\ ListeningAccurate

-----------------------------------------------------------------------------
(* Types *)

\* The types, one by one.
LEMMA StateTypes ==
    ASSUME TypeOK
    PROVE  /\ bind_address \in Paths \cup {Tcp} /\ syslog_enabled \in BOOLEAN
           /\ work_tx \in Option /\ work_rx \in Option /\ shutdown \in Option
           /\ runtime \in Option /\ server_handle \in Option /\ socket_ident \in Option
           /\ syslog_runtime \in Option /\ gen \in Option
           /\ syslog_file \in Option \cup {Stray}
           /\ http \in [Gens -> {"none", "serving", "told", "lingering"}]
           /\ syslog \in [Gens -> {"none", "listening", "draining"}]
           /\ file \in [Paths -> Option \cup {Stray}]
           /\ pc \in [Threads -> {"idle", "waiting", "draining", "finishing"}]
           /\ rt \in [Threads -> Option] /\ sr \in [Threads -> Option]
           /\ task \in [Threads -> Option]
           /\ gvl \in Threads \cup {"none"}
           /\ worker \in [Workers -> Option] /\ both \in [Workers -> BOOLEAN]
           /\ moved \subseteq Paths /\ disturbed \in [Threads -> BOOLEAN]
BY DEF TypeOK

\* The new generation of a start().
LEMMA NewGeneration ==
    ASSUME TypeOK, gen < MaxGen
    PROVE  /\ G \in Gens /\ G \in Option /\ G # None /\ G \in Int /\ gen \in Nat /\ G = gen + 1
           /\ G # Stray /\ Ident(G) \in Option \cup {Stray}
<1>1. gen \in Option
  BY StateTypes
<1>. QED
  BY <1>1, LifecycleAssumption, SMTT(30) DEF G, Gens, Option, None, Stray, Ident

\* Init establishes the types.
LEMMA TypeInit == Init => TypeOK
<1>. SUFFICES ASSUME Init PROVE TypeOK
  OBVIOUS
<1>1. None \in Option /\ 0 \in Option
  BY LifecycleAssumption, SMTT(30) DEF None, Option
<1>2. {work_tx, work_rx, shutdown, runtime, server_handle, socket_ident, syslog_runtime,
       gen} \subseteq Option /\ syslog_file \in Option \cup {Stray}
  BY <1>1 DEF Init
<1>3. /\ bind_address \in Paths \cup {Tcp} /\ syslog_enabled \in BOOLEAN
      /\ moved \subseteq Paths /\ gvl \in Threads \cup {"none"}
  BY DEF Init
<1>4. /\ http \in [Gens -> {"none", "serving", "told", "lingering"}]
      /\ syslog \in [Gens -> {"none", "listening", "draining"}]
      /\ pc \in [Threads -> {"idle", "waiting", "draining", "finishing"}]
      /\ both \in [Workers -> BOOLEAN] /\ disturbed \in [Threads -> BOOLEAN]
  BY DEF Init
<1>5. /\ file \in [Paths -> Option \cup {Stray}] /\ worker \in [Workers -> Option]
      /\ rt \in [Threads -> Option] /\ sr \in [Threads -> Option] /\ task \in [Threads -> Option]
  BY <1>1 DEF Init
<1>. QED
  BY <1>2, <1>3, <1>4, <1>5 DEF TypeOK

\* Every step keeps the types.
LEMMA TypeNext == TypeOK /\ [Next]_vars => TypeOK'
<1>. SUFFICES ASSUME TypeOK, [Next]_vars PROVE TypeOK'
  OBVIOUS
<1>. USE DEF config, self, tasks, files, calls, workers, history
<1>0. None \in Option
  BY LifecycleAssumption, SMTT(30) DEF None, Option
<1>1. ASSUME NEW g \in Gens, TaskStep(g) PROVE TypeOK'
  BY <1>1 DEF TypeOK, TaskStep, ServerTaskEnds, ConnectionsEnd, ListenersEnd
<1>2. ASSUME NEW t \in Threads, Configure(t) PROVE TypeOK'
  BY <1>2 DEF TypeOK, Configure
<1>3. ASSUME NEW w \in Workers, RunWorker(w) \/ WorkerLeaves(w) PROVE TypeOK'
  <2>1. /\ UNCHANGED <<config, self, tasks, files, calls, history>>
        /\ \E g \in Option, b \in BOOLEAN : /\ worker' = [worker EXCEPT ![w] = g]
                                           /\ both' = [both EXCEPT ![w] = b]
    BY <1>0, <1>3, StateTypes DEF RunWorker, WorkerLeaves
  <2>. QED
    BY <2>1 DEF TypeOK
<1>4. ASSUME NEW t \in Threads, StartNoRuntime(t) PROVE TypeOK'
  <2>1. G \in Option
    BY <1>4, NewGeneration DEF StartNoRuntime, NewChannels
  <2>. QED
    BY <1>4, <2>1, SMTT(30) DEF TypeOK, StartNoRuntime, NewChannels, Disturbs
<1>5. ASSUME NEW t \in Threads, StartNoBind(t) PROVE TypeOK'
  <2>1. G \in Option
    BY <1>5, NewGeneration DEF StartNoBind, NewChannels
  <2>. QED
    BY <1>5, <2>1, SMTT(30) DEF TypeOK, StartNoBind, NewChannels, NewRuntime, Reap, Disturbs
<1>6. ASSUME NEW t \in Threads, StartNoSyslog(t) PROVE TypeOK'
  <2>1. G \in Option /\ Ident(G) \in Option \cup {Stray}
    BY <1>6, NewGeneration DEF StartNoSyslog, NewChannels
  <2>2. PICK s \in {"none", "listening"} :
          BindHttp(s) /\ syslog_file' \in {syslog_file, None, Stray}
    BY <1>6 DEF StartNoSyslog
  <2>3. syslog_file' \in Option \cup {Stray}
    BY <1>0, <2>2, StateTypes
  <2>. QED
    BY <1>0, <1>6, <2>1, <2>2, <2>3, SMTT(30) DEF TypeOK, StartNoSyslog, NewChannels, BindHttp, NewRuntime, Reap, Disturbs
<1>7. ASSUME NEW t \in Threads, Start(t) PROVE TypeOK'
  <2>1. G \in Option /\ Ident(G) \in Option \cup {Stray}
    BY <1>7, NewGeneration DEF Start, NewChannels
  <2>2. PICK s \in {"none", "listening"} : BindHttp(s)
    BY <1>7 DEF Start
  <2>3. syslog_runtime' \in Option /\ syslog_file' \in Option \cup {Stray}
    BY <1>7, <2>1, StateTypes DEF Start
  <2>. QED
    BY <1>0, <1>7, <2>1, <2>2, <2>3, SMTT(30) DEF TypeOK, Start, NewChannels, BindHttp, NewRuntime, Reap, Disturbs
<1>8. ASSUME NEW t \in Threads, StopBegins(t) PROVE TypeOK'
  BY <1>0, <1>8, SMTT(30) DEF TypeOK, StopBegins, TakeHandles, SendShutdown, stop_accepting, Disturbs
<1>9. ASSUME NEW t \in Threads, StopWithoutRuntime(t) PROVE TypeOK'
  BY <1>0, <1>9, SMTT(30) DEF TypeOK, StopWithoutRuntime, Clear, UnlinkSyslogFile, TakeFields, Reap, Disturbs
<1>10. ASSUME NEW t \in Threads, TaskJoined(t) \/ DrainEnds(t) \/ DrainTimesOut(t) PROVE TypeOK'
  <2>1. CASE TaskJoined(t)
    BY <1>0, <2>1, SMTT(30) DEF TypeOK, TaskJoined
  <2>2. CASE DrainOver(t)
    BY <2>2 DEF TypeOK, DrainOver
  <2>. QED
    BY <1>10, <2>1, <2>2 DEF DrainEnds, DrainTimesOut
<1>11. ASSUME NEW t \in Threads, StopFinishes(t) PROVE TypeOK'
  BY <1>0, <1>11, SMTT(30) DEF TypeOK, StopFinishes, Clear, UnlinkSyslogFile, TakeFields, Reap, Disturbs
<1>12. CASE UNCHANGED vars
  BY <1>12 DEF TypeOK, vars
<1>. QED
  BY <1>1, <1>2, <1>3, <1>4, <1>5, <1>6, <1>7, <1>8, <1>9, <1>10, <1>11, <1>12 DEF Next, StopStep

-----------------------------------------------------------------------------
(* Steps *)

\* What the calls of start() have in common, also those that fail: generations
\* already made keep their tasks only on a runtime somebody holds.
LEMMA StartSteps ==
    ASSUME TypeOK, NEW t \in Threads,
           Start(t) \/ StartNoRuntime(t) \/ StartNoBind(t) \/ StartNoSyslog(t)
    PROVE  /\ gvl = "none" /\ gen < MaxGen /\ gen' = G /\ work_tx' = G /\ shutdown' = G
           /\ UNCHANGED <<bind_address, pc, rt, sr, task, gvl, worker>> /\ Disturbs(t)
           /\ \/ runtime' = G
              \/ UNCHANGED <<runtime, server_handle, syslog_runtime, socket_ident, http, syslog,
                             file, syslog_file>>
           /\ server_handle' \in {server_handle, G}
           /\ syslog_runtime' \in {syslog_runtime, G}
<1>. USE DEF config, self, tasks, files, calls, workers, history
<1>1. NewChannels(t) /\ server_handle' \in {server_handle, G} /\ syslog_runtime' \in {syslog_runtime, G}
  BY DEF Start, StartNoRuntime, StartNoBind, StartNoSyslog
<1>2. \/ runtime' = G
      \/ UNCHANGED <<runtime, server_handle, syslog_runtime, socket_ident, http, syslog,
                     file, syslog_file>>
  BY DEF Start, StartNoRuntime, StartNoBind, StartNoSyslog, BindHttp, NewRuntime
<1>. QED
  BY <1>1, <1>2 DEF NewChannels, Idle

\* The end of a stop(), or of one without a runtime.
LEMMA ClearSteps ==
    ASSUME TypeOK, NEW t \in Threads, StopFinishes(t) \/ StopWithoutRuntime(t)
    PROVE  /\ gvl \in {"none", t} /\ gvl' = "none"
           /\ work_tx' = None /\ runtime' = None /\ shutdown' = None
           /\ UNCHANGED <<bind_address, server_handle, gen, worker>> /\ Disturbs(t)
           /\ moved' = {p \in moved : file'[p] # None}
           /\ syslog_runtime' \in {syslog_runtime, None}
           /\ pc' = [pc EXCEPT ![t] = "idle"]
           /\ \A u \in Threads \ {t} : rt'[u] = rt[u] /\ sr'[u] = sr[u] /\ task'[u] = task[u]
           /\ rt'[t] \in {rt[t], None} /\ sr'[t] \in {sr[t], None}
           /\ \A g \in Gens : /\ http'[g] \in {http[g], "none"} /\ syslog'[g] \in {syslog[g], "none"}
                              /\ (http'[g] # "none" \/ syslog'[g] # "none") =>
                                   \E u \in Threads : rt'[u] = g
           /\ IF bind_address \in Paths
              THEN file' = IF file[bind_address] = socket_ident
                           THEN [file EXCEPT ![bind_address] = None] ELSE file
              ELSE file' = file
<1>. USE DEF config, self, tasks, files, calls, workers, history
<1>1. CASE StopFinishes(t)
  <2>1. /\ gvl \in {"none", t} /\ gvl' = "none" /\ Disturbs(t)
        /\ Clear(sr[t], {rt[u] : u \in Threads \ {t}}) /\ UNCHANGED syslog_runtime
        /\ pc' = [pc EXCEPT ![t] = "idle"] /\ rt' = [rt EXCEPT ![t] = None]
        /\ sr' = [sr EXCEPT ![t] = None] /\ task' = task
    BY <1>1 DEF StopFinishes
  <2>2. /\ \A u \in Threads \ {t} : rt'[u] = rt[u] /\ sr'[u] = sr[u] /\ task'[u] = task[u]
        /\ rt'[t] = None /\ sr'[t] = None
    BY <2>1, StateTypes
  <2>3. ASSUME NEW g \in Gens
        PROVE  /\ http'[g] \in {http[g], "none"} /\ syslog'[g] \in {syslog[g], "none"}
               /\ (http'[g] # "none" \/ syslog'[g] # "none") => \E u \in Threads : rt'[u] = g
    BY <2>1, <2>2 DEF Clear, Reap
  <2>. QED
    BY <2>1, <2>2, <2>3 DEF Clear, TakeFields
<1>2. CASE StopWithoutRuntime(t)
  <2>1. /\ gvl = "none" /\ UNCHANGED <<pc, rt, sr, task, gvl>> /\ Disturbs(t) /\ pc[t] = "idle"
        /\ Clear(syslog_runtime, HeldByStops) /\ syslog_runtime' = None
    BY <1>2 DEF StopWithoutRuntime, Idle
  <2>2. pc' = [pc EXCEPT ![t] = "idle"]
    BY <2>1, StateTypes
  <2>3. ASSUME NEW g \in Gens
        PROVE  /\ http'[g] \in {http[g], "none"} /\ syslog'[g] \in {syslog[g], "none"}
               /\ (http'[g] # "none" \/ syslog'[g] # "none") => \E u \in Threads : rt'[u] = g
    BY <2>1 DEF Clear, Reap, HeldByStops
  <2>. QED
    BY <2>1, <2>2, <2>3 DEF Clear, TakeFields
<1>. QED
  BY <1>1, <1>2

\* The steps that neither begin nor end a stop() and are no start(): tasks that
\* end, configure, run_worker, and a stop() that goes on.
Quiet ==
    \/ \E g \in Gens : TaskStep(g)
    \/ \E t \in Threads : Configure(t) \/ TaskJoined(t) \/ DrainEnds(t) \/ DrainTimesOut(t)
    \/ \E w \in Workers : RunWorker(w) \/ WorkerLeaves(w)
    \/ UNCHANGED vars

\* They leave the handles where they are, and tasks can only end.
LEMMA QuietSteps ==
    ASSUME TypeOK, Quiet
    PROVE  /\ UNCHANGED <<work_tx, shutdown, runtime, server_handle, socket_ident, syslog_runtime,
                          gen, file, syslog_file, rt, sr>>
           /\ \A g \in Gens : /\ http[g] = "serving" <=> http'[g] = "serving"
                              /\ http[g] = "none" => http'[g] = "none"
                              /\ syslog[g] = "listening" => syslog'[g] = "listening"
                              /\ syslog[g] = "none" => syslog'[g] = "none"
           /\ \A t \in Threads : /\ pc'[t] = "idle" => pc[t] = "idle"
                                 /\ pc'[t] = "waiting" => task'[t] = task[t]
                                 /\ pc'[t] = "draining" => disturbed'[t] = disturbed[t]
<1>. USE DEF config, self, tasks, files, calls, workers, history
<1>1. ASSUME NEW g \in Gens, TaskStep(g)
      PROVE  /\ UNCHANGED <<self, files, calls, history>>
             /\ \A k \in Gens : /\ http[k] = "serving" <=> http'[k] = "serving"
                                /\ http[k] = "none" => http'[k] = "none"
                                /\ syslog[k] = "listening" => syslog'[k] = "listening"
                                /\ syslog[k] = "none" => syslog'[k] = "none"
  <2>1. /\ UNCHANGED <<self, files, calls, history>>
        /\ \/ http' = http
           \/ /\ http[g] \in {"told", "lingering"}
              /\ \E h \in {"none", "lingering"} : http' = [http EXCEPT ![g] = h]
        /\ \/ syslog' = syslog
           \/ syslog[g] = "draining" /\ \E s : syslog' = [syslog EXCEPT ![g] = s]
    BY <1>1 DEF TaskStep, ServerTaskEnds, ConnectionsEnd, ListenersEnd
  <2>. QED
    BY <2>1, StateTypes
<1>2. ASSUME NEW t \in Threads, TaskJoined(t) \/ DrainEnds(t) \/ DrainTimesOut(t)
      PROVE  /\ UNCHANGED <<self, tasks, files, rt, sr, moved>>
             /\ \A u \in Threads : /\ pc'[u] = "idle" => pc[u] = "idle"
                                   /\ pc'[u] = "waiting" => task'[u] = task[u]
                                   /\ pc'[u] = "draining" => disturbed'[u] = disturbed[u]
  <2>1. CASE TaskJoined(t)
    <3>1. /\ UNCHANGED <<self, tasks, files, rt, sr, history>> /\ task' = [task EXCEPT ![t] = None]
          /\ \E l \in {"finishing", "draining"} : pc' = [pc EXCEPT ![t] = l]
      BY <2>1 DEF TaskJoined
    <3>. QED
      BY <3>1, StateTypes
  <2>2. CASE DrainOver(t)
    <3>1. /\ UNCHANGED <<self, tasks, files, rt, sr, task, moved>>
          /\ disturbed' = [disturbed EXCEPT ![t] = FALSE] /\ pc' = [pc EXCEPT ![t] = "finishing"]
      BY <2>2 DEF DrainOver
    <3>. QED
      BY <3>1, StateTypes
  <2>. QED
    BY <1>2, <2>1, <2>2 DEF DrainEnds, DrainTimesOut
<1>3. ASSUME NEW t \in Threads, Configure(t)
      PROVE  UNCHANGED <<self, tasks, files, calls, disturbed>>
  BY <1>3 DEF Configure
<1>4. ASSUME NEW w \in Workers, RunWorker(w) \/ WorkerLeaves(w)
      PROVE  UNCHANGED <<self, tasks, files, calls, history>>
  BY <1>4 DEF RunWorker, WorkerLeaves
<1>. QED
  BY <1>1, <1>2, <1>3, <1>4 DEF Quiet, vars

\* Of the calls they move only a stop() past its waiting.
LEMMA QuietCalls ==
    ASSUME Quiet
    PROVE  \/ UNCHANGED <<pc, gvl>>
           \/ \E t \in Threads : TaskJoined(t)
           \/ \E t \in Threads : DrainEnds(t) \/ DrainTimesOut(t)
BY DEF Quiet, vars, calls, TaskStep, ServerTaskEnds, ConnectionsEnd, ListenersEnd, Configure,
       RunWorker, WorkerLeaves

\* Only the workers themselves come and go.
LEMMA WorkerSteps ==
    ASSUME [Next]_vars
    PROVE  worker' = worker \/ \E w \in Workers : RunWorker(w) \/ WorkerLeaves(w)
<1>. USE DEF workers
<1>1. ASSUME NEW g \in Gens, TaskStep(g) PROVE worker' = worker
  BY <1>1 DEF TaskStep, ServerTaskEnds, ConnectionsEnd, ListenersEnd
<1>2. ASSUME NEW t \in Threads,
             Start(t) \/ StartNoRuntime(t) \/ StartNoBind(t) \/ StartNoSyslog(t)
      PROVE  worker' = worker
  BY <1>2 DEF Start, StartNoRuntime, StartNoBind, StartNoSyslog, NewChannels
<1>3. ASSUME NEW t \in Threads, Configure(t) \/ StopBegins(t) \/ StopWithoutRuntime(t) \/ StopStep(t)
      PROVE  worker' = worker
  BY <1>3 DEF Configure, StopBegins, StopWithoutRuntime, StopStep, StopFinishes, Clear,
              TaskJoined, DrainEnds, DrainTimesOut, DrainOver
<1>. QED
  BY <1>1, <1>2, <1>3 DEF Next, vars

\* Every step is of one of four kinds.
LEMMA StepKinds ==
    ASSUME [Next]_vars
    PROVE  \/ Quiet
           \/ \E t \in Threads : Start(t) \/ StartNoRuntime(t) \/ StartNoBind(t) \/ StartNoSyslog(t)
           \/ \E t \in Threads : StopBegins(t)
           \/ \E t \in Threads : StopFinishes(t) \/ StopWithoutRuntime(t)
BY DEF Next, StopStep, Quiet

\* The handles that stop() takes.
LEMMA BeginSteps ==
    ASSUME TypeOK, NEW t \in Threads, StopBegins(t)
    PROVE  /\ gvl = "none" /\ gvl' = t /\ pc[t] = "idle" /\ runtime # None
           /\ UNCHANGED <<bind_address, work_tx, shutdown, runtime, socket_ident, gen, file,
                          syslog_file, worker, moved>> /\ Disturbs(t)
           /\ syslog_runtime' = None /\ server_handle' = None
           /\ rt'[t] = runtime /\ sr'[t] = syslog_runtime /\ task'[t] = server_handle
           /\ pc' = [pc EXCEPT ![t] = "waiting"]
           /\ \A u \in Threads \ {t} : rt'[u] = rt[u] /\ sr'[u] = sr[u] /\ task'[u] = task[u]
           /\ \A g \in Gens :
                /\ http'[g] = IF g = shutdown /\ http[g] = "serving" THEN "told" ELSE http[g]
                /\ syslog'[g] = "none" <=> syslog[g] = "none"
<1>. USE DEF config, self, tasks, files, calls, workers, history
<1>1. /\ gvl = "none" /\ gvl' = t /\ pc[t] = "idle" /\ runtime # None
      /\ UNCHANGED <<bind_address, work_tx, shutdown, runtime, socket_ident, gen, file,
                     syslog_file, worker, moved>> /\ Disturbs(t)
      /\ syslog_runtime' = None /\ server_handle' = None
      /\ rt' = [rt EXCEPT ![t] = runtime] /\ sr' = [sr EXCEPT ![t] = syslog_runtime]
      /\ task' = [task EXCEPT ![t] = server_handle]
      /\ pc' = [pc EXCEPT ![t] = "waiting"]
  BY DEF StopBegins, Idle, TakeHandles
<1>2. ASSUME NEW g \in Gens
      PROVE  /\ http'[g] = IF g = shutdown /\ http[g] = "serving" THEN "told" ELSE http[g]
             /\ syslog'[g] = "none" <=> syslog[g] = "none"
  BY DEF StopBegins, SendShutdown, stop_accepting, Running
<1>. QED
  BY <1>1, <1>2, StateTypes

-----------------------------------------------------------------------------
(* The invariant is inductive *)

\* Handles are of generations already made.
LEMMA MadeNext == TypeOK /\ Made /\ [Next]_vars => Made'
<1>. SUFFICES ASSUME TypeOK, Made, [Next]_vars PROVE Made'
  OBVIOUS
<1>0. /\ gen \in Int /\ None <= gen /\ runtime \in Int /\ server_handle \in Int /\ syslog_runtime \in Int
      /\ shutdown \in Int /\ \A t \in Threads : rt[t] \in Int
  <2>1. gen \in Option /\ runtime \in Option /\ server_handle \in Option /\ syslog_runtime \in Option
        /\ shutdown \in Option /\ \A t \in Threads : rt[t] \in Option
    BY StateTypes
  <2>2. Option \subseteq Int /\ \A o \in Option : None <= o
    BY LifecycleAssumption, SMTT(30) DEF Option, None
  <2>. QED
    BY <2>1, <2>2
<1>1. CASE Quiet
  BY <1>1, QuietSteps DEF Made
<1>2. ASSUME NEW t \in Threads,
             Start(t) \/ StartNoRuntime(t) \/ StartNoBind(t) \/ StartNoSyslog(t)
      PROVE  Made'
  <2>1. /\ gen' = gen + 1 /\ shutdown' = gen + 1 /\ rt' = rt /\ runtime' \in {runtime, gen + 1}
        /\ server_handle' \in {server_handle, gen + 1}
        /\ syslog_runtime' \in {syslog_runtime, gen + 1}
    BY <1>2, StartSteps DEF G
  <2>. QED
    BY <1>0, <2>1, SMTT(30) DEF Made
<1>3. ASSUME NEW t \in Threads, StopBegins(t) PROVE Made'
  <2>1. /\ gen' = gen /\ runtime' = runtime /\ server_handle' = None /\ syslog_runtime' = None
        /\ shutdown' = shutdown
        /\ \A u \in Threads : rt'[u] \in {rt[u], runtime}
    BY <1>3, BeginSteps
  <2>. QED
    BY <1>0, <2>1 DEF Made
<1>4. ASSUME NEW t \in Threads, StopFinishes(t) \/ StopWithoutRuntime(t) PROVE Made'
  <2>1. /\ gen' = gen /\ runtime' = None /\ server_handle' = server_handle /\ shutdown' = None
        /\ syslog_runtime' \in {syslog_runtime, None}
        /\ \A u \in Threads : rt'[u] \in {rt[u], None}
    BY <1>4, ClearSteps
  <2>. QED
    BY <1>0, <2>1 DEF Made
<1>. QED
  BY <1>1, <1>2, <1>3, <1>4, StepKinds

\* A stop() gives back what it holds.
LEMMA HoldsNothingNext == TypeOK /\ HoldsNothing /\ [Next]_vars => HoldsNothing'
<1>. SUFFICES ASSUME TypeOK, HoldsNothing, [Next]_vars PROVE HoldsNothing'
  OBVIOUS
<1>1. CASE Quiet
  BY <1>1, QuietSteps DEF HoldsNothing
<1>2. ASSUME NEW t \in Threads,
             Start(t) \/ StartNoRuntime(t) \/ StartNoBind(t) \/ StartNoSyslog(t)
      PROVE  HoldsNothing'
  BY <1>2, StartSteps DEF HoldsNothing
<1>3. ASSUME NEW t \in Threads, StopBegins(t) PROVE HoldsNothing'
  <2>1. pc'[t] = "waiting" /\ \A u \in Threads \ {t} : pc'[u] = pc[u] /\ rt'[u] = rt[u] /\ sr'[u] = sr[u]
    BY <1>3, BeginSteps, StateTypes, SMTT(30)
  <2>. QED
    BY <2>1 DEF HoldsNothing
<1>4. ASSUME NEW t \in Threads, StopFinishes(t) \/ StopWithoutRuntime(t) PROVE HoldsNothing'
  <2>1. \A u \in Threads \ {t} : pc'[u] = pc[u] /\ rt'[u] = rt[u] /\ sr'[u] = sr[u]
    BY <1>4, ClearSteps, StateTypes, SMTT(30)
  <2>2. rt'[t] = None /\ sr'[t] = None
    <3>1. CASE StopFinishes(t)
      BY <3>1, StateTypes DEF StopFinishes
    <3>2. CASE StopWithoutRuntime(t)
      BY <3>2 DEF StopWithoutRuntime, Idle, calls, HoldsNothing
    <3>. QED
      BY <1>4, <3>1, <3>2
  <2>. QED
    BY <2>1, <2>2 DEF HoldsNothing
<1>. QED
  BY <1>1, <1>2, <1>3, <1>4, StepKinds

\* Whoever drops a runtime ends its tasks, unless somebody else holds it.
LEMMA TasksHeldNext == TypeOK /\ HoldsNothing /\ TasksHeld /\ [Next]_vars => TasksHeld'
<1>. SUFFICES ASSUME TypeOK, HoldsNothing, TasksHeld, [Next]_vars, NEW g \in Gens,
                     http'[g] # "none" \/ syslog'[g] # "none"
              PROVE  runtime' = g \/ \E t \in Threads : rt'[t] = g
  BY DEF TasksHeld, Running
<1>0. None # g
  BY SMTT(30) DEF None, Gens
<1>1. CASE Quiet
  BY <1>1, QuietSteps DEF TasksHeld, Running
<1>2. ASSUME NEW t \in Threads, StartNoRuntime(t) PROVE runtime' = g \/ \E u \in Threads : rt'[u] = g
  BY <1>2 DEF StartNoRuntime, NewChannels, calls, TasksHeld, Running
<1>3. ASSUME NEW t \in Threads, Start(t) \/ StartNoBind(t) \/ StartNoSyslog(t)
      PROVE  runtime' = g \/ \E u \in Threads : rt'[u] = g
  <2>1. \E h, s : NewRuntime(h, s)
    BY <1>3 DEF Start, StartNoBind, StartNoSyslog, BindHttp
  <2>2. rt' = rt
    BY <1>3, StartSteps
  <2>. QED
    BY <2>1, <2>2 DEF NewRuntime, Reap, HeldByStops
<1>4. ASSUME NEW t \in Threads, StopBegins(t) PROVE runtime' = g \/ \E u \in Threads : rt'[u] = g
  <2>1. /\ runtime' = runtime /\ pc[t] = "idle" /\ \A u \in Threads \ {t} : rt'[u] = rt[u]
        /\ http[g] # "none" \/ syslog[g] # "none"
    BY <1>4, BeginSteps
  <2>2. rt[t] # g
    BY <1>0, <2>1 DEF HoldsNothing
  <2>. QED
    BY <2>1, <2>2 DEF TasksHeld, Running
<1>5. ASSUME NEW t \in Threads, StopFinishes(t) \/ StopWithoutRuntime(t)
      PROVE  \E u \in Threads : rt'[u] = g
  BY <1>5, ClearSteps
<1>. QED
  BY <1>1, <1>2, <1>3, <1>4, <1>5, StepKinds

\* The handle that comes with the file of the listeners is kept until the file
\* is gone.
LEMMA SyslogFileNext == TypeOK /\ HoldsNothing /\ SyslogFileOwned /\ [Next]_vars => SyslogFileOwned'
<1>. SUFFICES ASSUME TypeOK, HoldsNothing, SyslogFileOwned, [Next]_vars, syslog_file' \notin {None, Stray}
              PROVE  syslog_file' = syslog_runtime' \/ \E t \in Threads : sr'[t] = syslog_file'
  BY DEF SyslogFileOwned
<1>1. CASE Quiet
  BY <1>1, QuietSteps DEF SyslogFileOwned
<1>2. ASSUME NEW t \in Threads,
             Start(t) \/ StartNoRuntime(t) \/ StartNoBind(t) \/ StartNoSyslog(t)
      PROVE  syslog_file' = syslog_runtime' \/ \E u \in Threads : sr'[u] = syslog_file'
  <2>1. \/ syslog_file' = syslog_runtime'
        \/ syslog_file' = syslog_file /\ syslog_runtime' = syslog_runtime
    BY <1>2 DEF Start, StartNoRuntime, StartNoBind, StartNoSyslog, Ident, files
  <2>2. sr' = sr
    BY <1>2, StartSteps
  <2>. QED
    BY <2>1, <2>2 DEF SyslogFileOwned
<1>3. ASSUME NEW t \in Threads, StopBegins(t) PROVE \E u \in Threads : sr'[u] = syslog_file'
  <2>1. /\ syslog_file' = syslog_file /\ pc[t] = "idle" /\ sr'[t] = syslog_runtime
        /\ \A u \in Threads \ {t} : sr'[u] = sr[u]
    BY <1>3, BeginSteps
  <2>. QED
    BY <2>1 DEF SyslogFileOwned, HoldsNothing
<1>4. ASSUME NEW t \in Threads, StopFinishes(t)
      PROVE  syslog_file' = syslog_runtime' \/ \E u \in Threads : sr'[u] = syslog_file'
  <2>1. syslog_file' = syslog_file /\ syslog_file # sr[t] /\ syslog_runtime' = syslog_runtime
    BY <1>4 DEF StopFinishes, Clear, UnlinkSyslogFile
  <2>2. \A u \in Threads \ {t} : sr'[u] = sr[u]
    BY <1>4, ClearSteps
  <2>. QED
    BY <2>1, <2>2 DEF SyslogFileOwned
<1>5. ASSUME NEW t \in Threads, StopWithoutRuntime(t) PROVE \E u \in Threads : sr'[u] = syslog_file'
  <2>1. syslog_file' = syslog_file /\ syslog_file # syslog_runtime /\ sr' = sr
    BY <1>5 DEF StopWithoutRuntime, Clear, UnlinkSyslogFile, calls
  <2>. QED
    BY <2>1 DEF SyslogFileOwned
<1>. QED
  BY <1>1, <1>2, <1>3, <1>4, <1>5, StepKinds

\* As long as bind_address is not changed under it, stop() finds the file.
LEMMA FileOwnedNext == TypeOK /\ FileOwned /\ [Next]_vars => FileOwned'
<1>. SUFFICES ASSUME TypeOK, FileOwned, [Next]_vars,
                     NEW p \in Paths \ moved', file'[p] \notin {None, Stray}
              PROVE  p = bind_address' /\ socket_ident' = file'[p] /\ runtime' # None
  BY DEF FileOwned
<1>1. CASE Quiet
  <2>1. UNCHANGED <<file, socket_ident, runtime>>
    BY <1>1, QuietSteps
  <2>2. p \notin moved /\ bind_address' = bind_address
    <3>1. ASSUME NEW t \in Threads, Configure(t) PROVE p \notin moved /\ bind_address' = bind_address
      BY <2>1, <3>1 DEF Configure
    <3>2. CASE UNCHANGED <<bind_address, moved>>
      BY <3>2
    <3>. QED
      BY <1>1, <3>1, <3>2 DEF Quiet, TaskStep, ServerTaskEnds, ConnectionsEnd, ListenersEnd, TaskJoined,
         DrainEnds, DrainTimesOut, DrainOver, RunWorker, WorkerLeaves, config, history, vars
  <2>. QED
    BY <2>1, <2>2 DEF FileOwned
<1>2. ASSUME NEW t \in Threads, StartNoRuntime(t) \/ StartNoBind(t)
      PROVE  p = bind_address' /\ socket_ident' = file'[p] /\ runtime' # None
  <2>1. UNCHANGED <<file, socket_ident, bind_address, moved>> /\ runtime' \in {runtime, G} /\ G # None
    BY <1>2, StartSteps, NewGeneration DEF StartNoRuntime, StartNoBind, files
  <2>. QED
    BY <2>1 DEF FileOwned
<1>3. ASSUME NEW t \in Threads, Start(t) \/ StartNoSyslog(t)
      PROVE  p = bind_address' /\ socket_ident' = file'[p] /\ runtime' # None
  <2>1. bind_address' = bind_address /\ G # None
    BY <1>3, StartSteps, NewGeneration
  <2>2. runtime' = G
    BY <1>3 DEF Start, StartNoSyslog, BindHttp, NewRuntime
  <2>3. CASE bind_address \in Paths
    <3>1. /\ file' = [file EXCEPT ![bind_address] = Ident(G)]
          /\ socket_ident' = IF G \in Unreadable THEN None ELSE G
          /\ moved' = moved \ {bind_address}
      BY <1>3, <2>3 DEF Start, StartNoSyslog, BindHttp
    <3>2. p = bind_address
      BY <3>1, StateTypes DEF FileOwned
    <3>3. file'[p] = Ident(G)
      BY <3>1, <3>2, StateTypes
    <3>. QED
      BY <2>1, <2>2, <3>1, <3>2, <3>3 DEF Ident
  <2>4. CASE bind_address \notin Paths
    <3>1. UNCHANGED <<file, socket_ident, moved>>
      BY <1>3, <2>4 DEF Start, StartNoSyslog, BindHttp
    <3>. QED
      BY <2>4, <3>1 DEF FileOwned
  <2>. QED
    BY <2>3, <2>4
<1>4. ASSUME NEW t \in Threads, StopBegins(t)
      PROVE  p = bind_address' /\ socket_ident' = file'[p] /\ runtime' # None
  BY <1>4, BeginSteps DEF FileOwned
<1>5. ASSUME NEW t \in Threads, StopFinishes(t) \/ StopWithoutRuntime(t) PROVE FALSE
  <2>1. /\ bind_address' = bind_address /\ moved' = {q \in moved : file'[q] # None}
        /\ IF bind_address \in Paths
           THEN file' = IF file[bind_address] = socket_ident
                        THEN [file EXCEPT ![bind_address] = None] ELSE file
           ELSE file' = file
    BY <1>5, ClearSteps
  <2>2. file[p] \notin {None, Stray} /\ p \notin moved
    BY <2>1, StateTypes
  <2>3. p = bind_address /\ socket_ident = file[p]
    BY <2>1, <2>2 DEF FileOwned
  <2>. QED
    BY <2>1, <2>3, StateTypes
<1>. QED
  BY <1>1, <1>2, <1>3, <1>4, <1>5, StepKinds

\* What a new generation cannot be.
LEMMA Fresh ==
    ASSUME TypeOK, Made, gen < MaxGen
    PROVE  /\ G # runtime /\ G # server_handle /\ G # syslog_runtime /\ G \in Gens /\ G # None
           /\ G # shutdown
           /\ \A t \in Threads : rt[t] # G
<1>1. G = gen + 1 /\ gen \in Nat /\ G \in Gens /\ G # None
  BY NewGeneration
<1>. QED
  BY <1>1, SMTT(30) DEF Made

\* start() stores the handles of one generation together; stop() takes both.
LEMMA HandlesNext == TypeOK /\ Made /\ Handles /\ [Next]_vars => Handles'
<1>. SUFFICES ASSUME TypeOK, Made, Handles, [Next]_vars PROVE Handles'
  OBVIOUS
<1>0. server_handle # None => server_handle \in Gens
  BY StateTypes, SMTT(30) DEF Option, Gens, None
<1>1. CASE Quiet
  <2>1. UNCHANGED <<work_tx, shutdown, runtime, server_handle, syslog_runtime, rt>>
    BY <1>1, QuietSteps
  <2>2. \A g \in Gens : http[g] = "serving" => http'[g] = "serving"
    BY <1>1, QuietSteps
  <2>. QED
    BY <1>0, <2>1, <2>2 DEF Handles
<1>2. ASSUME NEW t \in Threads,
             Start(t) \/ StartNoRuntime(t) \/ StartNoBind(t) \/ StartNoSyslog(t)
      PROVE  Handles'
  <2>1. /\ gen < MaxGen /\ work_tx' = G /\ shutdown' = G /\ rt' = rt
        /\ runtime' = G \/ UNCHANGED <<runtime, server_handle, syslog_runtime, http>>
        /\ server_handle' \in {server_handle, G} /\ syslog_runtime' \in {syslog_runtime, G}
    BY <1>2, StartSteps
  <2>2. /\ G # runtime /\ G # server_handle /\ G # syslog_runtime /\ G \in Gens
        /\ \A u \in Threads : rt[u] # G
    BY <2>1, Fresh
  <2>3. syslog_runtime' # None => \A u \in Threads : rt'[u] # syslog_runtime'
    BY <2>1, <2>2 DEF Handles
  <2>4. CASE Start(t)
    <3>1. server_handle' = G /\ runtime' = G /\ http'[G] = "serving"
      BY <2>2, <2>4, StateTypes DEF Start, BindHttp, NewRuntime, Reap
    <3>. QED
      BY <2>1, <2>2, <2>3, <3>1 DEF Handles
  <2>5. CASE StartNoRuntime(t) \/ StartNoBind(t) \/ StartNoSyslog(t)
    <3>1. server_handle' = server_handle /\ syslog_runtime' = syslog_runtime
      BY <2>5 DEF StartNoRuntime, StartNoBind, StartNoSyslog
    <3>. QED
      BY <2>1, <2>2, <2>3, <3>1 DEF Handles
  <2>. QED
    BY <1>2, <2>4, <2>5
<1>3. ASSUME NEW t \in Threads, StopBegins(t) PROVE Handles'
  BY <1>3, BeginSteps DEF Handles
<1>4. ASSUME NEW t \in Threads, StopFinishes(t) \/ StopWithoutRuntime(t) PROVE Handles'
  <2>1. /\ work_tx' = None /\ runtime' = None /\ shutdown' = None /\ server_handle' = server_handle
        /\ syslog_runtime' \in {syslog_runtime, None}
        /\ \A u \in Threads : rt'[u] \in {rt[u], None}
    BY <1>4, ClearSteps
  <2>. QED
    BY <2>1 DEF Handles
<1>. QED
  BY <1>1, <1>2, <1>3, <1>4, StepKinds

\* syslog_listening? speaks of the newest listeners.
LEMMA ListeningNext == TypeOK /\ Made /\ ListeningAccurate /\ [Next]_vars => ListeningAccurate'
<1>. SUFFICES ASSUME TypeOK, Made, ListeningAccurate, [Next]_vars,
                     syslog_runtime' # None, runtime' = syslog_runtime'
              PROVE  syslog'[syslog_runtime'] = "listening"
  BY DEF ListeningAccurate, syslog_listening
<1>1. CASE Quiet
  <2>1. /\ runtime' = runtime /\ syslog_runtime' = syslog_runtime
        /\ \A g \in Gens : syslog[g] = "listening" => syslog'[g] = "listening"
    BY <1>1, QuietSteps
  <2>2. syslog_runtime # None /\ runtime = syslog_runtime
    BY <2>1
  <2>3. syslog_runtime \in Gens
    BY <2>2, StateTypes, SMTT(30) DEF Option, Gens, None
  <2>4. syslog[syslog_runtime] = "listening"
    BY <2>2 DEF ListeningAccurate, syslog_listening
  <2>. QED
    BY <2>1, <2>3, <2>4
<1>2. ASSUME NEW t \in Threads,
             Start(t) \/ StartNoRuntime(t) \/ StartNoBind(t) \/ StartNoSyslog(t)
      PROVE  syslog'[syslog_runtime'] = "listening"
  <2>1. /\ gen < MaxGen /\ syslog_runtime' \in {syslog_runtime, G}
        /\ runtime' = G \/ UNCHANGED <<runtime, syslog_runtime, syslog>>
    BY <1>2, StartSteps
  <2>2. G # runtime /\ G # syslog_runtime /\ G \in Gens
    BY <2>1, Fresh
  <2>3. CASE syslog_runtime' = G
    <3>1. BindHttp("listening")
      BY <1>2, <2>2, <2>3 DEF Start, StartNoRuntime, StartNoBind, StartNoSyslog
    <3>. QED
      BY <2>2, <2>3, <3>1, StateTypes DEF BindHttp, NewRuntime, Reap
  <2>4. CASE syslog_runtime' = syslog_runtime
    BY <2>1, <2>2, <2>4 DEF ListeningAccurate, syslog_listening
  <2>. QED
    BY <2>1, <2>3, <2>4
<1>3. ASSUME NEW t \in Threads, StopBegins(t) PROVE FALSE
  BY <1>3, BeginSteps
<1>4. ASSUME NEW t \in Threads, StopFinishes(t) \/ StopWithoutRuntime(t) PROVE FALSE
  BY <1>4, ClearSteps
<1>. QED
  BY <1>1, <1>2, <1>3, <1>4, StepKinds

\* The listeners that a stop() takes belong to a task that still serves.
LEMMA Taken ==
    ASSUME TypeOK, TasksHeld, Handles, syslog_runtime # None, Running(syslog_runtime)
    PROVE  /\ syslog_runtime \in Gens
           /\ runtime = syslog_runtime /\ server_handle = syslog_runtime
           /\ http[syslog_runtime] = "serving"
<1>1. syslog_runtime \in Gens
  BY StateTypes, SMTT(30) DEF Option, Gens, None
<1>2. runtime = syslog_runtime
  BY <1>1 DEF TasksHeld, Handles
<1>. QED
  BY <1>1, <1>2 DEF Handles

\* A thread that waits keeps every other call out, and is told of by its own
\* shutdown or waits in vain.
LEMMA WaitsNext == TypeOK /\ TasksHeld /\ Handles /\ Waits /\ [Next]_vars => Waits'
<1>. SUFFICES ASSUME TypeOK, TasksHeld, Handles, Waits, [Next]_vars,
                     NEW u \in Threads, pc'[u] = "waiting"
              PROVE  /\ gvl' = u
                     /\ sr'[u] # None /\ Running(sr[u])' =>
                          work_tx' = sr'[u] \/ (task'[u] = sr'[u] /\ http'[sr'[u]] = "serving")
  BY DEF Waits
<1>0. u # "none" /\ (pc[u] = "waiting" => gvl = u)
  BY LifecycleAssumption DEF Waits
<1>1. CASE Quiet
  <2>1. pc[u] = "waiting" /\ gvl' = gvl
    <3>1. CASE UNCHANGED <<pc, gvl>>
      BY <3>1
    <3>2. ASSUME NEW t \in Threads, TaskJoined(t) PROVE pc[u] = "waiting" /\ gvl' = gvl
      <4>1. t # u /\ pc[u] = "waiting"
        BY <3>2, StateTypes DEF TaskJoined
      <4>. QED
        BY <1>0, <3>2, <4>1 DEF Waits, TaskJoined
    <3>3. ASSUME NEW t \in Threads, DrainEnds(t) \/ DrainTimesOut(t)
          PROVE  pc[u] = "waiting" /\ gvl' = gvl
      BY <3>3, StateTypes DEF DrainEnds, DrainTimesOut, DrainOver
    <3>. QED
      BY <1>1, <3>1, <3>2, <3>3, QuietCalls
  <2>2. /\ sr'[u] = sr[u] /\ task'[u] = task[u] /\ work_tx' = work_tx
        /\ \A g \in Gens : /\ http[g] = "serving" => http'[g] = "serving"
                           /\ syslog[g] = "none" => syslog'[g] = "none"
    BY <1>1, QuietSteps
  <2>3. sr[u] # None => sr[u] \in Gens
    BY StateTypes, SMTT(30) DEF Option, Gens, None
  <2>4. sr[u] # None /\ Running(sr[u]) =>
           work_tx = sr[u] \/ (task[u] = sr[u] /\ http[sr[u]] = "serving")
    BY <2>1 DEF Waits
  <2>. QED
    BY <1>0, <2>1, <2>2, <2>3, <2>4 DEF Running
<1>2. ASSUME NEW t \in Threads,
             Start(t) \/ StartNoRuntime(t) \/ StartNoBind(t) \/ StartNoSyslog(t)
      PROVE  FALSE
  BY <1>0, <1>2 DEF Start, StartNoRuntime, StartNoBind, StartNoSyslog, NewChannels, Idle, calls
<1>3. ASSUME NEW t \in Threads, StopBegins(t)
      PROVE  /\ gvl' = u
             /\ sr'[u] # None /\ Running(sr[u])' =>
                  work_tx' = sr'[u] \/ (task'[u] = sr'[u] /\ http'[sr'[u]] = "serving")
  <2>1. t = u
    BY <1>0, <1>3, StateTypes DEF StopBegins, Idle
  <2>2. /\ gvl' = u /\ work_tx' = work_tx
        /\ sr'[u] = syslog_runtime /\ task'[u] = server_handle
    BY <1>3, <2>1, StateTypes DEF StopBegins, TakeHandles
  <2>3. ASSUME syslog_runtime # None, Running(sr[u])', work_tx # syslog_runtime
        PROVE  task'[u] = sr'[u] /\ http'[sr'[u]] = "serving"
    <3>1. syslog_runtime \in Gens
      BY <2>3, StateTypes, SMTT(30) DEF Option, Gens, None
    <3>2. Running(syslog_runtime)
      BY <1>3, <2>2, <2>3, <3>1 DEF Running, StopBegins, stop_accepting
    <3>3. server_handle = syslog_runtime /\ http[syslog_runtime] = "serving"
      BY <2>3, <3>2, Taken
    <3>4. shutdown # syslog_runtime
      BY <2>3 DEF Handles
    <3>. QED
      BY <1>3, <2>2, <3>1, <3>3, <3>4 DEF StopBegins, SendShutdown
  <2>. QED
    BY <2>2, <2>3
<1>4. ASSUME NEW t \in Threads, StopFinishes(t) \/ StopWithoutRuntime(t) PROVE FALSE
  <2>1. pc[u] = "waiting" /\ (StopFinishes(t) => t # u)
    BY <1>4, StateTypes DEF StopFinishes, StopWithoutRuntime, calls
  <2>. QED
    BY <1>0, <1>4, <2>1 DEF StopFinishes, StopWithoutRuntime, Idle
<1>. QED
  BY <1>1, <1>2, <1>3, <1>4, StepKinds

\* When the drain begins the task has ended, so its shutdown was the object's,
\* and with it the channels; whoever replaces them disturbs the drain.
LEMMA DrainsNext == TypeOK /\ Waits /\ Drains /\ [Next]_vars => Drains'
<1>. SUFFICES ASSUME TypeOK, Waits, Drains, [Next]_vars, NEW u \in Threads, pc'[u] = "draining"
              PROVE  sr'[u] # None /\ (Running(sr[u])' /\ ~disturbed'[u] => work_tx' = sr'[u])
  BY DEF Drains
<1>1. CASE Quiet
  <2>1. /\ sr' = sr /\ work_tx' = work_tx /\ disturbed'[u] = disturbed[u]
        /\ \A g \in Gens : syslog[g] = "none" => syslog'[g] = "none"
    BY <1>1, QuietSteps
  <2>2. sr[u] # None /\ (Running(sr[u]) /\ ~disturbed[u] => work_tx = sr[u])
    <3>1. CASE pc[u] = "draining"
      BY <3>1 DEF Drains
    <3>2. CASE pc[u] # "draining"
      <4>1. TaskJoined(u)
        <5>1. ~UNCHANGED <<pc, gvl>>
          BY <3>2
        <5>2. ASSUME NEW t \in Threads, DrainEnds(t) \/ DrainTimesOut(t) PROVE FALSE
          BY <3>2, <5>2, StateTypes DEF DrainEnds, DrainTimesOut, DrainOver
        <5>3. ASSUME NEW t \in Threads, TaskJoined(t) PROVE t = u
          BY <3>2, <5>3, StateTypes DEF TaskJoined
        <5>. QED
          BY <1>1, <5>1, <5>2, <5>3, QuietCalls
      <4>2. /\ sr[u] # None /\ pc[u] = "waiting"
            /\ task[u] # None => http[task[u]] \notin {"serving", "told"}
        BY <4>1, StateTypes DEF TaskJoined
      <4>. QED
        BY <4>2 DEF Waits
    <3>. QED
      BY <3>1, <3>2
  <2>3. sr[u] \in Gens
    BY <2>2, StateTypes, SMTT(30) DEF Option, Gens, None
  <2>. QED
    BY <2>1, <2>2, <2>3 DEF Running
<1>2. ASSUME NEW t \in Threads, Disturbs(t), pc[t] # "draining", pc'[t] # "draining",
             \A v \in Threads \ {t} : pc'[v] = pc[v] /\ sr'[v] = sr[v]
      PROVE  sr'[u] # None /\ disturbed'[u]
  BY <1>2 DEF Disturbs, Drains
<1>3. ASSUME NEW t \in Threads,
             Start(t) \/ StartNoRuntime(t) \/ StartNoBind(t) \/ StartNoSyslog(t)
      PROVE  sr'[u] # None /\ disturbed'[u]
  <2>1. Disturbs(t) /\ pc[t] = "idle" /\ pc' = pc /\ sr' = sr
    BY <1>3 DEF Start, StartNoRuntime, StartNoBind, StartNoSyslog, NewChannels, Idle, calls
  <2>. QED
    BY <1>2, <2>1
<1>4. ASSUME NEW t \in Threads, StopBegins(t) PROVE sr'[u] # None /\ disturbed'[u]
  <2>1. /\ Disturbs(t) /\ pc[t] = "idle" /\ pc' = [pc EXCEPT ![t] = "waiting"]
        /\ \A v \in Threads \ {t} : sr'[v] = sr[v]
    BY <1>4, BeginSteps
  <2>. QED
    BY <1>2, <2>1, StateTypes
<1>5. ASSUME NEW t \in Threads, StopFinishes(t) PROVE sr'[u] # None /\ disturbed'[u]
  <2>1. /\ Disturbs(t) /\ pc[t] = "finishing" /\ pc' = [pc EXCEPT ![t] = "idle"]
        /\ sr' = [sr EXCEPT ![t] = None]
    BY <1>5 DEF StopFinishes
  <2>. QED
    BY <1>2, <2>1, StateTypes
<1>6. ASSUME NEW t \in Threads, StopWithoutRuntime(t) PROVE sr'[u] # None /\ disturbed'[u]
  <2>1. Disturbs(t) /\ pc[t] = "idle" /\ pc' = pc /\ sr' = sr
    BY <1>6 DEF StopWithoutRuntime, Idle, calls
  <2>. QED
    BY <1>2, <2>1
<1>. QED
  BY <1>1, <1>3, <1>4, <1>5, <1>6, StepKinds

\* A stop() sends the shutdown when it takes the runtime, and every start()
\* brings a new sender.
LEMMA ToldNext == TypeOK /\ Made /\ Told /\ [Next]_vars => Told'
<1>. SUFFICES ASSUME TypeOK, Made, Told, [Next]_vars, NEW u \in Threads,
                     rt'[u] \in Gens, rt'[u] = shutdown', http'[shutdown'] = "serving"
              PROVE  FALSE
  BY DEF Told
<1>0. None \notin Gens
  BY SMTT(30) DEF None, Gens
<1>1. CASE Quiet
  <2>1. UNCHANGED <<rt, shutdown>> /\ \A g \in Gens : http'[g] = "serving" => http[g] = "serving"
    BY <1>1, QuietSteps
  <2>. QED
    BY <2>1 DEF Told
<1>2. ASSUME NEW t \in Threads,
             Start(t) \/ StartNoRuntime(t) \/ StartNoBind(t) \/ StartNoSyslog(t)
      PROVE  FALSE
  BY <1>2, StartSteps, Fresh
<1>3. ASSUME NEW t \in Threads, StopBegins(t) PROVE FALSE
  <2>1. /\ shutdown' = shutdown
        /\ \A g \in Gens :
             http'[g] = IF g = shutdown /\ http[g] = "serving" THEN "told" ELSE http[g]
    BY <1>3, BeginSteps
  <2>. QED
    BY <2>1
<1>4. ASSUME NEW t \in Threads, StopFinishes(t) \/ StopWithoutRuntime(t) PROVE FALSE
  BY <1>0, <1>4, ClearSteps
<1>. QED
  BY <1>1, <1>2, <1>3, <1>4, StepKinds

-----------------------------------------------------------------------------
(* The theorems *)

LEMMA InvariantInit == Init => IInv
<1>. SUFFICES ASSUME Init PROVE IInv
  OBVIOUS
<1>1. /\ \A g \in Gens : http[g] = "none" /\ syslog[g] = "none"
      /\ \A p \in Paths : file[p] = None
      /\ \A t \in Threads : pc[t] = "idle" /\ rt[t] = None /\ sr[t] = None
  BY DEF Init
<1>2. /\ work_tx = None /\ shutdown = None /\ runtime = None /\ server_handle = None
      /\ syslog_runtime = None /\ gen = 0 /\ syslog_file = None
  BY DEF Init
<1>3. Made
  BY <1>1, <1>2, SMTT(30) DEF Made, None
<1>4. HoldsNothing /\ TasksHeld /\ SyslogFileOwned /\ FileOwned
  BY <1>1, <1>2 DEF HoldsNothing, TasksHeld, Running, SyslogFileOwned, FileOwned
<1>5. Handles /\ ListeningAccurate
  BY <1>2 DEF Handles, ListeningAccurate, syslog_listening
<1>6. Waits /\ Drains
  BY <1>1 DEF Waits, Drains
<1>7. Told
  BY <1>1, SMTT(30) DEF Told, Gens, None
<1>. QED
  BY <1>3, <1>4, <1>5, <1>6, <1>7, TypeInit DEF IInv

LEMMA Invariant == Spec => []IInv
<1>1. IInv /\ [Next]_vars => IInv'
  BY TypeNext, MadeNext, HoldsNothingNext, TasksHeldNext, SyslogFileNext, FileOwnedNext,
     HandlesNext, WaitsNext, DrainsNext, ToldNext, ListeningNext DEF IInv
<1>. QED
  BY <1>1, InvariantInit, PTL DEF Spec

\* The fields, the tasks, the files and the calls have their types.
THEOREM TypeCorrect == Spec => []TypeOK
<1>1. IInv => TypeOK
  BY DEF IInv
<1>. QED
  BY <1>1, Invariant, PTL

\* An object that holds no runtime and that no stop() is at work on has left
\* nothing behind: no task of any start(), and none of its socket files unless
\* its metadata could not be read, its address was configured anew or a handle of
\* listeners is still stored.
THEOREM NothingLeft == Spec => []StoppedClean
<1>1. ASSUME IInv, AllIdle, runtime = None
      PROVE  /\ \A g \in Gens : http[g] = "none" /\ syslog[g] = "none"
             /\ syslog_runtime = None => syslog_file \in {None, Stray}
             /\ \A p \in Paths : file[p] \in {None, Stray} \/ p \in moved
  <2>1. \A t \in Threads : rt[t] = None /\ sr[t] = None
    BY <1>1 DEF IInv, AllIdle, HoldsNothing
  <2>2. ASSUME NEW g \in Gens PROVE http[g] = "none" /\ syslog[g] = "none"
    <3>1. g # None
      BY SMTT(30) DEF Gens, None
    <3>. QED
      BY <1>1, <2>1, <3>1 DEF IInv, TasksHeld, Running
  <2>3. syslog_runtime = None => syslog_file \in {None, Stray}
    BY <1>1, <2>1 DEF IInv, SyslogFileOwned
  <2>4. \A p \in Paths : file[p] \in {None, Stray} \/ p \in moved
    BY <1>1 DEF IInv, FileOwned
  <2>. QED
    BY <2>2, <2>3, <2>4
<1>2. IInv => StoppedClean
  BY <1>1 DEF StoppedClean
<1>. QED
  BY <1>2, Invariant, PTL

\* syslog_listening? answers for listeners that accept, as long as the runtime
\* they were started on is the object's.
THEOREM ListeningTrue == Spec => []ListeningAccurate
<1>1. IInv => ListeningAccurate
  BY DEF IInv
<1>. QED
  BY <1>1, Invariant, PTL

\* A drain that no other start() or stop() disturbs keeps every worker of its
\* generation: stop() drops the channels they listen to after the drain.
THEOREM WorkersKept == Spec => DrainKeepsWorkers
<1>. DEFINE Kept == \A t \in Threads, w \in Workers :
              /\ pc[t] = "draining" /\ Running(sr[t])
              /\ worker[w] = sr[t] /\ worker'[w] # sr[t]
              => disturbed[t]
<1>1. IInv /\ [Next]_vars => Kept
  <2>. SUFFICES ASSUME IInv, [Next]_vars, NEW t \in Threads, NEW w \in Workers,
                       pc[t] = "draining", Running(sr[t]), worker[w] = sr[t], worker'[w] # sr[t],
                       ~disturbed[t]
                PROVE  FALSE
    OBVIOUS
  <2>1. TypeOK /\ sr[t] # None /\ work_tx = sr[t]
    BY DEF IInv, Drains
  <2>2. worker' # worker
    OBVIOUS
  <2>3. ASSUME NEW v \in Workers, RunWorker(v) PROVE FALSE
    BY <2>1, <2>3, StateTypes DEF RunWorker
  <2>4. ASSUME NEW v \in Workers, WorkerLeaves(v) PROVE FALSE
    <3>1. v = w
      BY <2>1, <2>4, StateTypes DEF WorkerLeaves
    <3>. QED
      BY <2>1, <2>4, <3>1 DEF WorkerLeaves, Closed, HttpSender, SyslogSender
  <2>. QED
    BY <2>1, <2>2, <2>3, <2>4, WorkerSteps
<1>. QED
  BY <1>1, Invariant, PTL DEF Spec, DrainKeepsWorkers

\* For any number of threads and calls: the sender with which a serving task is
\* told to stop is lost only to a start() that fails before it has a runtime.
THEOREM SenderNotLost == Spec => SenderKept
<1>. DEFINE Kept == \A g \in Gens :
              /\ http[g] = "serving" /\ http'[g] = "serving"
              /\ shutdown = g /\ shutdown' # g
              => gen' = gen + 1 /\ runtime' = runtime
<1>1. IInv /\ [Next]_vars => Kept
  <2>. SUFFICES ASSUME IInv, [Next]_vars, NEW g \in Gens,
                       http[g] = "serving", http'[g] = "serving", shutdown = g, shutdown' # g
                PROVE  gen' = gen + 1 /\ runtime' = runtime
    OBVIOUS
  <2>0. TypeOK /\ Made /\ \A u \in Threads : rt[u] # g
    BY DEF IInv, Told
  <2>1. CASE Quiet
    BY <2>0, <2>1, QuietSteps
  <2>2. ASSUME NEW t \in Threads, StartNoRuntime(t) PROVE gen' = gen + 1 /\ runtime' = runtime
    BY <2>2 DEF StartNoRuntime, NewChannels, G
  <2>3. ASSUME NEW t \in Threads, Start(t) \/ StartNoBind(t) \/ StartNoSyslog(t) PROVE FALSE
    <3>1. g # G
      BY <2>0, <2>3, StartSteps, Fresh
    <3>2. \E h, s : NewRuntime(h, s)
      BY <2>3 DEF Start, StartNoBind, StartNoSyslog, BindHttp
    <3>. QED
      BY <2>0, <3>1, <3>2 DEF NewRuntime, Reap, HeldByStops
  <2>4. ASSUME NEW t \in Threads, StopBegins(t) PROVE FALSE
    BY <2>0, <2>4, BeginSteps
  <2>5. ASSUME NEW t \in Threads, StopFinishes(t) \/ StopWithoutRuntime(t) PROVE FALSE
    <3>1. PICK u \in Threads : rt'[u] = g
      BY <2>0, <2>5, ClearSteps
    <3>2. rt'[u] \in {rt[u], None}
      BY <2>0, <2>5, ClearSteps
    <3>3. g # None
      BY SMTT(30) DEF Gens, None
    <3>. QED
      BY <2>0, <3>1, <3>2, <3>3
  <2>. QED
    BY <2>1, <2>2, <2>3, <2>4, <2>5, StepKinds
<1>. QED
  BY <1>1, Invariant, PTL DEF Spec, SenderKept

-----------------------------------------------------------------------------
(* Socket files of servers that overlap *)

\* Types of the variables of SocketFile.
SocketTypes ==
    /\ state \in [Servers -> {"new", "bound", "serving", "failed", "closed", "removing",
                              "stopped", "crashed"}]
    /\ inode \in [Servers -> Inodes \cup {NoInode}]
    /\ ident \in [Servers -> Inodes \cup {NoInode}]
    /\ path \in Servers \cup {NoServer}
    /\ tmp \subseteq Servers
    /\ raced \in [Servers -> SUBSET Servers]

\* A server knows its own identity or none, none before it has bound.
OwnIdentity ==
    \A s \in Servers :
        /\ ident[s] \in {inode[s], NoInode}
        /\ state[s] = "new" => ident[s] = NoInode

\* The server at the path was renamed there and has not removed it: it is up,
\* died, or stopped without an identity.
PathOwner ==
    path \in Servers =>
        \/ state[path] \in {"serving", "closed", "removing", "crashed"}
        \/ state[path] = "stopped" /\ ident[path] = NoInode

\* A temporary file exists only until its server has renamed or removed it.
TmpOwners == \A s \in tmp : state[s] \in {"bound", "crashed"}

\* A server about to remove the path finds its own file there, or one that came
\* after its check, or one with its inode number.
RemovingKnows ==
    \A s \in Servers : state[s] = "removing" /\ path \in Servers \ {s} =>
        path \in raced[s] \/ inode[path] = inode[s]

SocketInv == SocketTypes /\ OwnIdentity /\ PathOwner /\ TmpOwners /\ RemovingKnows

\* The invariant holds before any server has started.
LEMMA SocketInvInit == SocketInit => SocketInv
BY InodesAssumption DEF SocketInit, SocketInv, SocketTypes, OwnIdentity, PathOwner, TmpOwners, RemovingKnows

\* Every step of start() and stop() keeps it.
LEMMA SocketInvNext == SocketInv /\ [SocketNext]_socketVars => SocketInv'
<1> SUFFICES ASSUME SocketInv, [SocketNext]_socketVars PROVE SocketInv'
    OBVIOUS
<1> USE InodesAssumption DEF SocketInv, SocketTypes, OwnIdentity, PathOwner, TmpOwners, RemovingKnows
<1>1. ASSUME NEW s \in Servers, Bind(s) PROVE SocketInv'
  <2>1. PICK i \in Inodes : /\ inode' = [inode EXCEPT ![s] = i]
                            /\ ident' = [ident EXCEPT ![s] = i] \/ ident' = ident
      BY <1>1 DEF Bind
  <2>2. /\ state[s] = "new" /\ state' = [state EXCEPT ![s] = "bound"]
        /\ tmp' = tmp \cup {s} /\ path' = path /\ raced' = raced
      BY <1>1 DEF Bind
  <2>3. path # s /\ ident[s] = NoInode
    <3>1. state[s] = "new"
        BY <2>2
    <3>2. path # s
        BY <3>1 DEF PathOwner
    <3>3. ident[s] = NoInode
        BY <3>1 DEF OwnIdentity
    <3> QED
        BY <3>2, <3>3
  <2>4. SocketTypes'
      BY <2>1, <2>2
  <2>5. OwnIdentity'
      BY <2>1, <2>2, <2>3
  <2>6. (PathOwner /\ TmpOwners)'
      BY <2>1, <2>2, <2>3
  <2>7. RemovingKnows'
      BY <2>1, <2>2, <2>3
  <2> QED
      BY <2>4, <2>5, <2>6, <2>7
<1>2. ASSUME NEW s \in Servers, Rename(s) PROVE SocketInv'
    BY <1>2 DEF Rename
<1>3. ASSUME NEW s \in Servers, RenameFails(s) PROVE SocketInv'
    BY <1>3 DEF RenameFails
<1>4. ASSUME NEW s \in Servers, CloseListener(s) PROVE SocketInv'
    BY <1>4 DEF CloseListener
<1>5. ASSUME NEW s \in Servers, CheckPath(s) PROVE SocketInv'
  <2>1. /\ state[s] = "closed"
        /\ UNCHANGED <<inode, ident, path, tmp, raced>>
      BY <1>5 DEF CheckPath
  <2>2. CASE IsMine(s)
    <3>1. state' = [state EXCEPT ![s] = "removing"]
        BY <1>5, <2>2 DEF CheckPath
    <3>2. inode[path] = inode[s]
        BY <2>2 DEF IsMine
    <3> QED
        BY <2>1, <3>1, <3>2
  <2>3. CASE ~IsMine(s)
    <3>1. state' = [state EXCEPT ![s] = "stopped"]
        BY <1>5, <2>3 DEF CheckPath
    <3>2. path = s => ident[s] = NoInode
        BY <2>3 DEF IsMine
    <3> QED
        BY <2>1, <3>1, <3>2
  <2> QED
      BY <2>2, <2>3
<1>6. ASSUME NEW s \in Servers, RemoveFile(s) PROVE SocketInv'
    BY <1>6 DEF RemoveFile
<1>7. ASSUME NEW s \in Servers, Crash(s) PROVE SocketInv'
    BY <1>7 DEF Crash
<1>8. CASE UNCHANGED socketVars
    BY <1>8 DEF socketVars
<1> QED
    BY <1>1, <1>2, <1>3, <1>4, <1>5, <1>6, <1>7, <1>8 DEF SocketNext

\* The invariant holds in every reachable state.
LEMMA SocketInvariant == SocketSpec => []SocketInv
BY SocketInvInit, SocketInvNext, PTL DEF SocketSpec

\* For any number of servers, stop() takes away another server's socket only if
\* that server came between the check and the removal, or has its inode number.
THEOREM RemovalExplained == SocketSpec => TakesOnlyRaced
<1>1. SocketInv /\ [SocketNext]_socketVars =>
        [\A s \in Servers : Removes(s) /\ path \in Servers \ {s} =>
            path \in raced[s] \/ inode[path] = inode[s]]_socketVars
    BY DEF SocketInv, RemovingKnows, Removes
<1> QED
    BY <1>1, SocketInvariant, PTL DEF SocketSpec, TakesOnlyRaced

\* For any number of servers, those that stopped or failed leave no file behind.
THEOREM FilesRemoved == SocketSpec => []NothingLeftBehind
<1>1. SocketInv => NothingLeftBehind
    BY DEF SocketInv, SocketTypes, PathOwner, TmpOwners, NothingLeftBehind
<1> QED
    BY <1>1, SocketInvariant, PTL
=============================================================================
