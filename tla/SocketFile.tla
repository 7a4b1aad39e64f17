----------------------------- MODULE SocketFile -----------------------------
(***************************************************************************)
(* The socket file of server generations that follow each other on one     *)
(* path: binding to a temporary path, renaming over the target, and the    *)
(* removal by stop() of a file that is "still the one this server bound".  *)
(* The HTTP socket (start and stop in ext/hyper_ruby/src/lib.rs) and the   *)
(* syslog socket (bind_unix_listener, remove_socket_file in syslog.rs)     *)
(* take the same steps.                                                    *)
(***************************************************************************)
EXTENDS Integers, FiniteSets

CONSTANTS
    Servers,      \* server generations, in one process or in several
    Inodes,       \* inode numbers of the file system
    ReuseInodes,  \* whether the file system gives a freed number out again
    NoServer,     \* no file at the path
    NoInode       \* no identity

ASSUME InodesAssumption ==
    /\ ReuseInodes \in BOOLEAN
    /\ NoServer \notin Servers /\ NoInode \notin Inodes

VARIABLES
    state,   \* per server: where start() or stop() is
    inode,   \* the inode number of the server's socket
    ident,   \* socket_ident: the same number, or none when it could not be read
    path,    \* the server whose socket file has the path, or none
    tmp,     \* the servers whose temporary file exists
    spent,   \* inode numbers given out so far
    raced    \* history: servers that took the path between a server's check and its removal

socketVars == <<state, inode, ident, path, tmp, spent, raced>>

\* A listener keeps its inode until it is closed, a file until it is removed.
Listening == {"bound", "serving"}
InUse == {inode[s] : s \in {t \in Servers : state[t] \in Listening \/ t \in tmp \/ path = t}}

SocketInit ==
    /\ state = [s \in Servers |-> "new"]
    /\ inode = [s \in Servers |-> NoInode]
    /\ ident = [s \in Servers |-> NoInode]
    /\ path = NoServer
    /\ tmp = {} /\ spent = {}
    /\ raced = [s \in Servers |-> {}]

-----------------------------------------------------------------------------
(* start() *)

\* UnixListener::bind on a temporary path of its own, then symlink_metadata on
\* it, which may fail (ident is then None).
Bind(s) ==
    /\ state[s] = "new"
    /\ \E i \in Inodes \ (IF ReuseInodes THEN InUse ELSE spent) :
         /\ inode' = [inode EXCEPT ![s] = i]
         /\ \/ ident' = [ident EXCEPT ![s] = i]
            \/ UNCHANGED ident
         /\ spent' = spent \cup {i}
    /\ state' = [state EXCEPT ![s] = "bound"]
    /\ tmp' = tmp \cup {s}
    /\ UNCHANGED <<path, raced>>

\* The path, if it existed, now names this server's socket.
Rename(s) ==
    /\ state[s] = "bound"
    /\ path' = s
    /\ tmp' = tmp \ {s}
    /\ state' = [state EXCEPT ![s] = "serving"]
    /\ raced' = [t \in Servers |-> IF state[t] = "removing" THEN raced[t] \cup {s} ELSE raced[t]]
    /\ UNCHANGED <<inode, ident, spent>>

\* Mutant: the temporary file stays.
RenameFailsUncleaned(s) ==
    /\ state[s] = "bound"
    /\ state' = [state EXCEPT ![s] = "failed"]
    /\ UNCHANGED <<inode, ident, path, tmp, spent, raced>>

\* rename fails: the temporary file is removed and the listener dropped.
RenameFails(s) ==
    /\ state[s] = "bound"
    /\ tmp' = tmp \ {s}
    /\ state' = [state EXCEPT ![s] = "failed"]
    /\ UNCHANGED <<inode, ident, path, spent, raced>>

-----------------------------------------------------------------------------
(* stop() *)

\* The listener's task ends with the shutdown and closes it.
CloseListener(s) ==
    /\ state[s] = "serving"
    /\ state' = [state EXCEPT ![s] = "closed"]
    /\ UNCHANGED <<inode, ident, path, tmp, spent, raced>>

\* Mutant: any file at the path will do.
IsThere(s) == path # NoServer /\ ident[s] # NoInode

\* symlink_metadata on the path gives the identity the server recorded.
IsMine(s) == path # NoServer /\ ident[s] # NoInode /\ inode[path] = ident[s]

CheckPath(s) ==
    /\ state[s] = "closed"
    /\ state' = [state EXCEPT ![s] = IF IsMine(s) THEN "removing" ELSE "stopped"]
    /\ UNCHANGED <<inode, ident, path, tmp, spent, raced>>

\* remove_file takes whatever the path names by then, if anything.
RemoveFile(s) ==
    /\ state[s] = "removing"
    /\ path' = NoServer
    /\ state' = [state EXCEPT ![s] = "stopped"]
    /\ UNCHANGED <<inode, ident, tmp, spent, raced>>

\* The process dies: its sockets are closed and its files stay.
Crash(s) ==
    /\ state[s] \in {"bound", "serving", "closed", "removing"}
    /\ state' = [state EXCEPT ![s] = "crashed"]
    /\ UNCHANGED <<inode, ident, path, tmp, spent, raced>>

-----------------------------------------------------------------------------

SocketNext ==
    \E s \in Servers :
        \/ Bind(s) \/ Rename(s) \/ RenameFails(s)
        \/ CloseListener(s) \/ CheckPath(s) \/ RemoveFile(s) \/ Crash(s)

SocketSpec == SocketInit /\ [][SocketNext]_socketVars

-----------------------------------------------------------------------------
(* Properties *)

\* stop() removes s's file.
Removes(s) == state[s] = "removing" /\ state'[s] = "stopped"

\* stop() takes away the socket of a server that is up only when that server was
\* started between the check and the removal, or when its socket has the inode
\* number the stopping server's socket had before.  These are the two exceptions
\* to lib.rs:382-383, where the comparison is there "so an older server generation
\* never unlinks a newer generation's socket".
TakesOnlyRaced ==
    [][\A s \in Servers : Removes(s) /\ path \in Servers \ {s} =>
          path \in raced[s] \/ inode[path] = inode[s]]_socketVars

\* Servers that stopped, or did not come up, leave no file behind at the path
\* or beside it, however their starts and stops overlapped.  (The
\* path may stay when a server died, or could not read its identity.)
NothingLeftBehind ==
    (\A s \in Servers : \/ state[s] \in {"new", "failed"}
                        \/ state[s] = "stopped" /\ ident[s] # NoInode)
        => path = NoServer /\ tmp = {}
=============================================================================
