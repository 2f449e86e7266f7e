------------------------------- MODULE Daemon --------------------------------
(***************************************************************************)
(* The life of daemons that share one socket path (daemon/mod.rs): each    *)
(* takes the path, or finds it taken; serves; cleans up or dies.           *)
(*                                                                         *)
(* The kernel is external: a path names the socket bound to it, whether    *)
(* its owner still lives or not; a connection succeeds while the owner     *)
(* listens.  One step of a daemon is one system call.                      *)
(***************************************************************************)
EXTENDS Naturals

CONSTANTS
  Daemons,     \* processes
  NoDaemon,
  MaxStarts    \* bound: how often any of them is started

ASSUME DaemonAssumption ==
  /\ NoDaemon \notin Daemons
  /\ MaxStarts \in Nat

VARIABLES
  at,          \* where each daemon is
  socket,      \* whose socket the path names
  listening,   \* the daemons that hold a listening socket
  pidFile,     \* whose number the pid file holds
  starts,      \* how many were started
  overlapped,  \* history: two were starting or ending at the same time
  ended        \* history: one was stopped or died

daemonVars == <<at, socket, listening, pidFile, starts, overlapped, ended>>

DaemonInit ==
  /\ at = [d \in Daemons |-> "off"]
  /\ socket = NoDaemon /\ pidFile = NoDaemon
  /\ listening = {}
  /\ starts = 0 /\ overlapped = FALSE /\ ended = FALSE

Goes(d, place) == at' = [at EXCEPT ![d] = place]

\* The process ends, with an error or not: its socket is closed, the files stay.
Ends(d, place) == Goes(d, place) /\ listening' = listening \ {d}
GivesUp(d) == Ends(d, "refused")

Start(d) ==
  /\ at[d] \in {"off", "refused"} /\ starts < MaxStarts
  /\ Goes(d, "bind") /\ starts' = starts + 1
  /\ UNCHANGED <<socket, listening, pidFile>>

\* The first UnixListener::bind, up to bind(2).
Bind(d) ==
  /\ at[d] = "bind"
  /\ IF socket = NoDaemon
     THEN Goes(d, "listen") /\ socket' = d
     ELSE Goes(d, "connect") /\ UNCHANGED socket
  /\ UNCHANGED <<listening, pidFile, starts>>

\* listen(2), within either UnixListener::bind.
Listen(d) ==
  /\ at[d] = "listen"
  /\ Goes(d, "permissions") /\ listening' = listening \cup {d}
  /\ UNCHANGED <<socket, pidFile, starts>>

\* Mistaken forms of IsLive: the path exists; nothing is asked.
SocketExists == socket # NoDaemon
SocketUnchecked == FALSE

\* UnixStream::connect succeeds.
IsLive == socket \in listening

\* "another tabra daemon is already running", or the socket is stale.
Connect(d) ==
  /\ at[d] = "connect"
  /\ IF IsLive THEN GivesUp(d) ELSE Goes(d, "remove") /\ UNCHANGED listening
  /\ UNCHANGED <<socket, pidFile, starts>>

\* Mistaken form of RemoveStale: the bind is not tried again.
RemoveAndGiveUp(d) ==
  /\ at[d] = "remove"
  /\ GivesUp(d) /\ socket' = NoDaemon
  /\ UNCHANGED <<pidFile, starts>>

\* remove_file(..).ok() of the socket that was found stale.
RemoveStale(d) ==
  /\ at[d] = "remove"
  /\ Goes(d, "rebind") /\ socket' = NoDaemon
  /\ UNCHANGED <<listening, pidFile, starts>>

\* The second UnixListener::bind, whose error ends the daemon.
Rebind(d) ==
  /\ at[d] = "rebind"
  /\ IF socket = NoDaemon
     THEN Goes(d, "listen") /\ socket' = d /\ UNCHANGED listening
     ELSE GivesUp(d) /\ UNCHANGED socket
  /\ UNCHANGED <<pidFile, starts>>

\* set_permissions on the path, which fails when it names nothing.
SetPermissions(d) ==
  /\ at[d] = "permissions"
  /\ IF socket = NoDaemon THEN GivesUp(d) ELSE Goes(d, "pid") /\ UNCHANGED listening
  /\ UNCHANGED <<socket, pidFile, starts>>

\* The pid file is written, the watcher started, and the server run.
WritePid(d) ==
  /\ at[d] = "pid"
  /\ Goes(d, "serving") /\ pidFile' = d
  /\ UNCHANGED <<socket, listening, starts>>

\* handle_connection: a request reaches the daemon over the path.  It is answered,
\* and then a stop request shuts the daemon down; the others change nothing here.
StopRequest(d) ==
  /\ at[d] = "serving" /\ socket = d
  /\ Goes(d, "stopping")
  /\ UNCHANGED <<socket, listening, pidFile, starts>>

\* SIGINT, which needs no connection.
Interrupt(d) ==
  /\ at[d] = "serving"
  /\ Goes(d, "stopping")
  /\ UNCHANGED <<socket, listening, pidFile, starts>>

\* server::run sees the shutdown, ends its loop, and drops the listener.
ServerEnds(d) ==
  /\ at[d] = "stopping"
  /\ Goes(d, "removeSocket") /\ listening' = listening \ {d}
  /\ UNCHANGED <<socket, pidFile, starts>>

RemoveSocket(d) ==
  /\ at[d] = "removeSocket"
  /\ Goes(d, "removePid") /\ socket' = NoDaemon
  /\ UNCHANGED <<listening, pidFile, starts>>

RemovePid(d) ==
  /\ at[d] = "removePid"
  /\ Ends(d, "off") /\ pidFile' = NoDaemon
  /\ UNCHANGED <<socket, starts>>

\* The process is killed, or an error of the watcher ends it.
Crash(d) ==
  /\ at[d] \notin {"off", "refused"}
  /\ Ends(d, "off")
  /\ UNCHANGED <<socket, pidFile, starts>>

\* Neither off nor serving: between its start and its service, or at its end.
Changing(d) == at[d] \notin {"off", "refused", "serving"}

StartStep(d) ==
  \/ Start(d) \/ Bind(d) \/ Listen(d) \/ Connect(d) \/ RemoveStale(d) \/ Rebind(d)
  \/ SetPermissions(d) \/ WritePid(d)

EndStep(d) ==
  \/ StopRequest(d) \/ Interrupt(d) \/ ServerEnds(d) \/ RemoveSocket(d) \/ RemovePid(d) \/ Crash(d)

DaemonNext ==
  /\ \E d \in Daemons :
       \/ StartStep(d) /\ ended' = ended
       \/ EndStep(d) /\ ended' = TRUE
  /\ overlapped' = (overlapped \/ \E d, e \in Daemons : d # e /\ Changing(d)' /\ Changing(e)')

DaemonSpec == DaemonInit /\ [][DaemonNext]_daemonVars

-----------------------------------------------------------------------------
Places == {"off", "refused", "bind", "listen", "connect", "remove", "rebind", "permissions",
           "pid", "serving", "stopping", "removeSocket", "removePid"}

\* The types; and a daemon listens exactly from listen(2) to the end of its service.
DaemonTypeOK ==
  /\ at \in [Daemons -> Places]
  /\ socket \in Daemons \cup {NoDaemon}
  /\ pidFile \in Daemons \cup {NoDaemon}
  /\ starts \in Nat
  /\ overlapped \in BOOLEAN /\ ended \in BOOLEAN
  /\ listening = {d \in Daemons : at[d] \in {"permissions", "pid", "serving", "stopping"}}

\* While no two daemons start or end at the same time, at most one listens, the
\* path leads to it, and the pid file names it when it serves; whatever crashed
\* before, and wherever it did.
OneServes ==
  ~overlapped =>
    \A d \in listening :
      /\ listening = {d} /\ socket = d
      /\ at[d] \in {"serving", "stopping"} => pidFile = d

\* A daemon gives up its start only where another one listens: what a crashed one
\* left behind never keeps the next from starting.
StartsUnlessServed ==
  [][\A d \in Daemons : ~overlapped' /\ at'[d] = "refused" /\ at[d] # "refused"
       => socket \in listening]_daemonVars

\* Daemons that are started at the same time, as every new shell and session starts
\* one that finds none running (session/mod.rs:39-54, shell/hook.rs:39), take the
\* path from each other, and some may fail; but once they have settled one of them
\* serves and is reached, unless one was stopped or died meanwhile.
StartsReachService ==
  ~ended /\ starts > 0 /\ (\A d \in Daemons : ~Changing(d)) =>
    socket # NoDaemon /\ at[socket] = "serving"

\* "Socket is stale, remove and retry" (daemon/mod.rs:58): what a starting daemon
\* removes is nobody's listening socket.
OnlyStaleRemoved ==
  [][\A d \in Daemons : at[d] = "remove" /\ at'[d] = "rebind"
       => socket \notin listening]_daemonVars
==============================================================================
