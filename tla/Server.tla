------------------------------- MODULE Server --------------------------------
(***************************************************************************)
(* The daemon's server (ipc/server.rs) with the resolver's generator cache *)
(* (engine/resolver.rs) and its clients (ipc/client.rs, async_client.rs):  *)
(* a task per connection, the lock of the index that the reload tasks of   *)
(* daemon/mod.rs write under, and commands that keep a worker thread and   *)
(* the lock while they run.                                                *)
(*                                                                         *)
(* Time is counted in ticks.  What does not wait takes none: a timeout     *)
(* fires in its tick.  The commands and tokio's workers are external.      *)
(***************************************************************************)
EXTENDS Integers, Sequences, FiniteSets, SequencesExt

CONSTANTS
  Connections,
  Scripts,     \* keys of the cache: requests that take a command's output
  Requests,    \* what clients ask: Scripts, SpecOnly and Others
  SpecFiles,   \* what the index can hold
  Nothing,
  Reload,      \* the reload task, in the queue for the lock
  Workers,     \* threads of the runtime
  Timeout,     \* of a command (script_timeout, or 5000 ms)
  Ttl          \* CACHE_TTL_SECS

\* Status, and Complete for a line whose spec has no command to run.
SpecOnly == {"lookup"}
\* Accept and Dismiss; Stop; and a connection that sends no request, such as the
\* one a starting daemon probes the socket with.
Others == {"ack", "stop", "silent"}

ASSUME ServerAssumption ==
  /\ Requests \subseteq Scripts \cup SpecOnly \cup Others
  /\ Scripts \cap (SpecOnly \cup Others) = {}
  /\ Nothing \notin SpecFiles /\ Nothing \notin Requests /\ Nothing \notin Int
  /\ Reload \notin Connections
  /\ Workers \in Nat \ {0} /\ Timeout \in Nat /\ Ttl \in Nat \ {0}

VARIABLES
  server,      \* the process: serving, told to stop, dropping, down
  specs,       \* SpecIndex, as the version it holds
  reload,      \* the reload task: idle, spawned, queued
  lockQueue,   \* who waits for the index's RwLock
  cache,       \* GENERATOR_CACHE: of each script the age of the data, and since when
  at,          \* of each connection: where its handler is,
  asks,        \*   the request,
  waits,       \*   whether the client is still there,
  ran,         \*   for how long its command has run,
  answer       \*   the answer on its way, and before it the specs it is made from

conns == <<at, asks, waits, ran, answer>>
shared == <<server, specs, reload, lockQueue, cache>>
serverVars == <<shared, conns>>

Answer(version, age) == [specs |-> version, age |-> age]

ServerInit ==
  /\ server = "serving" /\ specs \in SpecFiles
  /\ reload = "idle" /\ lockQueue = <<>>
  /\ cache = [s \in Scripts |-> Nothing]
  /\ at = [c \in Connections |-> "idle"]
  /\ asks = [c \in Connections |-> Nothing]
  /\ waits = [c \in Connections |-> FALSE]
  /\ ran = [c \in Connections |-> 0]
  /\ answer = [c \in Connections |-> Nothing]

\* The tasks run while the runtime does; a command that runs occupies a worker.
Running == {c \in Connections : at[c] = "runs"}
FreeWorker ==
  server \in {"serving", "told"} /\ Cardinality(Running) < Workers

Goes(c, place) == at' = [at EXCEPT ![c] = place]

\* The handlers of these connections end; a client that is there sees the end.
Ended(closed) ==
  /\ at' = [c \in Connections |-> IF c \in closed THEN "idle" ELSE at[c]]
  /\ asks' = [c \in Connections |-> IF c \in closed THEN Nothing ELSE asks[c]]
  /\ waits' = [c \in Connections |-> c \notin closed /\ waits[c]]
  /\ ran' = [c \in Connections |-> IF c \in closed THEN 0 ELSE ran[c]]
  /\ answer' = [c \in Connections |-> IF c \in closed THEN Nothing ELSE answer[c]]

-----------------------------------------------------------------------------
\* send_request, as far as the request is written: the kernel keeps both.
Connect(c) ==
  /\ at[c] = "idle" /\ server \in {"serving", "told"}
  /\ Goes(c, "backlog") /\ waits' = [waits EXCEPT ![c] = TRUE]
  /\ \E request \in Requests : asks' = [asks EXCEPT ![c] = request]
  /\ UNCHANGED <<shared, ran, answer>>

\* The client's read times out (after 2 s, any moment here) and it closes the
\* connection; the handler goes on.
GiveUp(c) ==
  /\ waits[c]
  /\ waits' = [waits EXCEPT ![c] = FALSE]
  /\ UNCHANGED <<shared, at, asks, ran, answer>>

\* listener.accept() and the spawn of handle_connection.
Accept(c) ==
  /\ FreeWorker /\ at[c] = "backlog"
  /\ Goes(c, "reads")
  /\ UNCHANGED <<shared, asks, waits, ran, answer>>

Replies(c, reply) == Goes(c, "writes") /\ answer' = [answer EXCEPT ![c] = reply]

\* read_line and the dispatch: Complete and Status go on to the lock; a connection
\* that is closed, or silent for five seconds, ends the handler with an error.
ReadRequest(c) ==
  /\ FreeWorker /\ at[c] = "reads"
  /\ \/ /\ asks[c] \in Scripts \cup SpecOnly
        /\ Goes(c, "queued") /\ lockQueue' = Append(lockQueue, c)
        /\ UNCHANGED <<asks, waits, ran, answer>>
     \/ /\ asks[c] \in {"ack", "stop"}
        /\ Replies(c, Answer(Nothing, Nothing))
        /\ UNCHANGED <<lockQueue, asks, waits, ran>>
     \/ asks[c] = "silent" /\ Ended({c}) /\ UNCHANGED lockQueue
  /\ UNCHANGED <<server, specs, reload, cache>>

\* Mistaken form of IsNext: readers are let in past a writer that waits.
ReadersFirst(who) == who \in Range(lockQueue)

\* tokio's RwLock is granted first come, first served.
IsNext(who) == lockQueue # <<>> /\ Head(lockQueue) = who

\* Mistaken form of IsFresh: one second too long.
FreshUpTo(entry) == entry # Nothing /\ entry.kept <= Ttl

\* created_at.elapsed().as_secs() < CACHE_TTL_SECS
IsFresh(entry) == entry # Nothing /\ entry.kept < Ttl

\* The read lock is granted: the request is answered from the index, and from the
\* cache; or its command is started, and the lock kept.
ReadIndex(c) ==
  /\ FreeWorker /\ at[c] = "queued" /\ IsNext(c)
  /\ lockQueue' = SelectSeq(lockQueue, LAMBDA who : who # c)
  /\ \/ asks[c] \in SpecOnly /\ Replies(c, Answer(specs, Nothing))
     \/ /\ asks[c] \in Scripts /\ IsFresh(cache[asks[c]])
        /\ Replies(c, Answer(specs, cache[asks[c]].age))
     \/ /\ asks[c] \in Scripts /\ ~IsFresh(cache[asks[c]])
        /\ Goes(c, "runs") /\ answer' = [answer EXCEPT ![c] = Answer(specs, Nothing)]
  /\ UNCHANGED <<server, specs, reload, cache, asks, waits, ran>>

\* The handler goes on with its answer and releases the lock; once the runtime is
\* being dropped its next await may be the end of it.
Resumes(c, age) ==
  \/ /\ at' = [at EXCEPT ![c] = "writes"] /\ ran' = [ran EXCEPT ![c] = 0]
     /\ answer' = [answer EXCEPT ![c].age = age]
     /\ UNCHANGED <<asks, waits>>
  \/ server = "dropping" /\ Ended({c})

\* run_command: the output, which the command read at any moment of its run, is
\* stored as of now.
CommandEnds(c) ==
  /\ at[c] = "runs"
  /\ \E age \in 0 .. ran[c] :
       /\ cache' = [cache EXCEPT ![asks[c]] = [age |-> age, kept |-> 0]]
       /\ Resumes(c, age)
  /\ UNCHANGED <<server, specs, reload, lockQueue>>

\* The command fails, or never was one.
CommandFails(c) ==
  /\ at[c] = "runs"
  /\ Resumes(c, Nothing)
  /\ UNCHANGED shared

\* Mistaken form of TimedOut: the output is waited for, however long it takes.
NeverTimedOut(c) == FALSE

TimedOut(c) == ran[c] = Timeout

\* recv_timeout runs out: the child is left to itself and its output is lost.
CommandTimesOut(c) ==
  /\ at[c] = "runs" /\ TimedOut(c)
  /\ Resumes(c, Nothing)
  /\ UNCHANGED shared

\* write_all, shutdown, and for Stop the shutdown signal: not when the write fails
\* because the client has closed the connection.
WriteAnswer(c) ==
  /\ FreeWorker /\ at[c] = "writes"
  /\ server' = IF asks[c] = "stop" /\ waits[c] /\ server = "serving" THEN "told" ELSE server
  /\ Ended({c})
  /\ UNCHANGED <<specs, reload, lockQueue, cache>>

-----------------------------------------------------------------------------
\* The watcher's callback spawns a task (one at a time here).
SpawnReload ==
  /\ server \in {"serving", "told"} /\ reload = "idle"
  /\ reload' = "spawned"
  /\ UNCHANGED <<conns, server, specs, lockQueue, cache>>

QueueReload ==
  /\ FreeWorker /\ reload = "spawned"
  /\ reload' = "queued" /\ lockQueue' = Append(lockQueue, Reload)
  /\ UNCHANGED <<conns, server, specs, cache>>

\* Mistaken form of NoReader: the lock is not held while the command runs.
AnyReader == TRUE

\* A command runs under the read lock of its request.
NoReader == Running = {}

\* reload_file and remove_file, under the write lock.
RunReload ==
  /\ FreeWorker /\ reload = "queued" /\ IsNext(Reload) /\ NoReader
  /\ reload' = "idle" /\ specs' \in SpecFiles
  /\ lockQueue' = SelectSeq(lockQueue, LAMBDA who : who # Reload)
  /\ UNCHANGED <<conns, server, cache>>

-----------------------------------------------------------------------------
\* SIGINT.
Interrupt ==
  /\ server = "serving" /\ server' = "told"
  /\ UNCHANGED <<conns, specs, reload, lockQueue, cache>>

\* Mistaken form of LoopEnds: the connections that wait are accepted first.
LoopEndsWhenIdle == server = "told" /\ \A c \in Connections : at[c] # "backlog"

\* run() sees the signal, whatever else is ready.
LoopEnds == server = "told"

\* run() returns, which closes the listener; the files are removed, and the runtime
\* is dropped with every task that waits at an await.
EndLoop ==
  /\ LoopEnds
  /\ server' = "dropping"
  /\ Ended(Connections \ Running)
  /\ reload' = "idle" /\ lockQueue' = <<>>
  /\ UNCHANGED <<specs, cache>>

\* A worker that still ran a command answers, or drops its task, and ends.
LastAnswer(c) ==
  /\ server = "dropping" /\ at[c] = "writes"
  /\ Ended({c})
  /\ UNCHANGED shared

EndProcess ==
  /\ server = "dropping" /\ \A c \in Connections : at[c] = "idle"
  /\ server' = "down" /\ cache' = [s \in Scripts |-> Nothing]
  /\ UNCHANGED <<conns, specs, reload, lockQueue>>

\* The process is killed.
Crash ==
  /\ server # "down" /\ server' = "down"
  /\ Ended(Connections)
  /\ cache' = [s \in Scripts |-> Nothing]
  /\ reload' = "idle" /\ lockQueue' = <<>>
  /\ UNCHANGED specs

\* The next daemon, which has read the specs anew.
Restart ==
  /\ server = "down" /\ server' = "serving"
  /\ specs' \in SpecFiles
  /\ UNCHANGED <<conns, reload, lockQueue, cache>>

-----------------------------------------------------------------------------
\* An entry that has expired is never used again; its ages are left where they are.
Older(entry) ==
  IF entry = Nothing \/ entry.kept = Ttl THEN entry
  ELSE [age |-> entry.age + 1, kept |-> entry.kept + 1]

Tick ==
  /\ \A c \in Connections : at[c] = "runs" => ran[c] < Timeout
  /\ ran' = [c \in Connections |-> IF at[c] = "runs" THEN ran[c] + 1 ELSE ran[c]]
  /\ cache' = [s \in Scripts |-> Older(cache[s])]
  /\ UNCHANGED <<server, specs, reload, lockQueue, at, asks, waits, answer>>

ConnectionStep(c) ==
  \/ Connect(c) \/ GiveUp(c) \/ Accept(c) \/ ReadRequest(c) \/ ReadIndex(c)
  \/ CommandEnds(c) \/ CommandFails(c) \/ CommandTimesOut(c)
  \/ WriteAnswer(c) \/ LastAnswer(c)

ServerNext ==
  \/ \E c \in Connections : ConnectionStep(c)
  \/ SpawnReload \/ QueueReload \/ RunReload
  \/ Interrupt \/ EndLoop \/ EndProcess \/ Crash \/ Restart
  \/ Tick

\* Every task that can run does, the lock is handed out in turn, a timeout fires
\* and time goes on; a worker that others keep busy becomes free again and again.
\* Nothing is asked of clients, of commands, or of who starts the next daemon.
ServerFairness ==
  /\ \A c \in Connections :
       /\ SF_serverVars(Accept(c) \/ ReadRequest(c) \/ ReadIndex(c) \/ WriteAnswer(c))
       /\ WF_serverVars(CommandTimesOut(c) \/ LastAnswer(c))
  /\ SF_serverVars(QueueReload \/ RunReload)
  /\ WF_serverVars(EndLoop \/ EndProcess)
  /\ WF_serverVars(Tick)

ServerSpec == ServerInit /\ [][ServerNext]_serverVars

FairServerSpec == ServerSpec /\ ServerFairness

-----------------------------------------------------------------------------
\* To its clients the server is the service of Completions: whatever its tasks do
\* in between, an answer is made at one instant, from the specs the index holds
\* then (server.rs:86, 97: the guard is kept while commands run), and from data
\* that was read less than CACHE_TTL_SECS and a command's timeout before
\* (resolver.rs:334-398: created_at is the end of a run whose data may be as old
\* as the run).
MaxAge == Ttl + Timeout - 1

Decided(c) == waits[c] /\ at[c] = "writes"

PhaseOf == [c \in Connections |->
              IF Decided(c) THEN "decided" ELSE IF waits[c] THEN "open" ELSE "idle"]
AskedOf == [c \in Connections |-> IF waits[c] THEN asks[c] ELSE Nothing]
AnswerOf == [c \in Connections |-> IF Decided(c) THEN answer[c] ELSE Nothing]

Service == INSTANCE Completions
             WITH phase <- PhaseOf, asked <- AskedOf, answer <- AnswerOf

ServesAsPromised == Service!ServiceSpec

\* Every handler ends, also those whose client is gone, and those that wait for
\* the lock or a worker behind commands that never end (resolver.rs:424-432).
HandlersEnd == \A c \in Connections : at[c] # "idle" ~> at[c] = "idle"

\* A changed spec is loaded, however many requests keep the index's lock among
\* them (daemon/mod.rs:99, 111 against server.rs:86).
ReloadsAreApplied == reload = "spawned" ~> reload = "idle"

\* Once told to stop, the daemon stops, whatever still connects, runs or waits
\* (server.rs:48-54, daemon/mod.rs:138-145).
StopIsCarriedOut == server = "told" ~> server = "down"
==============================================================================
