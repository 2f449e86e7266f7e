----------------------------- MODULE ServerProofs -----------------------------
(***************************************************************************)
(* The server implements the service of Completions, for any connections,  *)
(* workers, scripts, timeout and lifetime of the cache.                    *)
(*                                                                         *)
(* The invariant says what a handler in the middle of its work relies on:  *)
(* while its command runs the index is the one it read (nobody writes      *)
(* under its lock), and cached data is at most a command's timeout older   *)
(* than its time in the cache.                                             *)
(***************************************************************************)
EXTENDS Server, TLAPS

Places == {"idle", "backlog", "reads", "queued", "runs", "writes"}
Entries == [age : Nat, kept : 0 .. Ttl]

ConnTypes ==
  /\ at \in [Connections -> Places]
  /\ asks \in [Connections -> Requests \cup {Nothing}]
  /\ waits \in [Connections -> BOOLEAN]
  /\ ran \in [Connections -> 0 .. Timeout]
  /\ DOMAIN answer = Connections

\* What each place of a handler entails.
InPlace(c) ==
  /\ waits[c] => at[c] # "idle"
  /\ at[c] # "idle" => asks[c] \in Requests
  /\ at[c] = "queued" => asks[c] \in Scripts \cup SpecOnly
  /\ at[c] = "runs" => asks[c] \in Scripts /\ answer[c] = Answer(specs, Nothing)

CacheBound ==
  \A s \in Scripts : cache[s] # Nothing =>
    cache[s] \in Entries /\ cache[s].age <= cache[s].kept + Timeout

ServerInv ==
  /\ specs \in SpecFiles
  /\ ConnTypes
  /\ \A c \in Connections : InPlace(c)
  /\ DOMAIN cache = Scripts /\ CacheBound

USE ServerAssumption

-----------------------------------------------------------------------------
\* Steps that several actions share.

LEMMA EndedKeeps ==
  ASSUME NEW closed, Ended(closed), ServerInv, specs' = specs
  PROVE  ConnTypes' /\ \A c \in Connections : InPlace(c)'
<1>1. ConnTypes'
  BY DEF Ended, ServerInv, ConnTypes, Places
<1>2. ASSUME NEW c \in Connections PROVE InPlace(c)'
  <2>1. CASE c \in closed
    <3>1. at'[c] = "idle" /\ waits'[c] = FALSE
      BY <2>1 DEF Ended
    <3>2. QED
      BY <3>1 DEF InPlace
  <2>2. CASE c \notin closed
    <3>1. at'[c] = at[c] /\ asks'[c] = asks[c] /\ answer'[c] = answer[c]
      BY <2>2 DEF Ended
    <3>2. waits'[c] => waits[c]
      BY <2>2 DEF Ended
    <3>3. InPlace(c)
      BY DEF ServerInv
    <3>4. QED
      BY <3>1, <3>2, <3>3 DEF InPlace
  <2>3. QED
    BY <2>1, <2>2
<1>3. QED
  BY <1>1, <1>2

LEMMA EndedCloses ==
  ASSUME NEW closed, closed \subseteq Connections, Ended(closed), ServerInv, specs' = specs
  PROVE  Service!Close(closed)
<1>1. PhaseOf' = [c \in Connections |-> IF c \in closed THEN "idle" ELSE PhaseOf[c]]
  BY DEF PhaseOf, Decided, Ended, ServerInv, ConnTypes
<1>2. AskedOf' = [c \in Connections |-> IF c \in closed THEN Nothing ELSE AskedOf[c]]
  BY DEF AskedOf, Ended, ServerInv, ConnTypes
<1>3. AnswerOf' = [c \in Connections |-> IF c \in closed THEN Nothing ELSE AnswerOf[c]]
  BY DEF AnswerOf, Decided, Ended, ServerInv, ConnTypes
<1>4. QED
  BY <1>1, <1>2, <1>3 DEF Service!Close

\* A handler moves on and has no answer yet: nothing happens in the service.
LEMMA MovesOn ==
  ASSUME NEW c \in Connections, NEW place \in Places \ {"writes"}, ServerInv, specs' = specs,
         at[c] # "writes", Goes(c, place), asks' = asks, waits' = waits,
         NEW a, answer' = answer \/ answer' = [answer EXCEPT ![c] = a]
  PROVE  PhaseOf' = PhaseOf /\ AskedOf' = AskedOf /\ AnswerOf' = AnswerOf
<1>1. \A d \in Connections : Decided(d)' = Decided(d)
  BY DEF Decided, Goes, ServerInv, ConnTypes
<1>2. \A d \in Connections : Decided(d) => answer'[d] = answer[d]
  BY DEF Decided, ServerInv, ConnTypes
<1>3. QED
  BY <1>1, <1>2 DEF PhaseOf, AskedOf, AnswerOf

\* A handler has its answer: the service decides, if the client is still there.
LEMMA AnswerDecides ==
  ASSUME NEW c \in Connections, NEW a, ServerInv, specs' = specs,
         at[c] # "writes", Goes(c, "writes"), asks' = asks, waits' = waits,
         answer' = [answer EXCEPT ![c] = a], a \in Service!Answers(asks[c])
  PROVE  \/ Service!Decide(c)
         \/ PhaseOf' = PhaseOf /\ AskedOf' = AskedOf /\ AnswerOf' = AnswerOf
<1>1. /\ at'[c] = "writes" /\ answer'[c] = a
      /\ \A d \in Connections \ {c} : at'[d] = at[d] /\ answer'[d] = answer[d]
  BY DEF Goes, ServerInv, ConnTypes
<1>2. AskedOf' = AskedOf
  BY DEF AskedOf
<1>3. CASE waits[c]
  <2>1. PhaseOf[c] = "open" /\ AskedOf[c] = asks[c]
    BY <1>3 DEF PhaseOf, Decided, AskedOf
  <2>2. PhaseOf' = [PhaseOf EXCEPT ![c] = "decided"]
    BY <1>1, <1>3 DEF PhaseOf, Decided
  <2>3. AnswerOf' = [AnswerOf EXCEPT ![c] = a]
    BY <1>1, <1>3 DEF AnswerOf, Decided
  <2>4. QED
    BY <1>2, <2>1, <2>2, <2>3 DEF Service!Decide
<1>4. CASE ~waits[c]
  <2>1. \A d \in Connections : Decided(d)' = Decided(d)
    BY <1>1, <1>4 DEF Decided
  <2>2. \A d \in Connections : Decided(d) => answer'[d] = answer[d]
    BY <1>1, <1>4 DEF Decided
  <2>3. QED
    BY <1>2, <2>1, <2>2 DEF PhaseOf, AnswerOf
<1>5. QED
  BY <1>3, <1>4

-----------------------------------------------------------------------------
\* The invariant, action by action.

LEMMA InitInv == ServerInit => ServerInv
<1> SUFFICES ASSUME ServerInit PROVE ServerInv
  OBVIOUS
<1>1. \A c \in Connections : at[c] = "idle" /\ waits[c] = FALSE
  BY DEF ServerInit
<1>2. ConnTypes
  <2>1. ran \in [Connections -> 0 .. Timeout]
    BY DEF ServerInit
  <2>2. waits \in [Connections -> BOOLEAN]
    BY DEF ServerInit
  <2>3. at \in [Connections -> Places]
    BY DEF ServerInit, Places
  <2>4. QED
    BY <2>1, <2>2, <2>3 DEF ServerInit, ConnTypes
<1>3. \A c \in Connections : InPlace(c)
  BY <1>1 DEF InPlace
<1>4. DOMAIN cache = Scripts /\ CacheBound
  BY DEF ServerInit, CacheBound
<1>5. QED
  BY <1>2, <1>3, <1>4 DEF ServerInit, ServerInv

LEMMA ConnectInv ==
  ASSUME NEW c \in Connections, ServerInv, Connect(c) PROVE ServerInv'
<1>1. ConnTypes'
  BY DEF Connect, Goes, shared, ServerInv, ConnTypes, Places
<1>2. (\A d \in Connections : InPlace(d))'
  BY DEF Connect, Goes, shared, ServerInv, ConnTypes, InPlace
<1>3. QED
  BY <1>1, <1>2 DEF Connect, shared, ServerInv, CacheBound

LEMMA GiveUpInv ==
  ASSUME NEW c \in Connections, ServerInv, GiveUp(c) PROVE ServerInv'
<1>1. ConnTypes'
  BY DEF GiveUp, ServerInv, ConnTypes, Places
<1>2. (\A d \in Connections : InPlace(d))'
  BY DEF GiveUp, shared, ServerInv, ConnTypes, InPlace
<1>3. QED
  BY <1>1, <1>2 DEF GiveUp, shared, ServerInv, CacheBound

LEMMA AcceptInv ==
  ASSUME NEW c \in Connections, ServerInv, Accept(c) PROVE ServerInv'
<1>1. ConnTypes'
  BY DEF Accept, Goes, ServerInv, ConnTypes, Places
<1>2. (\A d \in Connections : InPlace(d))'
  BY DEF Accept, Goes, shared, ServerInv, ConnTypes, InPlace
<1>3. QED
  BY <1>1, <1>2 DEF Accept, shared, ServerInv, CacheBound

LEMMA ReadRequestInv ==
  ASSUME NEW c \in Connections, ServerInv, ReadRequest(c) PROVE ServerInv'
<1>1. specs' = specs /\ cache' = cache
  BY DEF ReadRequest
<1>2. ConnTypes' /\ (\A d \in Connections : InPlace(d))'
  <2>1. CASE asks[c] = "silent" /\ Ended({c})
    BY <2>1, <1>1, EndedKeeps
  <2>2. CASE asks[c] \in Scripts \cup SpecOnly /\ Goes(c, "queued")
               /\ UNCHANGED <<asks, waits, ran, answer>>
    <3>1. ConnTypes'
      BY <2>2 DEF Goes, ServerInv, ConnTypes, Places
    <3>2. (\A d \in Connections : InPlace(d))'
      BY <2>2, <1>1 DEF ReadRequest, Goes, ServerInv, ConnTypes, InPlace
    <3>3. QED
      BY <3>1, <3>2
  <2>3. CASE asks[c] \in {"ack", "stop"} /\ Replies(c, Answer(Nothing, Nothing))
               /\ UNCHANGED <<asks, waits, ran>>
    <3>1. ConnTypes'
      BY <2>3 DEF Replies, Goes, ServerInv, ConnTypes, Places
    <3>2. (\A d \in Connections : InPlace(d))'
      BY <2>3, <1>1 DEF ReadRequest, Replies, Goes, ServerInv, ConnTypes, InPlace
    <3>3. QED
      BY <3>1, <3>2
  <2>4. QED
    BY <2>1, <2>2, <2>3 DEF ReadRequest
<1>3. QED
  BY <1>1, <1>2 DEF ServerInv, CacheBound

LEMMA ReadIndexInv ==
  ASSUME NEW c \in Connections, ServerInv, ReadIndex(c) PROVE ServerInv'
<1>1. specs' = specs /\ cache' = cache /\ asks' = asks /\ waits' = waits /\ ran' = ran
  BY DEF ReadIndex
<1>2. CASE \E reply : Replies(c, reply)
  <2>1. PICK reply : Replies(c, reply)
    BY <1>2
  <2>2. ConnTypes'
    BY <1>1, <2>1 DEF Replies, Goes, ServerInv, ConnTypes, Places
  <2>3. (\A d \in Connections : InPlace(d))'
    BY <1>1, <2>1 DEF ReadIndex, Replies, Goes, ServerInv, ConnTypes, InPlace
  <2>4. QED
    BY <1>1, <2>2, <2>3 DEF ServerInv, CacheBound
<1>3. CASE asks[c] \in Scripts /\ Goes(c, "runs")
             /\ answer' = [answer EXCEPT ![c] = Answer(specs, Nothing)]
  <2>1. ConnTypes'
    BY <1>1, <1>3 DEF Goes, ServerInv, ConnTypes, Places
  <2>2. (\A d \in Connections : InPlace(d))'
    BY <1>1, <1>3 DEF ReadIndex, Goes, ServerInv, ConnTypes, InPlace
  <2>3. QED
    BY <1>1, <2>1, <2>2 DEF ServerInv, CacheBound
<1>4. QED
  BY <1>2, <1>3 DEF ReadIndex

LEMMA ResumesKeeps ==
  ASSUME NEW c \in Connections, NEW age, ServerInv, specs' = specs,
         at[c] = "runs", Resumes(c, age)
  PROVE  ConnTypes' /\ (\A d \in Connections : InPlace(d))'
<1>1. CASE Ended({c})
  BY <1>1, EndedKeeps
<1>2. CASE at' = [at EXCEPT ![c] = "writes"] /\ ran' = [ran EXCEPT ![c] = 0]
             /\ answer' = [answer EXCEPT ![c].age = age] /\ UNCHANGED <<asks, waits>>
  <2>1. ConnTypes'
    BY <1>2 DEF ServerInv, ConnTypes, Places
  <2>2. (\A d \in Connections : InPlace(d))'
    BY <1>2 DEF ServerInv, ConnTypes, InPlace
  <2>3. QED
    BY <2>1, <2>2
<1>3. QED
  BY <1>1, <1>2 DEF Resumes

LEMMA CommandEndsInv ==
  ASSUME NEW c \in Connections, ServerInv, CommandEnds(c) PROVE ServerInv'
<1>1. at[c] = "runs" /\ specs' = specs /\ asks[c] \in Scripts
  BY DEF CommandEnds, ServerInv, InPlace
<1>2. PICK age \in 0 .. ran[c] :
        /\ cache' = [cache EXCEPT ![asks[c]] = [age |-> age, kept |-> 0]]
        /\ Resumes(c, age)
  BY DEF CommandEnds
<1>3. ConnTypes' /\ (\A d \in Connections : InPlace(d))'
  BY <1>1, <1>2, ResumesKeeps
<1>4. age \in Nat /\ age <= Timeout
  BY <1>2 DEF ServerInv, ConnTypes
<1>5. DOMAIN cache' = Scripts
  BY <1>2 DEF ServerInv
<1>6. CacheBound'
  <2> SUFFICES ASSUME NEW s \in Scripts, cache'[s] # Nothing
               PROVE  cache'[s] \in Entries /\ cache'[s].age <= cache'[s].kept + Timeout
    BY DEF CacheBound
  <2>1. CASE s = asks[c]
    <3>1. cache'[s] = [age |-> age, kept |-> 0]
      BY <1>2, <2>1 DEF ServerInv
    <3>2. QED
      BY <3>1, <1>4 DEF Entries
  <2>2. CASE s # asks[c]
    <3>1. cache'[s] = cache[s]
      BY <1>2, <2>2 DEF ServerInv
    <3>2. QED
      BY <3>1 DEF ServerInv, CacheBound
  <2>3. QED
    BY <2>1, <2>2
<1>7. QED
  BY <1>1, <1>3, <1>5, <1>6 DEF ServerInv

LEMMA LostInv ==
  ASSUME NEW c \in Connections, ServerInv, CommandFails(c) \/ CommandTimesOut(c)
  PROVE  ServerInv'
<1>1. at[c] = "runs" /\ specs' = specs /\ cache' = cache /\ Resumes(c, Nothing)
  BY DEF CommandFails, CommandTimesOut, shared
<1>2. ConnTypes' /\ (\A d \in Connections : InPlace(d))'
  BY <1>1, ResumesKeeps
<1>3. QED
  BY <1>1, <1>2 DEF ServerInv, CacheBound

\* Steps that end handlers and leave the specs; the cache is kept or emptied.
LEMMA EndedInv ==
  ASSUME NEW closed, Ended(closed), ServerInv, specs' = specs,
         cache' = cache \/ cache' = [s \in Scripts |-> Nothing]
  PROVE  ServerInv'
<1>1. ConnTypes' /\ (\A d \in Connections : InPlace(d))'
  BY EndedKeeps
<1>2. DOMAIN cache' = Scripts /\ CacheBound'
  BY DEF ServerInv, CacheBound
<1>3. QED
  BY <1>1, <1>2 DEF ServerInv

LEMMA IndexChangesInv ==
  ASSUME ServerInv, RunReload \/ Restart, server = "down" => Running = {}
  PROVE  ServerInv'
<1>1. Running = {} /\ specs' \in SpecFiles /\ cache' = cache /\ conns' = conns
  BY DEF RunReload, NoReader, Restart
<1>2. \A c \in Connections : at[c] # "runs"
  BY <1>1 DEF Running
<1>3. ConnTypes'
  BY <1>1 DEF conns, ServerInv, ConnTypes
<1>4. (\A c \in Connections : InPlace(c))'
  BY <1>1, <1>2 DEF conns, ServerInv, InPlace
<1>5. QED
  BY <1>1, <1>3, <1>4 DEF ServerInv, CacheBound

LEMMA TickInv == ServerInv /\ Tick => ServerInv'
<1> SUFFICES ASSUME ServerInv, Tick PROVE ServerInv'
  OBVIOUS
<1>1. ran' \in [Connections -> 0 .. Timeout]
  BY DEF Tick, ServerInv, ConnTypes
<1>2. ConnTypes'
  BY <1>1 DEF Tick, ServerInv, ConnTypes
<1>3. (\A c \in Connections : InPlace(c))'
  BY DEF Tick, ServerInv, InPlace
<1>4. CacheBound'
  <2> SUFFICES ASSUME NEW s \in Scripts, cache'[s] # Nothing
               PROVE  cache'[s] \in Entries /\ cache'[s].age <= cache'[s].kept + Timeout
    BY DEF CacheBound
  <2>1. cache'[s] = Older(cache[s])
    BY DEF Tick
  <2>2. cache[s] # Nothing
    BY <2>1 DEF Older
  <2>3. cache[s] \in Entries /\ cache[s].age <= cache[s].kept + Timeout
    BY <2>2 DEF ServerInv, CacheBound
  <2>4. CASE cache[s].kept = Ttl
    BY <2>1, <2>3, <2>4 DEF Older
  <2>5. CASE cache[s].kept # Ttl
    <3>1. cache'[s] = [age |-> cache[s].age + 1, kept |-> cache[s].kept + 1]
      BY <2>1, <2>2, <2>5 DEF Older
    <3>2. QED
      BY <3>1, <2>3, <2>5 DEF Entries
  <2>6. QED
    BY <2>4, <2>5
<1>5. DOMAIN cache' = Scripts
  BY DEF Tick
<1>6. QED
  BY <1>2, <1>3, <1>4, <1>5 DEF Tick, ServerInv

\* The one fact about the process that an action relies on: one that is down has no
\* handlers.
DownIsIdle == server = "down" => \A c \in Connections : at[c] = "idle"

IInv == ServerInv /\ DownIsIdle

LEMMA DownInv == IInv /\ [ServerNext]_serverVars => DownIsIdle'
<1> SUFFICES ASSUME IInv, [ServerNext]_serverVars, server' = "down", NEW d \in Connections
             PROVE  at'[d] = "idle"
  BY DEF DownIsIdle
<1>1. CASE server = "down"
  <2>1. at[d] = "idle"
    BY <1>1 DEF IInv, DownIsIdle
  <2>2. ASSUME NEW c \in Connections, ConnectionStep(c) PROVE at'[d] = at[d]
    BY <1>1, <2>2 DEF IInv, DownIsIdle, ServerInv, InPlace, ConnectionStep, Connect, GiveUp,
         Accept, ReadRequest, ReadIndex, CommandEnds, CommandFails, CommandTimesOut,
         WriteAnswer, LastAnswer
  <2>3. CASE EndLoop
    BY <1>1, <2>3 DEF EndLoop, LoopEnds
  <2>4. CASE SpawnReload \/ QueueReload \/ RunReload \/ Interrupt \/ EndProcess \/ Restart
    BY <2>1, <2>4 DEF SpawnReload, QueueReload, RunReload, Interrupt, EndProcess, Restart, conns
  <2>5. CASE Crash \/ Tick
    BY <1>1, <2>1, <2>5 DEF Crash, Tick
  <2>6. CASE UNCHANGED serverVars
    BY <2>1, <2>6 DEF serverVars, conns
  <2>7. QED
    BY <2>1, <2>2, <2>3, <2>4, <2>5, <2>6 DEF ServerNext
<1>2. CASE server # "down"
  <2>1. ~ \E c \in Connections : ConnectionStep(c)
    BY <1>2 DEF ConnectionStep, Connect, GiveUp, Accept, ReadRequest, ReadIndex, CommandEnds,
         CommandFails, CommandTimesOut, WriteAnswer, LastAnswer, shared
  <2>2. CASE Crash
    BY <2>2 DEF Crash, Ended
  <2>3. CASE EndProcess
    BY <2>3 DEF EndProcess, conns
  <2>4. ~(SpawnReload \/ QueueReload \/ RunReload \/ Interrupt \/ EndLoop \/ Restart \/ Tick
          \/ UNCHANGED serverVars)
    BY <1>2 DEF SpawnReload, QueueReload, RunReload, Interrupt, EndLoop, Restart, Tick,
         serverVars, shared
  <2>5. QED
    BY <2>1, <2>2, <2>3, <2>4 DEF ServerNext
<1>3. QED
  BY <1>1, <1>2

LEMMA NextInv == IInv /\ [ServerNext]_serverVars => IInv'
<1> SUFFICES ASSUME IInv, [ServerNext]_serverVars PROVE ServerInv'
  BY DownInv DEF IInv
<1> USE DEF IInv
<1>1. ASSUME NEW c \in Connections, ConnectionStep(c) PROVE ServerInv'
  <2>1. CASE WriteAnswer(c) \/ LastAnswer(c)
    BY <2>1, EndedInv DEF WriteAnswer, LastAnswer, shared
  <2>2. QED
    BY <1>1, <2>1, ConnectInv, GiveUpInv, AcceptInv, ReadRequestInv, ReadIndexInv,
       CommandEndsInv, LostInv DEF ConnectionStep
<1>2. CASE SpawnReload \/ QueueReload \/ Interrupt \/ EndProcess \/ UNCHANGED serverVars
  <2>1. specs' = specs /\ conns' = conns /\ (cache' = cache \/ cache' = [s \in Scripts |-> Nothing])
    BY <1>2 DEF SpawnReload, QueueReload, Interrupt, EndProcess, serverVars, shared
  <2>2. QED
    BY <2>1 DEF ServerInv, conns, ConnTypes, InPlace, CacheBound
<1>3. CASE EndLoop \/ Crash
  BY <1>3, EndedInv DEF EndLoop, Crash
<1>4. CASE RunReload \/ Restart
  <2>1. server = "down" => Running = {}
    BY DEF DownIsIdle, Running
  <2>2. QED
    BY <1>4, <2>1, IndexChangesInv
<1>5. CASE Tick
  BY <1>5, TickInv
<1>6. QED
  BY <1>1, <1>2, <1>3, <1>4, <1>5 DEF ServerNext

-----------------------------------------------------------------------------
\* The refinement: the initial states, and what each step is to the service.

LEMMA ServiceInitially == ServerInit => Service!ServiceInit
<1> SUFFICES ASSUME ServerInit PROVE Service!ServiceInit
  OBVIOUS
<1>1. \A c \in Connections : waits[c] = FALSE
  BY DEF ServerInit
<1>2. PhaseOf = [c \in Connections |-> "idle"]
  BY <1>1 DEF PhaseOf, Decided
<1>3. AskedOf = [c \in Connections |-> Nothing] /\ AnswerOf = [c \in Connections |-> Nothing]
  BY <1>1 DEF AskedOf, AnswerOf, Decided
<1>4. QED
  BY <1>2, <1>3 DEF ServerInit, Service!ServiceInit

ServiceVars == <<specs, PhaseOf, AskedOf, AnswerOf>>

ServiceStep == Service!ServiceNext \/ UNCHANGED ServiceVars

LEMMA ConnectServes ==
  ASSUME NEW c \in Connections, ServerInv, Connect(c) PROVE ServiceStep
<1>1. PICK request \in Requests : asks' = [asks EXCEPT ![c] = request]
  BY DEF Connect
<1>2. at[c] = "idle" /\ waits[c] = FALSE
  BY DEF Connect, ServerInv, InPlace, ConnTypes
<1>3. /\ at' = [at EXCEPT ![c] = "backlog"] /\ waits' = [waits EXCEPT ![c] = TRUE]
      /\ answer' = answer /\ specs' = specs
  BY DEF Connect, Goes, shared
<1>4. \A d \in Connections : Decided(d)' = Decided(d)
  BY <1>2, <1>3 DEF Decided, ServerInv, ConnTypes
<1>5. PhaseOf[c] = "idle" /\ PhaseOf' = [PhaseOf EXCEPT ![c] = "open"]
  BY <1>2, <1>3, <1>4 DEF PhaseOf, Decided, ServerInv, ConnTypes
<1>6. AskedOf' = [AskedOf EXCEPT ![c] = request]
  BY <1>1, <1>2, <1>3 DEF AskedOf, ServerInv, ConnTypes
<1>7. AnswerOf' = AnswerOf
  BY <1>3, <1>4 DEF AnswerOf
<1>8. Service!Ask(c)
  BY <1>3, <1>5, <1>6, <1>7 DEF Service!Ask
<1>9. QED
  BY <1>8 DEF ServiceStep, Service!ServiceNext

LEMMA GiveUpServes ==
  ASSUME NEW c \in Connections, ServerInv, GiveUp(c) PROVE ServiceStep
<1>1. /\ waits' = [waits EXCEPT ![c] = FALSE]
      /\ at' = at /\ asks' = asks /\ answer' = answer /\ specs' = specs
  BY DEF GiveUp, shared
<1>2. \A d \in Connections : Decided(d)' = (d # c /\ Decided(d))
  BY <1>1 DEF Decided, ServerInv, ConnTypes
<1>3. PhaseOf' = [d \in Connections |-> IF d \in {c} THEN "idle" ELSE PhaseOf[d]]
  BY <1>1, <1>2 DEF PhaseOf, ServerInv, ConnTypes
<1>4. AskedOf' = [d \in Connections |-> IF d \in {c} THEN Nothing ELSE AskedOf[d]]
  BY <1>1 DEF AskedOf, ServerInv, ConnTypes
<1>5. AnswerOf' = [d \in Connections |-> IF d \in {c} THEN Nothing ELSE AnswerOf[d]]
  BY <1>1, <1>2 DEF AnswerOf
<1>6. Service!Close({c})
  BY <1>1, <1>3, <1>4, <1>5 DEF Service!Close
<1>7. QED
  BY <1>6 DEF ServiceStep, Service!ServiceNext

LEMMA EndedServes ==
  ASSUME NEW closed, closed \subseteq Connections, Ended(closed), ServerInv, specs' = specs
  PROVE  ServiceStep
BY EndedCloses DEF ServiceStep, Service!ServiceNext

LEMMA MovesOnServes ==
  ASSUME NEW c \in Connections, NEW place \in Places \ {"writes"}, ServerInv, specs' = specs,
         at[c] # "writes", Goes(c, place), asks' = asks, waits' = waits,
         NEW a, answer' = answer \/ answer' = [answer EXCEPT ![c] = a]
  PROVE  ServiceStep
BY MovesOn DEF ServiceStep, ServiceVars

LEMMA AnswerServes ==
  ASSUME NEW c \in Connections, NEW a, ServerInv, specs' = specs,
         at[c] # "writes", Goes(c, "writes"), asks' = asks, waits' = waits,
         answer' = [answer EXCEPT ![c] = a], a \in Service!Answers(asks[c])
  PROVE  ServiceStep
BY AnswerDecides DEF ServiceStep, ServiceVars, Service!ServiceNext

LEMMA ReadRequestServes ==
  ASSUME NEW c \in Connections, ServerInv, ReadRequest(c) PROVE ServiceStep
<1>1. specs' = specs /\ at[c] = "reads"
  BY DEF ReadRequest
<1>2. CASE asks[c] = "silent" /\ Ended({c})
  BY <1>1, <1>2, EndedServes
<1>3. CASE Goes(c, "queued") /\ UNCHANGED <<asks, waits, ran, answer>>
  BY <1>1, <1>3, MovesOnServes DEF Places
<1>4. CASE asks[c] \in {"ack", "stop"} /\ Replies(c, Answer(Nothing, Nothing))
             /\ UNCHANGED <<asks, waits, ran>>
  <2>1. Answer(Nothing, Nothing) \in Service!Answers(asks[c])
    BY <1>4 DEF Service!Answers, Answer, Others, SpecOnly
  <2>2. QED
    BY <1>1, <1>4, <2>1, AnswerServes DEF Replies
<1>5. QED
  BY <1>2, <1>3, <1>4 DEF ReadRequest

LEMMA ReadIndexServes ==
  ASSUME NEW c \in Connections, ServerInv, ReadIndex(c) PROVE ServiceStep
<1>1. /\ specs' = specs /\ asks' = asks /\ waits' = waits /\ at[c] = "queued"
  BY DEF ReadIndex
<1>2. CASE asks[c] \in SpecOnly /\ Replies(c, Answer(specs, Nothing))
  <2>1. Answer(specs, Nothing) \in Service!Answers(asks[c])
    BY <1>2 DEF Service!Answers, Answer, Others, SpecOnly
  <2>2. QED
    BY <1>1, <1>2, <2>1, AnswerServes DEF Replies
<1>3. CASE asks[c] \in Scripts /\ IsFresh(cache[asks[c]])
             /\ Replies(c, Answer(specs, cache[asks[c]].age))
  <2>1. cache[asks[c]].age \in 0 .. MaxAge
    BY <1>3 DEF ServerInv, CacheBound, IsFresh, Entries, MaxAge
  <2>2. Answer(specs, cache[asks[c]].age) \in Service!Answers(asks[c])
    BY <1>3, <2>1 DEF Service!Answers, Answer
  <2>3. QED
    BY <1>1, <1>3, <2>2, AnswerServes DEF Replies
<1>4. CASE Goes(c, "runs") /\ answer' = [answer EXCEPT ![c] = Answer(specs, Nothing)]
  BY <1>1, <1>4, MovesOnServes DEF Places
<1>5. QED
  BY <1>2, <1>3, <1>4 DEF ReadIndex

LEMMA ResumesServes ==
  ASSUME NEW c \in Connections, NEW age \in 0 .. MaxAge \cup {Nothing}, ServerInv, specs' = specs,
         at[c] = "runs", Resumes(c, age)
  PROVE  ServiceStep
<1>1. CASE Ended({c})
  BY <1>1, EndedServes
<1>2. CASE /\ at' = [at EXCEPT ![c] = "writes"] /\ answer' = [answer EXCEPT ![c].age = age]
           /\ UNCHANGED <<asks, waits>>
  <2>1. asks[c] \in Scripts /\ answer[c] = Answer(specs, Nothing)
    BY DEF ServerInv, InPlace
  <2>2. answer' = [answer EXCEPT ![c] = Answer(specs, age)]
    <3>1. [answer[c] EXCEPT !.age = age] = Answer(specs, age)
      BY <2>1 DEF Answer
    <3>2. answer' = [answer EXCEPT ![c] = [answer[c] EXCEPT !.age = age]]
      BY <1>2
    <3>3. QED
      BY <3>1, <3>2
  <2>3. Answer(specs, age) \in Service!Answers(asks[c])
    BY <2>1 DEF Service!Answers, Answer
  <2>4. QED
    BY <1>2, <2>2, <2>3, AnswerServes DEF Goes
<1>3. QED
  BY <1>1, <1>2 DEF Resumes

LEMMA CommandServes ==
  ASSUME NEW c \in Connections, ServerInv,
         CommandEnds(c) \/ CommandFails(c) \/ CommandTimesOut(c)
  PROVE  ServiceStep
<1>1. at[c] = "runs" /\ specs' = specs
  BY DEF CommandEnds, CommandFails, CommandTimesOut, shared
<1>2. CASE CommandEnds(c)
  <2>1. PICK age \in 0 .. ran[c] : Resumes(c, age)
    BY <1>2 DEF CommandEnds
  <2>2. ran[c] \in 0 .. Timeout
    BY DEF ServerInv, ConnTypes
  <2>3. age \in 0 .. MaxAge
    BY <2>2 DEF MaxAge
  <2>4. QED
    BY <1>1, <2>1, <2>3, ResumesServes
<1>3. CASE CommandFails(c) \/ CommandTimesOut(c)
  BY <1>1, <1>3, ResumesServes DEF CommandFails, CommandTimesOut
<1>4. QED
  BY <1>2, <1>3

LEMMA ConnectionServes ==
  ASSUME NEW c \in Connections, ServerInv, ConnectionStep(c) PROVE ServiceStep
<1>1. CASE Accept(c)
  BY <1>1, MovesOnServes DEF Accept, shared, Places
<1>2. CASE WriteAnswer(c) \/ LastAnswer(c)
  BY <1>2, EndedServes DEF WriteAnswer, LastAnswer, shared
<1>3. QED
  BY <1>1, <1>2, ConnectServes, GiveUpServes, ReadRequestServes, ReadIndexServes, CommandServes
     DEF ConnectionStep

\* What neither the index nor a handler sees.
LEMMA Hidden ==
  ASSUME specs' = specs, at' = at, asks' = asks, waits' = waits, answer' = answer
  PROVE  PhaseOf' = PhaseOf /\ AskedOf' = AskedOf /\ AnswerOf' = AnswerOf
BY DEF PhaseOf, AskedOf, AnswerOf, Decided

LEMMA IndexChangesServes ==
  ASSUME RunReload \/ Restart PROVE ServiceStep
<1>1. specs' \in SpecFiles /\ conns' = conns
  BY DEF RunReload, Restart
<1>2. PhaseOf' = PhaseOf /\ AskedOf' = AskedOf /\ AnswerOf' = AnswerOf
  BY <1>1 DEF conns, PhaseOf, AskedOf, AnswerOf, Decided
<1>3. QED
  BY <1>1, <1>2 DEF ServiceStep, Service!ServiceNext, Service!Publish

LEMMA NextServes == IInv /\ [ServerNext]_serverVars => ServiceStep
<1> SUFFICES ASSUME IInv, [ServerNext]_serverVars PROVE ServiceStep
  OBVIOUS
<1>1. ASSUME NEW c \in Connections, ConnectionStep(c) PROVE ServiceStep
  BY <1>1, ConnectionServes DEF IInv
<1>2. CASE SpawnReload \/ QueueReload \/ Interrupt \/ EndProcess \/ Tick \/ UNCHANGED serverVars
  <2>1. specs' = specs /\ at' = at /\ asks' = asks /\ waits' = waits /\ answer' = answer
    BY <1>2 DEF SpawnReload, QueueReload, Interrupt, EndProcess, Tick, serverVars, shared, conns
  <2>2. QED
    BY <2>1, Hidden DEF ServiceStep, ServiceVars
<1>3. CASE EndLoop \/ Crash
  BY <1>3, EndedServes DEF IInv, EndLoop, Crash
<1>4. CASE RunReload \/ Restart
  BY <1>4, IndexChangesServes
<1>5. QED
  BY <1>1, <1>2, <1>3, <1>4 DEF ServerNext

\* What a handler in the middle of its work relies on, in every state: the index it
\* has read is the one it answers from, whoever reloads, and the cache bounds ages.
THEOREM HandlersRelyOn == ServerSpec => []ServerInv
<1>1. ServerInit => IInv
  BY InitInv DEF IInv, ServerInit, DownIsIdle
<1>2. IInv => ServerInv
  BY DEF IInv
<1>3. QED
  BY <1>1, <1>2, NextInv, PTL DEF ServerSpec

\* The server implements the service: whatever handlers, reloads, commands, clients
\* and crashes do in between, every answer is one the service may give, made from
\* one version of the specs and from data no older than MaxAge (server.rs:59-122,
\* resolver.rs:325-398).
THEOREM ServerServes == ServerSpec => ServesAsPromised
<1>1. ServerInit => IInv
  BY InitInv DEF IInv, ServerInit, DownIsIdle
<1>2. IInv /\ [ServerNext]_serverVars
        => [Service!ServiceNext]_<<specs, PhaseOf, AskedOf, AnswerOf>>
  BY NextServes DEF ServiceStep, ServiceVars
<1>3. QED
  BY <1>1, <1>2, NextInv, ServiceInitially, PTL
     DEF ServerSpec, ServesAsPromised, Service!ServiceSpec
==============================================================================
