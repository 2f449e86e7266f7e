----------------------------- MODULE Completions -----------------------------
(***************************************************************************)
(* What the daemon promises its clients (ipc/protocol.rs: one request, one *)
(* response, then close), without its tasks, locks, workers or cache: an   *)
(* answer is made at one instant between the request and its response,     *)
(* from the specs of that instant and from data that some run of the       *)
(* generator's command read at most MaxAge ticks before.                   *)
(***************************************************************************)
EXTENDS Naturals

CONSTANTS
  Connections,
  Requests,    \* Scripts, SpecOnly and Others
  Scripts,     \* requests whose answer takes the output of a command
  SpecOnly,    \* requests that are answered from the index alone
  Others,      \* requests that are answered without it
  SpecFiles,   \* what the index can hold
  Nothing,
  MaxAge

VARIABLES
  specs,       \* what the index holds
  phase,       \* of a connection: idle, open, decided
  asked,       \* its request while it is not idle
  answer       \* its answer once that is decided

\* The answers the service may give to a request now.
Answers(request) ==
  [specs : IF request \in Others THEN {Nothing} ELSE {specs},
   age : IF request \in Scripts THEN 0 .. MaxAge \cup {Nothing} ELSE {Nothing}]

ServiceInit ==
  /\ specs \in SpecFiles
  /\ phase = [c \in Connections |-> "idle"]
  /\ asked = [c \in Connections |-> Nothing]
  /\ answer = [c \in Connections |-> Nothing]

Ask(c) ==
  /\ phase[c] = "idle"
  /\ phase' = [phase EXCEPT ![c] = "open"]
  /\ \E request \in Requests : asked' = [asked EXCEPT ![c] = request]
  /\ UNCHANGED <<specs, answer>>

Decide(c) ==
  /\ phase[c] = "open"
  /\ phase' = [phase EXCEPT ![c] = "decided"]
  /\ \E a \in Answers(asked[c]) : answer' = [answer EXCEPT ![c] = a]
  /\ UNCHANGED <<specs, asked>>

\* The answer is delivered; or the client gives up, or loses the daemon.
Close(closed) ==
  /\ phase' = [c \in Connections |-> IF c \in closed THEN "idle" ELSE phase[c]]
  /\ asked' = [c \in Connections |-> IF c \in closed THEN Nothing ELSE asked[c]]
  /\ answer' = [c \in Connections |-> IF c \in closed THEN Nothing ELSE answer[c]]
  /\ UNCHANGED specs

\* The index changes under no request that is being answered.
Publish ==
  /\ specs' \in SpecFiles
  /\ UNCHANGED <<phase, asked, answer>>

ServiceNext ==
  \/ \E c \in Connections : Ask(c) \/ Decide(c)
  \/ \E closed \in SUBSET Connections : Close(closed)
  \/ Publish

ServiceSpec == ServiceInit /\ [][ServiceNext]_<<specs, phase, asked, answer>>
==============================================================================
