------------------------------ MODULE T8nServer ------------------------------
(* The transition tool of one filling process: how a request reaches it and   *)
(* what is done when no answer comes (src/ethereum_clis/transition_tool.py,   *)
(* src/ethereum_clis/clis/execution_specs.py).  A tool takes its inputs as a  *)
(* server, from a stream or from files.  The tool itself is a program of      *)
(* others: whether and what it answers is open.                               *)
EXTENDS Integers

CONSTANT Retries                \* the posts of one request, `retries`

ASSUME RetriesAssumption == Retries \in Nat \ {0}

VARIABLES tool,                 \* t8n_use_server, t8n_use_stream, or neither
          trace,                \* --traces
          serverUrl,            \* "none", the one "given" by --t8n-server-url, or its "own"
          process,              \* the last daemon: "none", "running" or "signalled"
          left,                 \* the daemons it no longer holds and never signalled
          health,               \* what is known of the server at serverUrl
          stage, retries        \* of the request

serverVars == <<tool, trace, serverUrl, process, left, health, stage, retries>>
settings == <<tool, trace>>
server == <<serverUrl, process, left, health>>

ServerInit ==
  /\ tool \in {"server", "stream", "files"}
  /\ trace \in BOOLEAN
  /\ serverUrl \in IF tool = "server" THEN {"none", "given"} ELSE {"none"}
  /\ process = "none" /\ left = 0 /\ health = "good"
  /\ stage = "idle" /\ retries = 0

\* The daemon is launched, and waited for until its socket appears; when that takes too
\* long, the process and the url of the socket stay what they are.
StartServer(up) ==
  /\ serverUrl' = "own" /\ process' = "running"
  /\ left' = IF process = "running" THEN left + 1 ELSE left
  /\ health' = IF up THEN "good" ELSE "not up"

Shutdown ==
  process' = IF process = "running" THEN "signalled" ELSE process

\* The reward of a block, which the data of a request takes from the genesis block.
Reward(number) == IF number = 0 THEN -1 ELSE 0

\* The arguments of a tool that reads a stream: the names of the forks are known, and the
\* chain has a number.
SafeArgs(reward) == reward >= 0

\* A request for block `number`.
Evaluate(number) ==
  /\ stage = "idle"
  /\ IF tool = "server"
     THEN /\ stage' = IF serverUrl = "none" THEN "first start" ELSE "post"
          /\ retries' = Retries
     ELSE /\ stage' = IF tool = "stream" /\ ~SafeArgs(Reward(number)) THEN "raised" ELSE "run"
          /\ UNCHANGED retries
  /\ UNCHANGED <<settings, server>>

\* A process of its own for this request, whose exit code is zero or not; what it answers
\* is its output, or the files that it must have written.
RunStream ==
  /\ stage = "run" /\ tool = "stream"
  /\ stage' \in {"answered", "raised"}
  /\ UNCHANGED <<settings, server, retries>>

RunFiles ==
  /\ stage = "run" /\ tool = "files"
  /\ \E exitCode \in {0, 1}, written \in BOOLEAN :
       stage' = IF exitCode = 0 /\ written THEN "answered" ELSE "raised"
  /\ UNCHANGED <<settings, server, retries>>

FirstStart ==
  /\ stage = "first start"
  /\ \E up \in BOOLEAN : StartServer(up) /\ stage' = IF up THEN "post" ELSE "raised"
  /\ UNCHANGED <<settings, retries>>

\* The answer comes, with status 200 or with another one.
Post ==
  /\ stage = "post"
  /\ stage' \in {"answered", "raised"}
  /\ UNCHANGED <<settings, server, retries>>

\* No connection, a connection that breaks, or no answer in time.
NoAnswer ==
  /\ stage = "post"
  /\ stage' = "shutdown" /\ health' = "unanswered"
  /\ UNCHANGED <<settings, serverUrl, process, left, retries>>

ShutdownToRestart ==
  /\ stage = "shutdown"
  /\ Shutdown
  /\ stage' = "restart"
  /\ UNCHANGED <<settings, serverUrl, left, health, retries>>

\* Mutants: the last failure is raised before the server is started again; the posts are
\* not counted.
RestartUnlessLast ==
  /\ stage = "restart"
  /\ IF retries = 1
     THEN stage' = "raised" /\ UNCHANGED <<server, retries>>
     ELSE \E up \in BOOLEAN :
            /\ StartServer(up)
            /\ retries' = IF up THEN retries - 1 ELSE retries
            /\ stage' = IF ~up THEN "raised" ELSE "post"
  /\ UNCHANGED settings

RestartUncounted ==
  /\ stage = "restart"
  /\ \E up \in BOOLEAN : StartServer(up) /\ stage' = IF up THEN "post" ELSE "raised"
  /\ UNCHANGED <<settings, retries>>

\* A start that fails raises at once; otherwise the post is repeated, if it may be.
Restart ==
  /\ stage = "restart"
  /\ \E up \in BOOLEAN :
       /\ StartServer(up)
       /\ retries' = IF up THEN retries - 1 ELSE retries
       /\ stage' = IF ~up \/ retries' = 0 THEN "raised" ELSE "post"
  /\ UNCHANGED settings

ServerStep == RunStream \/ RunFiles \/ FirstStart \/ Post \/ NoAnswer \/ ShutdownToRestart \/ Restart
==============================================================================
