------------------------------- MODULE Tunnel -------------------------------
(***************************************************************************)
(* The public tunnel of one peer, around the whole of run_agent's body.    *)
(* The event loop starts the tunnel, runs the game beside a watch task,    *)
(* cancels the task and stops the tunnel.  The watch polls and, when the   *)
(* local agent is down, repairs it in a worker thread, which the           *)
(* cancellation of the task does not stop.                                 *)
(*                                                                         *)
(* Source: network/tunnel_manager.py and network/tunnel_wiring.py.  The    *)
(* agent process and pyngrok's calls on it are external.                   *)
(***************************************************************************)
EXTENDS Integers

CONSTANTS
  RetryCount, \* network_params.retry_count
  MaxDrops    \* bound on the deaths of the agent process

ASSUME TunnelBounds == RetryCount \in Nat \ {0} /\ MaxDrops \in Nat

VARIABLES
  main,     \* where the event loop stands in run_with_tunnel
  watch,    \* where the watch task stands in monitor_tunnel
  worker,   \* where the worker thread stands in _probe or ensure_connected
  tries,    \* repair attempts left
  agent,    \* the agent process: "dead", "bare" or "bound" to the domain
  url,      \* public_url is set
  stopped,  \* _stopped
  finished, \* what the worker has returned and the task has not yet seen
  drops,    \* deaths of the agent so far
  revived,  \* (history) connects made after _stopped was set
  raised    \* (history) a call that stop makes on the agent raised

vars == <<main, watch, worker, tries, agent, url, stopped, finished, drops, revived,
          raised>>

Main   == {"start", "play", "cancel", "stop", "disconnect", "kill", "over"}
Watch  == {"none", "sleep", "probe", "repair", "lost", "cancelled"}
Worker == {"none", "probe", "look", "wait", "test", "connect", "verify"}
Alive  == {"bare", "bound"}

TunnelTypeOK ==
  /\ main \in Main /\ watch \in Watch /\ worker \in Worker
  /\ tries \in 0 .. RetryCount
  /\ agent \in Alive \cup {"dead"}
  /\ url \in BOOLEAN /\ stopped \in BOOLEAN
  /\ finished \in {"nothing", "healthy", "unhealthy"}
  /\ drops \in 0 .. MaxDrops /\ revived \in Nat /\ raised \in BOOLEAN

Init ==
  /\ main = "start" /\ watch = "none" /\ worker = "none" /\ tries = 0
  /\ agent = "dead" /\ url = FALSE /\ stopped = FALSE
  /\ finished = "nothing" /\ drops = 0 /\ revived = 0 /\ raised = FALSE

-----------------------------------------------------------------------------
(* The event loop.                                                         *)

\* start: a tunnel that cannot be brought up raises before the game begins.
Start ==
  /\ main = "start"
  /\ \/ main' = "play" /\ watch' = "sleep" /\ agent' = "bound" /\ url' = TRUE
     \/ main' = "over" /\ agent' \in {"dead", "bare"} /\ UNCHANGED <<watch, url>>
  /\ UNCHANGED <<worker, tries, stopped, finished, drops, revived, raised>>

\* The body returns or raises.
GameOver ==
  /\ main = "play" /\ main' = "cancel"
  /\ UNCHANGED <<watch, worker, tries, agent, url, stopped, finished, drops, revived, raised>>

\* The task ends at its next await; a worker it had started runs on.
Cancel ==
  /\ main = "cancel" /\ main' = "stop"
  /\ watch' = IF watch = "lost" THEN watch ELSE "cancelled"
  /\ finished' = "nothing"
  /\ UNCHANGED <<worker, tries, agent, url, stopped, drops, revived, raised>>

Stop ==
  /\ main = "stop" /\ ~stopped
  /\ stopped' = TRUE
  /\ main' = IF url THEN "disconnect" ELSE "kill"
  /\ UNCHANGED <<watch, worker, tries, agent, url, finished, drops, revived, raised>>

Unbound == IF agent = "bound" THEN "bare" ELSE agent

\* Neither of the two calls is guarded: one that raises ends stop, and the
\* process with it, and as the mark is set no later stop makes up for it.
Raises(left) ==
  /\ raised' = TRUE /\ main' = "over"
  /\ agent' \in {agent, left}

Disconnect ==
  /\ main = "disconnect"
  /\ \/ main' = "kill" /\ agent' = Unbound /\ UNCHANGED raised
     \/ Raises(Unbound)
  /\ UNCHANGED <<watch, worker, tries, url, stopped, finished, drops, revived>>

KillAgent ==
  /\ main = "kill"
  /\ \/ main' = "over" /\ agent' = "dead" /\ UNCHANGED raised
     \/ Raises("dead")
  /\ UNCHANGED <<watch, worker, tries, url, stopped, finished, drops, revived>>

-----------------------------------------------------------------------------
(* The watch task.  Each of its two calls runs in a thread; what the task  *)
(* does with the answer waits for the event loop.                          *)

Poll ==
  /\ watch = "sleep" /\ main = "play"
  /\ watch' = "probe" /\ worker' = "probe"
  /\ UNCHANGED <<main, tries, agent, url, stopped, finished, drops, revived, raised>>

Probed ==
  /\ watch = "probe" /\ main = "play" /\ finished # "nothing"
  /\ finished' = "nothing"
  /\ IF finished = "healthy"
     THEN watch' = "sleep" /\ UNCHANGED worker
     ELSE watch' = "repair" /\ worker' = "look"
  /\ UNCHANGED <<main, tries, agent, url, stopped, drops, revived, raised>>

\* One exhausted repair ends the watch.
Repaired ==
  /\ watch = "repair" /\ main = "play" /\ finished # "nothing"
  /\ finished' = "nothing"
  /\ watch' = IF finished = "healthy" THEN "sleep" ELSE "lost"
  /\ UNCHANGED <<main, worker, tries, agent, url, stopped, drops, revived, raised>>

-----------------------------------------------------------------------------
(* The worker thread.                                                      *)

Return(answer) ==
  /\ worker' = "none"
  /\ finished' = IF watch \in {"probe", "repair"} THEN answer ELSE finished

\* healthy(): the local agent is asked.  The call may start a fresh agent for
\* a dead one, which then answers for itself though no domain is bound to it.
Asked(answer) ==
  \/ agent \in Alive /\ answer = "healthy" /\ UNCHANGED agent
  \/ agent = "dead" /\ answer = "unhealthy" /\ agent' \in {"dead", "bare"}
  \/ agent = "dead" /\ answer = "healthy" /\ agent' = "bare"

Probe ==
  /\ worker = "probe"
  /\ \E answer \in {"healthy", "unhealthy"} : Asked(answer) /\ Return(answer)
  /\ UNCHANGED <<main, watch, tries, url, stopped, drops, revived, raised>>

\* ensure_connected begins: a raising look is an unhealthy one.
Look ==
  /\ worker = "look"
  /\ tries' = RetryCount
  /\ \/ Asked("healthy") /\ Return("healthy")
     \/ Asked("unhealthy") /\ worker' = "wait" /\ UNCHANGED finished
  /\ UNCHANGED <<main, watch, url, stopped, drops, revived, raised>>

\* Mutant: a failed attempt is not counted.
WaitUncounted ==
  /\ worker = "wait"
  /\ worker' = "test"
  /\ UNCHANGED <<main, watch, tries, agent, url, stopped, finished, drops, revived, raised>>

\* The backoff of an attempt, or the end of the attempts.
Wait ==
  /\ worker = "wait"
  /\ IF tries = 0
     THEN Return("unhealthy") /\ UNCHANGED tries
     ELSE worker' = "test" /\ tries' = tries - 1 /\ UNCHANGED finished
  /\ UNCHANGED <<main, watch, agent, url, stopped, drops, revived, raised>>

\* Mutant: the mark is tested once, before the attempts.
TestOnce ==
  /\ worker = "test"
  /\ IF stopped /\ tries = RetryCount - 1
     THEN Return("unhealthy")
     ELSE worker' = "connect" /\ UNCHANGED finished
  /\ UNCHANGED <<main, watch, tries, agent, url, stopped, drops, revived, raised>>

\* "if self._stopped: return False".
Test ==
  /\ worker = "test"
  /\ IF stopped
     THEN Return("unhealthy")
     ELSE worker' = "connect" /\ UNCHANGED finished
  /\ UNCHANGED <<main, watch, tries, agent, url, stopped, drops, revived, raised>>

\* One attempt: it may raise, with or without an agent left behind.
Connect ==
  /\ worker = "connect"
  /\ revived' = IF stopped THEN revived + 1 ELSE revived
  /\ \/ worker' = "verify" /\ agent' = "bound" /\ url' = TRUE
     \/ worker' = "wait" /\ agent' \in (IF agent = "dead" THEN {"dead", "bare"} ELSE {agent})
        /\ UNCHANGED url
  /\ UNCHANGED <<main, watch, tries, stopped, finished, drops, raised>>

Verify ==
  /\ worker = "verify"
  /\ \/ Asked("healthy") /\ Return("healthy")
     \/ Asked("unhealthy") /\ worker' = "wait" /\ UNCHANGED finished
  /\ UNCHANGED <<main, watch, tries, url, stopped, drops, revived, raised>>

-----------------------------------------------------------------------------
\* The agent process dies.
Drop ==
  /\ agent \in Alive /\ main = "play" /\ drops < MaxDrops
  /\ drops' = drops + 1
  /\ agent' = "dead"
  /\ UNCHANGED <<main, watch, worker, tries, url, stopped, finished, revived, raised>>

\* asyncio.run joins the worker before the process can end.
Ended == main = "over" /\ worker = "none" /\ UNCHANGED vars

EventLoop == Start \/ Cancel \/ Stop \/ Disconnect \/ KillAgent \/ Poll \/ Probed \/ Repaired
Thread == Probe \/ Look \/ Wait \/ Test \/ Connect \/ Verify
Next == EventLoop \/ GameOver \/ Thread \/ Drop \/ Ended

Spec == Init /\ [][Next]_vars

\* The event loop and the thread run; the game need not end by itself.
FairSpec == Spec /\ WF_vars(EventLoop) /\ WF_vars(Thread)

-----------------------------------------------------------------------------
\* tunnel_manager.py:118-120 says that a repair which runs when the teardown
\* lands never resurrects the agent just killed; but it tests the mark first and
\* connects after.  What holds: a repair the teardown overtakes makes at most one
\* connect more, however many attempts it has left, and only that one connect
\* or a teardown call that raised can leave the domain bound behind a tunnel
\* that was stopped.
OneStraggler ==
  /\ revived <= 1
  /\ main = "over" /\ stopped /\ agent = "bound" => revived = 1 \/ raised

\* The watch never leaves the game without a verdict on its ingress: an agent
\* that died during the game is up again, or its repair was given up after its
\* bounded attempts, or the game is over; and a game that is over is always
\* followed by the stop of the tunnel and the end of the thread.
DropIsAnswered ==
  /\ (main = "play" /\ agent = "dead") ~> (agent # "dead" \/ watch = "lost" \/ main # "play")
  /\ (main = "cancel") ~> (main = "over" /\ stopped /\ worker = "none")
=============================================================================
