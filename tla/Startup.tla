------------------------------- MODULE Startup -------------------------------
(***************************************************************************)
(* From process start to the turn loop, in time, under the watchdog:       *)
(* agent_entrypoint._play up to run_turn_loop, client_connect, handshake,  *)
(* game_identity, and watchdog.                                            *)
(*                                                                         *)
(* Each peer arms its watchdog, serves, and enters a client to its         *)
(* opponent through the retry ladder; then it makes one handshake call,    *)
(* which its opponent answers whatever it is doing.  Both halves of a      *)
(* peer, inbound and outbound, share one state machine.  What follows is   *)
(* the timing of the turn loop and the audit: ladders of bounded attempts, *)
(* each marked by a touch, and language calls that touch nothing.          *)
(*                                                                         *)
(* Time is counted in ticks; every limit is a number of ticks.             *)
(***************************************************************************)
EXTENDS TurnMachine, Handshake, Retry, Naturals

CONSTANTS
  Timeout,   \* response_timeout
  Backoff,   \* backoff_seconds
  Threshold, \* watchdog_threshold
  Retries,   \* retry_count
  Pairings,  \* the builds that meet
  Networks,  \* what each meets at an address where nobody serves
  MaxFaults  \* bound on calls lost, writes denied and loops that hang

ASSUME TimesNat == Timeout \in Nat \ {0} /\ Backoff \in Nat /\ Threshold \in Nat
ASSUME StartRetriesNat == Retries \in Nat
ASSUME StartFaultsNat == MaxFaults \in Nat
ASSUME PairingsOfBuilds == Pairings \subseteq [Peer -> Build]
ASSUME NetworksFail == Networks \subseteq [Peer -> Failure]

VARIABLES
  stage,   \* stage[p]: where run_agent of p stands
  machine, \* machine[p]: p's TurnStateMachine
  tries,   \* tries[p]: failed attempts of the ladder in progress
  waited,  \* waited[p]: ticks spent in the present attempt, pause or call
  idle,    \* idle[p]: ticks since the watchdog was touched
  gid,     \* gid[p]: the game id p runs under, named by the peer who drew it
  known,   \* known[p]: candidate_game_ids, {} for None
  build,   \* build[p]: what p brings to the handshake
  edge,    \* edge[p]: what p meets at its opponent's address when nobody serves
  faults   \* faults injected so far

vars == <<stage, machine, tries, waited, idle, gid, known, build, edge, faults>>

Opening == {"connect", "backoff", "handshake"}
InGame == {"attempt", "pause", "think"}
Closed == {"no_game", "ended", "raised"}
Stages == {"off", "wedged", "gone", "killed"} \cup Opening \cup InGame \cup Closed

(* The watchdog is stopped first in run_agent's finally, then the peer     *)
(* lingers, still serving, and leaves; so does a peer an exception ends.   *)
Armed(p) == stage[p] \in Opening \cup InGame \cup {"wedged"}
Up(p) == stage[p] \in Opening \cup InGame \cup Closed

(* turn_budget_seconds: one ceiling for the language calls of a turn.      *)
Budget == IF Timeout <= Threshold THEN Timeout ELSE Threshold

Limit(s) ==
  CASE s \in {"connect", "handshake", "attempt"} -> Timeout
    [] s \in {"backoff", "pause"} -> Backoff
    [] s = "think" -> Budget

Timed(p) == stage[p] \in Opening \cup InGame

StartTypeOK ==
  /\ stage \in [Peer -> Stages]
  /\ machine \in [Peer -> State]
  /\ tries \in [Peer -> 0 .. Retries]
  /\ waited \in [Peer -> Nat] /\ \A p \in Peer : Timed(p) => waited[p] <= Limit(stage[p])
  /\ idle \in [Peer -> 0 .. Threshold + 1]
  /\ gid \in [Peer -> Peer]
  /\ known \in [Peer -> SUBSET Peer]
  /\ build \in Pairings
  /\ edge \in Networks
  /\ faults \in 0 .. MaxFaults

Init ==
  /\ stage = [p \in Peer |-> "off"]
  /\ machine = [p \in Peer |-> "init"]
  /\ tries = [p \in Peer |-> 0]
  /\ waited = [p \in Peer |-> 0]
  /\ idle = [p \in Peer |-> 0]
  /\ gid = [p \in Peer |-> p]
  /\ known = [p \in Peer |-> {}]
  /\ build \in Pairings
  /\ edge \in Networks
  /\ faults = 0

-----------------------------------------------------------------------------
(* Moving between stages.                                                  *)

Enter(p, s) ==
  /\ stage' = [stage EXCEPT ![p] = s]
  /\ waited' = [waited EXCEPT ![p] = 0]

Untouched == UNCHANGED idle

(* Watchdog.touch.                                                         *)
Touch(p) == idle' = [idle EXCEPT ![p] = 0]

(* Mutant: only the end of a ladder is marked.                             *)
TouchOnAttemptNever(p) == UNCHANGED idle

(* A bounded attempt inside the game marks its start.                      *)
TouchOnAttempt(p) == Touch(p)

Inject == faults < MaxFaults /\ faults' = faults + 1

-----------------------------------------------------------------------------
(* Before the game.                                                        *)

Start(p) ==
  /\ stage[p] = "off"
  /\ Enter(p, "connect") /\ Touch(p)
  /\ UNCHANGED <<machine, tries, gid, known, build, edge, faults>>

(* perform_handshake begins: our own machine must still be in HANDSHAKE.   *)
BeginHandshake(p) ==
  LET m == Attempt(machine[p], "handshake") IN
  /\ machine' = [machine EXCEPT ![p] = m]
  /\ Enter(p, IF m = "handshake" THEN "handshake" ELSE "no_game")

Connected(p) ==
  /\ stage[p] = "connect" /\ Up(Other(p)) /\ Admits(build[Other(p)], build[p])
  /\ BeginHandshake(p)
  /\ tries' = [tries EXCEPT ![p] = 0]
  /\ Untouched
  /\ UNCHANGED <<gid, known, build, edge, faults>>

(* A failed attempt: the next one, NEVER_CONNECTED, or the exception out   *)
(* of run_agent.                                                           *)
ConnectFailed(p, f) ==
  LET next == AfterFailure(f, tries[p], Retries) IN
  /\ tries' = [tries EXCEPT ![p] = IF next = "retry" THEN @ + 1 ELSE 0]
  /\ Enter(p, CASE next = "retry" -> "backoff"
                [] next = "verdict" -> "no_game"
                [] next = "raise" -> "raised")

Mute == Bare("deadline")

(* What answers at once: an address where nobody serves, or the opponent's *)
(* guard, which does not know us.                                          *)
RefusedBy(p) ==
  IF Up(Other(p))
  THEN IF Admits(build[Other(p)], build[p]) THEN {} ELSE {Bare("403")}
  ELSE {edge[p]} \ {Mute}

(* Mutant: each refused call marks progress and none is counted.           *)
ConnectRefusedForEver(p) ==
  /\ stage[p] = "connect" /\ RefusedBy(p) # {}
  /\ Enter(p, "backoff") /\ Touch(p)
  /\ UNCHANGED <<machine, tries, gid, known, build, edge, faults>>

ConnectRefused(p) ==
  /\ stage[p] = "connect"
  /\ \E f \in RefusedBy(p) : ConnectFailed(p, f)
  /\ Untouched
  /\ UNCHANGED <<machine, gid, known, build, edge, faults>>

ConnectTimesOut(p) ==
  /\ stage[p] = "connect" /\ waited[p] = Timeout
  /\ \/ ~Up(Other(p)) /\ edge[p] = Mute /\ UNCHANGED faults
     \/ Up(Other(p)) /\ Inject
  /\ ConnectFailed(p, Mute)
  /\ Untouched
  /\ UNCHANGED <<machine, gid, known, build, edge>>

BackoffOver(p) ==
  /\ stage[p] = "backoff" /\ waited[p] = Backoff
  /\ Enter(p, "connect")
  /\ Untouched
  /\ UNCHANGED <<machine, tries, gid, known, build, edge, faults>>

Agrees(p) == CompareOffer(build[p], build[Other(p)])

(* respond_to_handshake: a machine still in HANDSHAKE compares and aborts  *)
(* on a mismatch, any other only tolerates the late offer or escalates.    *)
Responded(q) ==
  LET m == Attempt(machine[q], "handshake") IN
  IF m = "handshake" /\ ~Agrees(q) THEN "error" ELSE m

(* relocate_log: when the file cannot be moved the peer stays under its    *)
(* own id.                                                                 *)
RelocateLog(p, resolved) ==
  \/ gid' = [gid EXCEPT ![p] = resolved] /\ UNCHANGED faults
  \/ resolved # gid[p] /\ Inject /\ UNCHANGED gid

(* adopt_negotiated_game_id: the ids on the table are kept, then the log   *)
(* moves.                                                                  *)
Adopt(p) ==
  LET theirs == build[Other(p)] IN
  /\ known' = [known EXCEPT ![p] = Candidates(p, gid[p], theirs)]
  /\ RelocateLog(p, NegotiatedGameId(p, gid[p], theirs))

(* Our offer is answered; run_agent enters the turn loop or gives up.      *)
HandshakeAnswered(p) ==
  LET q == Other(p)
      first == IF p = "police" THEN "my_turn" ELSE "wait_opponent"
  IN
  /\ stage[p] = "handshake" /\ Up(q)
  /\ machine' = [machine EXCEPT ![q] = Responded(q),
                   ![p] = IF Agrees(p) THEN Attempt(@, first) ELSE Attempt(@, "error")]
  /\ IF Agrees(p)
     THEN Adopt(p) /\ Enter(p, "attempt") /\ TouchOnAttempt(p)
     ELSE Enter(p, "no_game") /\ Untouched /\ UNCHANGED <<gid, known, faults>>
  /\ UNCHANGED <<tries, build, edge>>

(* write_declaration: the write is denied after an agreed handshake, and   *)
(* the exception ends this peer before its turn loop.                      *)
DeclarationDenied(p) ==
  LET q == Other(p) IN
  /\ stage[p] = "handshake" /\ Up(q) /\ Agrees(p) /\ Inject
  /\ machine' = [machine EXCEPT ![q] = Responded(q)]
  /\ gid' = [gid EXCEPT ![p] = NegotiatedGameId(p, gid[p], build[q])]
  /\ known' = [known EXCEPT ![p] = Candidates(p, gid[p], build[q])]
  /\ Enter(p, "raised") /\ Untouched
  /\ UNCHANGED <<tries, build, edge>>

(* The call is lost before or after it is served, or runs into the         *)
(* client's own timeout: UNREACHABLE, and run_agent returns.               *)
(* perform_handshake takes only the client's own error for that; a session *)
(* that breaks under the call ends the process.                            *)
HandshakeLost(p) ==
  /\ stage[p] = "handshake"
  /\ \/ ~Up(Other(p)) /\ UNCHANGED <<machine, faults>>
     \/ /\ waited[p] = Timeout /\ Inject
        /\ \/ UNCHANGED machine
           \/ machine' = [machine EXCEPT ![Other(p)] = Responded(Other(p))]
  /\ \E s \in {"no_game", "raised"} : Enter(p, s)
  /\ Untouched
  /\ UNCHANGED <<tries, gid, known, build, edge>>

-----------------------------------------------------------------------------
(* The game, as the watchdog sees it.                                      *)

(* The turn loop and the audit are over.                                   *)
GameEnds(p) ==
  /\ Enter(p, "ended")
  /\ machine' = [machine EXCEPT ![p] = Attempt(@, "game_over")]

(* An attempt is answered: the ladder ends with a touch, and the next one  *)
(* starts at once, after the turn's language calls, or not at all.         *)
AttemptAnswered(p) ==
  /\ stage[p] = "attempt"
  /\ tries' = [tries EXCEPT ![p] = 0]
  /\ \/ \E s \in {"attempt", "think"} : Enter(p, s) /\ UNCHANGED machine
     \/ GameEnds(p)
  /\ Touch(p)
  /\ UNCHANGED <<gid, known, build, edge, faults>>

AttemptTimesOut(p) ==
  /\ stage[p] = "attempt" /\ waited[p] = Timeout
  /\ IF tries[p] < Retries
     THEN /\ tries' = [tries EXCEPT ![p] = @ + 1]
          /\ Enter(p, "pause") /\ Untouched
          /\ UNCHANGED machine
     ELSE /\ tries' = [tries EXCEPT ![p] = 0]
          /\ GameEnds(p) /\ Touch(p)
  /\ UNCHANGED <<gid, known, build, edge, faults>>

NextAttempt(p) ==
  /\ \/ stage[p] = "pause" /\ waited[p] = Backoff
     \/ stage[p] = "think"
  /\ Enter(p, "attempt") /\ TouchOnAttempt(p)
  /\ UNCHANGED <<machine, tries, gid, known, build, edge, faults>>

-----------------------------------------------------------------------------
(* Ends.                                                                   *)

(* The event loop hangs: nothing of it runs again.                         *)
Wedge(p) ==
  /\ Timed(p) /\ Inject
  /\ stage' = [stage EXCEPT ![p] = "wedged"]
  /\ UNCHANGED <<machine, tries, waited, idle, gid, known, build, edge>>

(* check_once.                                                             *)
Freeze(p) ==
  /\ Armed(p) /\ idle[p] > Threshold
  /\ stage' = [stage EXCEPT ![p] = "killed"]
  /\ UNCHANGED <<machine, tries, waited, idle, gid, known, build, edge, faults>>

(* linger_for_peer, stop_runtime.                                          *)
Leave(p) ==
  /\ stage[p] \in Closed
  /\ stage' = [stage EXCEPT ![p] = "gone"]
  /\ UNCHANGED <<machine, tries, waited, idle, gid, known, build, edge, faults>>

(* Due now: the watchdog's poll, a timer, or the answer of a host that     *)
(* refuses a call, which does so at once.                                  *)
Due(p) ==
  \/ Armed(p) /\ idle[p] > Threshold
  \/ Timed(p) /\ waited[p] = Limit(stage[p])
  \/ stage[p] = "connect" /\ RefusedBy(p) # {}

(* Mutant: a heartbeat thread touches the watchdog every tick.             *)
TickWithHeartbeat ==
  /\ \A p \in Peer : ~Due(p)
  /\ waited' = [p \in Peer |-> IF Timed(p) THEN waited[p] + 1 ELSE waited[p]]
  /\ UNCHANGED <<idle, stage, machine, tries, gid, known, build, edge, faults>>

(* Time passes unless something is due.                                    *)
Tick ==
  /\ \A p \in Peer : ~Due(p)
  /\ waited' = [p \in Peer |-> IF Timed(p) THEN waited[p] + 1 ELSE waited[p]]
  /\ idle' = [p \in Peer |-> IF Armed(p) THEN idle[p] + 1 ELSE idle[p]]
  /\ UNCHANGED <<stage, machine, tries, gid, known, build, edge, faults>>

Run(p) ==
  \/ Connected(p) \/ ConnectRefused(p) \/ ConnectTimesOut(p) \/ BackoffOver(p)
  \/ HandshakeAnswered(p) \/ DeclarationDenied(p) \/ HandshakeLost(p)
  \/ AttemptAnswered(p) \/ AttemptTimesOut(p) \/ NextAttempt(p)
  \/ Freeze(p) \/ Leave(p)

Next == Tick \/ \E p \in Peer : Start(p) \/ Run(p) \/ Wedge(p)

Spec == Init /\ [][Next]_vars

(* Clocks run, and so does every event loop that is not hung.              *)
FairSpec == Spec /\ WF_vars(Tick) /\ \A p \in Peer : WF_vars(Run(p))

-----------------------------------------------------------------------------
(* Properties.                                                             *)

(* What p locked, and published, and q did not lock the same way.          *)
Differs(p) ==
  LET mine == build[p]  theirs == build[Other(p)] IN
  \/ mine.params # theirs.params
  \/ mine.scent # "absent" /\ mine.scent # theirs.scent
  \/ mine.step0 # "absent" /\ theirs.step0 \in {"absent", "other_hash"}

(* Rules 11 and 23, D-15: a peer whose opponent locked other parameters or *)
(* another scent model, or whose Step 0 does not verify, never gets to     *)
(* move 1, whichever of them calls first; nor does an opponent's older     *)
(* build open a lock by leaving its digest out.                            *)
MismatchNeverPlays ==
  \A p \in Peer : Differs(p) =>
    /\ stage[p] \notin InGame
    /\ Differs(Other(p)) => machine[p] \in {"init", "handshake", "error"}

(* D-61: two peers in a game run it under one id, so that their ledgers,   *)
(* logs and reports join, whichever handshake came first and unless the    *)
(* police published none or a log could not be moved.                      *)
SameGameId ==
  (\A p \in Peer : stage[p] \in InGame) /\ Named(build["police"]) /\ faults = 0
    => gid["police"] = gid["thief"]

(* The id the opponent seals into its records is one this side holds for   *)
(* possible, whichever side failed to move its log: the audit of an honest *)
(* peer never fails on the game's name.                                    *)
AuditKnowsTheId ==
  (\A p \in Peer : stage[p] \in InGame) =>
    \A p \in Peer : known[p] = {} \/ gid[Other(p)] \in known[p]

(* The offer of the slower peer reaches a machine that already plays, and  *)
(* leaves it playing.                                                      *)
LateHandshakeHarmless ==
  \A p \in Peer : stage[p] \in InGame => machine[p] \in {"my_turn", "wait_opponent"}

(* NET-07 against NET-06: however long the opponent is silent, a peer in   *)
(* its game is never killed by its own watchdog before its retry ladder    *)
(* has given a verdict.                                                    *)
NoFalseFreeze ==
  [][\A p \in Peer : stage[p] \in InGame => stage'[p] # "killed"]_vars

(* ... and a loop that does hang is always ended.                          *)
FrozenIsKilled == \A p \in Peer : (stage[p] = "wedged") ~> (stage[p] = "killed")

(* A peer that has started gets to a game or ends: the one handshake call, *)
(* outside every ladder, cannot hold it for ever.                          *)
StartupEnds ==
  \A p \in Peer : (stage[p] \in Opening) ~> (stage[p] \notin Opening)

(* What client_connect and agent_entrypoint say of a peer that never comes *)
(* up: the caller retries it on its full budget and ends with NO GAME.     *)
NeverConnectedEndsWithNoGame ==
  [][\A p \in Peer : stage[p] \in {"connect", "backoff"} => stage'[p] # "killed"]_vars
=============================================================================
