---------------------------- MODULE CommitReveal ----------------------------
(***************************************************************************)
(* The turn loop of the two peers: orchestrator.run_turn_loop over         *)
(* turn_actions, turn_commit and the modules they call.                    *)
(*                                                                         *)
(* There is no referee.  Each peer runs one asyncio loop, has one FIFO     *)
(* inbound queue that its server fills, and one turn loop that reads it.   *)
(* A turn is a commit-reveal exchange: the police commits, the thief       *)
(* commits and acknowledges, the police acknowledges the instant the       *)
(* thief's COMMIT arrives, the police reveals, the thief reveals.  Each    *)
(* peer resolves the joint turn by itself, on its own copy of the board.   *)
(*                                                                         *)
(* One step of a peer is everything its loop does between two awaits: the  *)
(* handling of one queued envelope, or one attempt of one outgoing call.   *)
(* Every outgoing call goes through the retry ladder of deadline.py: an    *)
(* attempt may be delivered and answered, delivered with its answer lost   *)
(* (the next attempt then delivers a second copy), or lost.                *)
(*                                                                         *)
(* The board is abstract: both engines are deterministic and fed the same  *)
(* rules, so a position is the history of joint turns that led to it.      *)
(***************************************************************************)
EXTENDS TurnMachine, Integers, Sequences

CONSTANTS
  Act,            \* the actions a peer can play in a turn
  NoAct,          \* stands for "no action"
  Legal(_, _, _), \* Legal(h, p, a): p may play a after the joint history h
  Capture(_),     \* Capture(h): the last joint turn of h caught the thief
  SurvivalTurn,   \* joint turns the thief has to survive
  Retries,        \* retry_count: attempts after the first one
  Hints,          \* whether the language layer, and so the hint, is on
  MaxFaults       \* bound on injected faults: lost calls, late answers, crashes

ASSUME NoActNotAct == NoAct \notin Act
ASSUME NotCaughtAtStart == ~Capture(<<>>)
ASSUME TurnBound == SurvivalTurn \in Nat \ {0}
ASSUME RetriesNat == Retries \in Nat
ASSUME HintsBoolean == Hints \in BOOLEAN
ASSUME MaxFaultsNat == MaxFaults \in Nat

Peer == {"police", "thief"}
Other(p) == IF p = "police" THEN "thief" ELSE "police"

VARIABLES
  pc,        \* pc[p]: the await the turn loop of p stands at
  machine,   \* machine[p]: state of p's TurnStateMachine
  tries,     \* tries[p]: failed attempts of the outgoing call in progress
  inbox,     \* inbox[p]: p's inbound queue
  ledger,    \* ledger[p]: p's own sealed actions, on disk before any send
  hist,      \* hist[p]: joint turns <<cop action, thief action>> p resolved
  pending,   \* pending[p]: the action p decided for the turn in progress
  ackd,      \* ackd[p]: an ACK naming p's outstanding commit has arrived
  oppCommit, \* oppCommit[p]: the opponent's h_commit for the turn in progress
  log,       \* log[p]: p's message_sent and message_received records; that of
             \* a FINAL_REVEAL stands for push_final_reveal having succeeded
  early,     \* early[p]: a FINAL_REVEAL was buffered for the audit
  outcome,   \* outcome[p]: what run_turn_loop returned
  claim,     \* claim[p]: reason of the technical win p recorded
  faults     \* faults injected so far

vars == <<pc, machine, tries, inbox, ledger, hist, pending, ackd, oppCommit,
          log, early, outcome, claim, faults>>

-----------------------------------------------------------------------------
(* Data.                                                                   *)

(* A sealed action.  Stands for h_commit together with the ledgered nonce: *)
(* two seals are equal exactly when peer, turn and action are.             *)
Seal(p, n, a) == [by |-> p, turn |-> n, act |-> a]
NoSeal == [by |-> "police", turn |-> 0, act |-> NoAct]
Seals == [by : Peer, turn : Nat, act : Act \cup {NoAct}]

MessageType == {"commit", "ack", "reveal", "hint", "game_over", "final_reveal"}
Msg(type, n, seal, a) == [type |-> type, turn |-> n, seal |-> seal, act |-> a]
Messages == [type : MessageType, turn : Nat,
             seal : Seals, act : Act \cup {NoAct}]

(* One record of the event log.  `turn` is the owner's own turn, the join  *)
(* key of the audit; the message keeps the turn its sender declared.       *)
Record(dir, n, m) == [dir |-> dir, turn |-> n, msg |-> m]
Records == [dir : {"sent", "received"}, turn : Nat, msg : Messages]

Pendings == [turn : Nat, act : Act \cup {NoAct}]
Nothing == [turn |-> 0, act |-> NoAct]
Outcomes == {"none", "capture", "survival", "technical_loss"}
Claims == {"none", "opponent_unresponsive", "illegal_action"}

(* Mutant: the survival test is off by one.                                *)
BoardOutcomeLate(h) ==
  IF Capture(h) THEN "capture"
  ELSE IF Len(h) > SurvivalTurn THEN "survival" ELSE "none"

(* terminal_outcome: every capture rule is consulted before survival.      *)
BoardOutcome(h) ==
  IF Capture(h) THEN "capture"
  ELSE IF Len(h) >= SurvivalTurn THEN "survival" ELSE "none"

(* The joint turn made of p's action a and its opponent's action b.        *)
JointTurns == (Act \cup {NoAct}) \X (Act \cup {NoAct})
JointTurn(p, a, b) == IF p = "police" THEN <<a, b>> ELSE <<b, a>>

OwnSeal(p) == Seal(p, pending[p].turn, pending[p].act)

-----------------------------------------------------------------------------
(* Where a turn loop can stand.                                            *)

Sending == {"send_commit", "send_ack", "send_reveal", "send_hint",
            "declare", "publish"}
Waiting == {"wait_commit", "wait_ack_commit", "wait_reveal", "wait_ack"}
(* Mutant: a REVEAL that could not be sent is given up like a hint.        *)
BestEffortReveal == {"send_reveal", "send_hint", "declare", "publish"}

BestEffort == {"send_hint", "declare", "publish"}
PC == {"decide", "over", "gone"} \cup Sending \cup Waiting

TypeOK ==
  /\ pc \in [Peer -> PC]
  /\ machine \in [Peer -> State]
  /\ tries \in [Peer -> 0 .. Retries]
  /\ inbox \in [Peer -> Seq(Messages)]
  /\ ledger \in [Peer -> Seq(Seals)]
  /\ hist \in [Peer -> Seq(JointTurns)]
  /\ pending \in [Peer -> Pendings]
  /\ ackd \in [Peer -> BOOLEAN]
  /\ oppCommit \in [Peer -> Seals]
  /\ log \in [Peer -> SUBSET Records]
  /\ early \in [Peer -> BOOLEAN]
  /\ outcome \in [Peer -> Outcomes]
  /\ claim \in [Peer -> Claims]
  /\ faults \in 0 .. MaxFaults

Init ==
  /\ pc = [p \in Peer |-> IF p = "police" THEN "decide" ELSE "wait_commit"]
  /\ machine = [p \in Peer |-> IF p = "police" THEN "handshake" ELSE "wait_opponent"]
  /\ tries = [p \in Peer |-> 0]
  /\ inbox = [p \in Peer |-> <<>>]
  /\ ledger = [p \in Peer |-> <<>>]
  /\ hist = [p \in Peer |-> <<>>]
  /\ pending = [p \in Peer |-> Nothing]
  /\ ackd = [p \in Peer |-> FALSE]
  /\ oppCommit = [p \in Peer |-> NoSeal]
  /\ log = [p \in Peer |-> {}]
  /\ early = [p \in Peer |-> FALSE]
  /\ outcome = [p \in Peer |-> "none"]
  /\ claim = [p \in Peer |-> "none"]
  /\ faults = 0

-----------------------------------------------------------------------------
(* Ends of the turn loop.                                                  *)

(* run_turn_loop leaves its loop with outcome o, from machine state s.     *)
(* The police declares a capture before anything else; then both publish   *)
(* their ledger (agent_entrypoint.run_agent -> run_final_audit).           *)
Finish(p, o, s) ==
  /\ outcome' = [outcome EXCEPT ![p] = o]
  /\ machine' = [machine EXCEPT ![p] =
       IF s \in Terminal THEN s ELSE Attempt(s, "game_over")]
  /\ pc' = [pc EXCEPT ![p] =
       IF p = "police" /\ o = "capture" THEN "declare" ELSE "publish"]

TechnicalLoss(p, reason) ==
  /\ claim' = [claim EXCEPT ![p] = reason]
  /\ Finish(p, "technical_loss", Attempt(machine[p], "game_over"))

-----------------------------------------------------------------------------
(* Outgoing calls.                                                         *)

Outgoing(p) ==
  LET own == pending[p] IN
  CASE pc[p] = "send_commit" -> Msg("commit", own.turn, OwnSeal(p), NoAct)
    [] pc[p] = "send_ack"    -> Msg("ack", own.turn, oppCommit[p], NoAct)
    [] pc[p] = "send_reveal" -> Msg("reveal", own.turn, NoSeal, own.act)
    [] pc[p] = "send_hint"   -> Msg("hint", own.turn, NoSeal, NoAct)
    [] pc[p] = "declare"     -> Msg("game_over", Len(hist[p]), NoSeal, NoAct)
    [] OTHER                 -> Msg("final_reveal", Len(hist[p]), NoSeal, NoAct)

(* Mutant: the server puts what arrives at the front of the queue.         *)
EnqueueFirst(p) == inbox' = [inbox EXCEPT ![Other(p)] = <<Outgoing(p)>> \o @]

Enqueue(p) == inbox' = [inbox EXCEPT ![Other(p)] = Append(@, Outgoing(p))]

(* take_my_turn returns: the responder's stash is cleared, the machine     *)
(* goes to WAIT_OPPONENT, and the loop ends or waits for the opponent.     *)
EndOfMyTurn(p) ==
  LET waiting == Attempt(machine[p], "wait_opponent")
      o == BoardOutcome(hist[p])
  IN IF p = "police"
     THEN /\ pc' = [pc EXCEPT ![p] = "wait_reveal"]
          /\ machine' = [machine EXCEPT ![p] = waiting]
          /\ UNCHANGED <<pending, outcome>>
     ELSE /\ pending' = [pending EXCEPT ![p] = Nothing]
          /\ IF o # "none"
             THEN Finish(p, o, waiting)
             ELSE /\ pc' = [pc EXCEPT ![p] = "wait_commit"]
                  /\ machine' = [machine EXCEPT ![p] = waiting]
                  /\ UNCHANGED outcome

(* Mutant: initiate reveals without waiting for the ACK and the COMMIT.    *)
GotoUngated(p, next) ==
  /\ pc' = [pc EXCEPT ![p] = IF next = "wait_ack_commit" THEN "send_reveal" ELSE next]
  /\ UNCHANGED <<machine, pending, outcome>>

Goto(p, next) ==
  /\ pc' = [pc EXCEPT ![p] = next]
  /\ UNCHANGED <<machine, pending, outcome>>

(* The police hints after every reveal, the thief only while the game is   *)
(* still open: it has resolved the turn already.                           *)
SendsHint(p) == Hints /\ (p = "police" \/ BoardOutcome(hist[p]) = "none")

(* What follows the outgoing call p stands at.                             *)
Proceed(p) ==
  CASE pc[p] = "send_commit" ->
         Goto(p, IF p = "police" THEN "wait_ack_commit" ELSE "send_ack")
    [] pc[p] = "send_ack" ->
         Goto(p, IF p = "thief" THEN "wait_reveal"
                 ELSE IF ackd[p] THEN "send_reveal" ELSE "wait_ack_commit")
    [] pc[p] = "send_reveal" ->
         IF SendsHint(p) THEN Goto(p, "send_hint") ELSE EndOfMyTurn(p)
    [] pc[p] = "send_hint" -> EndOfMyTurn(p)
    [] pc[p] = "declare"   -> Goto(p, "publish")
    [] OTHER               -> Goto(p, "over")

(* The attempt is delivered and its answer arrives in time.                *)
PushAnswered(p) ==
  /\ pc[p] \in Sending /\ pc[Other(p)] # "gone"
  /\ Enqueue(p)
  /\ tries' = [tries EXCEPT ![p] = 0]
  /\ log' = [log EXCEPT ![p] = @ \cup {Record("sent", Outgoing(p).turn, Outgoing(p))}]
  /\ Proceed(p)
  /\ UNCHANGED <<ledger, hist, ackd, oppCommit, early, claim, faults>>

(* Mutant: a retry that is never counted.                                  *)
AttemptFailedForEver(p) == UNCHANGED <<pc, machine, tries, pending, outcome, claim>>

(* The attempt failed.  Either the ladder goes on, or it is exhausted: a   *)
(* protocol message then ends the game, a best-effort one is given up.     *)
AttemptFailed(p) ==
  IF tries[p] < Retries
  THEN /\ tries' = [tries EXCEPT ![p] = @ + 1]
       /\ UNCHANGED <<pc, machine, pending, outcome, claim>>
  ELSE /\ tries' = [tries EXCEPT ![p] = 0]
       /\ IF pc[p] \in BestEffort
          THEN Proceed(p) /\ UNCHANGED claim
          ELSE /\ TechnicalLoss(p, "opponent_unresponsive")
               /\ UNCHANGED pending

(* Delivered, but the answer is lost or late: the sender cannot tell.      *)
PushUnanswered(p) ==
  /\ pc[p] \in Sending /\ pc[Other(p)] # "gone"
  /\ faults < MaxFaults
  /\ faults' = faults + 1
  /\ Enqueue(p)
  /\ AttemptFailed(p)
  /\ UNCHANGED <<ledger, hist, ackd, oppCommit, log, early>>

(* Not delivered: the connection fails...                                  *)
PushLost(p) ==
  /\ pc[p] \in Sending /\ pc[Other(p)] # "gone"
  /\ faults < MaxFaults
  /\ faults' = faults + 1
  /\ AttemptFailed(p)
  /\ UNCHANGED <<inbox, ledger, hist, ackd, oppCommit, log, early>>

(* ... or the process it is meant for is no longer there.                  *)
PushRefused(p) ==
  /\ pc[p] \in Sending /\ pc[Other(p)] = "gone"
  /\ AttemptFailed(p)
  /\ UNCHANGED <<inbox, ledger, hist, ackd, oppCommit, log, early, faults>>

-----------------------------------------------------------------------------
(* Deciding an action.                                                     *)

(* Mutant: the action is sent before its seal is on disk.                  *)
CommitOwnUnledgered(p, a) ==
  /\ Legal(hist[p], p, a)
  /\ pending' = [pending EXCEPT ![p] = [turn |-> Len(hist[p]), act |-> a]]
  /\ pc' = [pc EXCEPT ![p] = "send_commit"]
  /\ UNCHANGED ledger

(* Mutant: the action is decided again after it was sealed.                *)
CommitOwnRedecided(p, a) ==
  LET n == Len(hist[p]) IN
  /\ Legal(hist[p], p, a)
  /\ ledger' = [ledger EXCEPT ![p] = Append(@, Seal(p, n, a))]
  /\ \E b \in Act :
       /\ Legal(hist[p], p, b)
       /\ pending' = [pending EXCEPT ![p] = [turn |-> n, act |-> b]]
  /\ pc' = [pc EXCEPT ![p] = "send_commit"]

(* Mutant: the decided action is not checked against the board.            *)
CommitOwnUnchecked(p, a) ==
  LET n == Len(hist[p]) IN
  /\ ledger' = [ledger EXCEPT ![p] = Append(@, Seal(p, n, a))]
  /\ pending' = [pending EXCEPT ![p] = [turn |-> n, act |-> a]]
  /\ pc' = [pc EXCEPT ![p] = "send_commit"]

(* commit_own_action: the seal is on disk before anything is sent.         *)
CommitOwn(p, a) ==
  LET n == Len(hist[p]) IN
  /\ Legal(hist[p], p, a)
  /\ ledger' = [ledger EXCEPT ![p] = Append(@, Seal(p, n, a))]
  /\ pending' = [pending EXCEPT ![p] = [turn |-> n, act |-> a]]
  /\ pc' = [pc EXCEPT ![p] = "send_commit"]

(* take_my_turn of the police, up to its first send.                       *)
Decide ==
  /\ pc["police"] = "decide"
  /\ \E a \in Act : CommitOwn("police", a)
  /\ machine' = [machine EXCEPT !["police"] =
       IF @ = "my_turn" THEN @ ELSE Attempt(@, "my_turn")]
  /\ ackd' = [ackd EXCEPT !["police"] = FALSE]
  /\ oppCommit' = [oppCommit EXCEPT !["police"] = NoSeal]
  /\ UNCHANGED <<tries, inbox, hist, log, early, outcome, claim, faults>>

-----------------------------------------------------------------------------
(* Reading the inbound queue.                                              *)

Take(p) == inbox' = [inbox EXCEPT ![p] = Tail(@)]

(* Mutant: a REVEAL is logged under the turn that follows it.              *)
ReceivedAfterResolve(p, m) ==
  LET n == IF m.type = "reveal" THEN Len(hist[p]) + 1 ELSE Len(hist[p]) IN
  log' = [log EXCEPT ![p] = @ \cup {Record("received", n, m)}]

Received(p, m) ==
  log' = [log EXCEPT ![p] = @ \cup {Record("received", Len(hist[p]), m)}]

(* wait_for_opponent_commit, then await_and_respond up to its first send.  *)
TakeCommit(m) ==
  /\ pc["thief"] = "wait_commit" /\ m.type = "commit"
  /\ Take("thief") /\ Received("thief", m)
  /\ oppCommit' = [oppCommit EXCEPT !["thief"] = m.seal]
  /\ \E a \in Act : CommitOwn("thief", a)
  /\ UNCHANGED <<machine, tries, hist, ackd, early, outcome, claim, faults>>

(* wait_for_ack_and_commit, the ACK half.                                  *)
AcceptAck(m) ==
  /\ pc["police"] = "wait_ack_commit" /\ m.type = "ack" /\ m.seal = OwnSeal("police")
  /\ Take("police")
  /\ ackd' = [ackd EXCEPT !["police"] = TRUE]
  /\ pc' = [pc EXCEPT !["police"] =
       IF oppCommit["police"] # NoSeal THEN "send_reveal" ELSE @]
  /\ UNCHANGED <<machine, tries, ledger, hist, pending, oppCommit, log, early,
                 outcome, claim, faults>>

(* wait_for_ack_and_commit, the COMMIT half: acknowledged at once.         *)
AcceptCommit(m) ==
  /\ pc["police"] = "wait_ack_commit" /\ m.type = "commit"
  /\ oppCommit["police"] = NoSeal
  /\ Take("police") /\ Received("police", m)
  /\ oppCommit' = [oppCommit EXCEPT !["police"] = m.seal]
  /\ pc' = [pc EXCEPT !["police"] = "send_ack"]
  /\ UNCHANGED <<machine, tries, ledger, hist, pending, ackd, early, outcome,
                 claim, faults>>

(* Mutant: the ACK read while waiting for the REVEAL is dropped.           *)
CaptureEarlyAckLost(m) ==
  /\ pc["thief"] = "wait_reveal" /\ m.type = "ack" /\ m.seal = OwnSeal("thief")
  /\ Take("thief")
  /\ UNCHANGED <<pc, machine, tries, ledger, hist, pending, ackd, oppCommit, log,
                 early, outcome, claim, faults>>

(* The ACK for the thief, which precedes the REVEAL on the wire.            *)
CaptureEarlyAck(m) ==
  /\ pc["thief"] = "wait_reveal" /\ m.type = "ack" /\ m.seal = OwnSeal("thief")
  /\ Take("thief")
  /\ ackd' = [ackd EXCEPT !["thief"] = TRUE]
  /\ UNCHANGED <<pc, machine, tries, ledger, hist, pending, oppCommit, log,
                 early, outcome, claim, faults>>

(* wait_for_matching_ack, inside reveal_pending.                           *)
TakeMatchingAck(m) ==
  /\ pc["thief"] = "wait_ack" /\ m.type = "ack" /\ m.seal = OwnSeal("thief")
  /\ Take("thief")
  /\ ackd' = [ackd EXCEPT !["thief"] = FALSE]
  /\ pc' = [pc EXCEPT !["thief"] = "send_reveal"]
  /\ UNCHANGED <<machine, tries, ledger, hist, pending, oppCommit, log, early,
                 outcome, claim, faults>>

(* drain_trailing_hint: the envelope right behind the REVEAL is consumed   *)
(* when it is a hint, and otherwise put back -- at the other end.          *)
Drained(q) ==
  IF q = <<>> THEN q
  ELSE IF Head(q).type = "hint" THEN Tail(q)
  ELSE Append(Tail(q), Head(q))

(* The rest of the responder's step: await_opponent_turn returns and       *)
(* take_my_turn resolves and enters reveal_pending, with no await between. *)
AfterReveal(p, o) ==
  LET mine == Attempt(machine[p], "my_turn") IN
  IF p = "police"
  THEN /\ pending' = [pending EXCEPT ![p] = Nothing]
       /\ IF o # "none"
          THEN Finish(p, o, mine)
          ELSE /\ pc' = [pc EXCEPT ![p] = "decide"]
               /\ machine' = [machine EXCEPT ![p] = mine]
               /\ UNCHANGED outcome
       /\ UNCHANGED ackd
  ELSE /\ pc' = [pc EXCEPT ![p] = IF ackd[p] THEN "send_reveal" ELSE "wait_ack"]
       /\ machine' = [machine EXCEPT ![p] = mine]
       /\ ackd' = [ackd EXCEPT ![p] = FALSE]
       /\ UNCHANGED <<pending, outcome>>

(* wait_for_reveal_capturing_early_ack returns the opponent's REVEAL:      *)
(* drain, validate, resolve the joint turn, log under the turn played.     *)
TakeReveal(p, m) ==
  /\ pc[p] = "wait_reveal" /\ m.type = "reveal"
  /\ inbox' = [inbox EXCEPT ![p] = Drained(Tail(@))]
  /\ IF Legal(hist[p], Other(p), m.act)
     THEN LET h == Append(hist[p], JointTurn(p, pending[p].act, m.act)) IN
          /\ hist' = [hist EXCEPT ![p] = h]
          /\ Received(p, m)
          /\ AfterReveal(p, BoardOutcome(h))
          /\ UNCHANGED claim
     ELSE /\ TechnicalLoss(p, "illegal_action")
          /\ UNCHANGED <<hist, log, pending, ackd>>
  /\ UNCHANGED <<tries, ledger, oppCommit, early, faults>>

(* What the leg p stands at does not drop.                                 *)
Wanted(p, m) ==
  \/ pc[p] = "wait_commit" /\ m.type = "commit"
  \/ pc[p] = "wait_reveal" /\ m.type = "reveal"
  \/ pc[p] = "wait_ack_commit" /\ m.type = "commit" /\ oppCommit[p] = NoSeal
  \/ /\ pc[p] \in {"wait_ack_commit", "wait_ack"}
     /\ m.type = "ack" /\ m.seal = OwnSeal(p)
  \/ /\ pc[p] = "wait_reveal" /\ p = "thief"
     /\ m.type = "ack" /\ m.seal = OwnSeal(p)

(* Mutant: a FINAL_REVEAL read by a wait of the turn loop is dropped.       *)
DropJitterUnbuffered(p, m) ==
  /\ pc[p] \in Waiting /\ ~Wanted(p, m)
  /\ Take(p)
  /\ UNCHANGED <<pc, machine, tries, ledger, hist, pending, ackd, oppCommit,
                 log, early, outcome, claim, faults>>

(* Anything else is jitter; a FINAL_REVEAL is buffered on its way past.    *)
DropJitter(p, m) ==
  /\ pc[p] \in Waiting /\ ~Wanted(p, m)
  /\ Take(p)
  /\ early' = [early EXCEPT ![p] = @ \/ m.type = "final_reveal"]
  /\ UNCHANGED <<pc, machine, tries, ledger, hist, pending, ackd, oppCommit,
                 log, outcome, claim, faults>>

Receive(p) ==
  /\ inbox[p] # <<>>
  /\ LET m == Head(inbox[p]) IN
     \/ p = "thief" /\ (TakeCommit(m) \/ CaptureEarlyAck(m) \/ TakeMatchingAck(m))
     \/ p = "police" /\ (AcceptAck(m) \/ AcceptCommit(m))
     \/ TakeReveal(p, m)
     \/ DropJitter(p, m)

-----------------------------------------------------------------------------
(* Silence.                                                                *)

Expire(p) ==
  /\ pc[p] \in Waiting /\ inbox[p] = <<>>
  /\ TechnicalLoss(p, "opponent_unresponsive")
  /\ UNCHANGED <<tries, inbox, ledger, hist, pending, ackd, oppCommit, log, early>>

(* The peer of p will not send unless p sends first.                       *)
Silent(q) ==
  \/ pc[q] \in {"over", "gone"}
  \/ pc[q] \in Waiting /\ inbox[q] = <<>>

(* The ladder of a wait runs out on a silent opponent...                   *)
WaitExpires(p) == Silent(Other(p)) /\ Expire(p) /\ UNCHANGED faults

(* ... or on one that is merely slower than the ladder.                    *)
WaitExpiresEarly(p) ==
  /\ ~Silent(Other(p)) /\ faults < MaxFaults
  /\ faults' = faults + 1
  /\ Expire(p)

(* The process dies: killed, or frozen and ended by its watchdog.  Nothing *)
(* restarts it: a game is one process per peer.                            *)
Crash(p) ==
  /\ pc[p] \notin {"over", "gone"}
  /\ faults < MaxFaults
  /\ faults' = faults + 1
  /\ pc' = [pc EXCEPT ![p] = "gone"]
  /\ UNCHANGED <<machine, tries, inbox, ledger, hist, pending, ackd, oppCommit,
                 log, early, outcome, claim>>

-----------------------------------------------------------------------------
(* The peers.                                                              *)

Fault(p) ==
  PushUnanswered(p) \/ PushLost(p) \/ WaitExpiresEarly(p) \/ Crash(p)

Step(p) ==
  \/ p = "police" /\ Decide
  \/ PushAnswered(p)
  \/ PushRefused(p)
  \/ Receive(p)
  \/ WaitExpires(p)

Done == \A p \in Peer : pc[p] \in {"over", "gone"}
Terminated == Done /\ UNCHANGED vars

Next == (\E p \in Peer : Step(p) \/ Fault(p)) \/ Terminated

Spec == Init /\ [][Next]_vars

-----------------------------------------------------------------------------
(* Safety.                                                                 *)

(* The messages p's opponent has sent and p has not read yet.              *)
Inbound(p) == {inbox[p][i] : i \in DOMAIN inbox[p]}

(* p has logged the opponent's h_commit of turn n, the one on the          *)
(* opponent's own disk, under p's own turn number n.                       *)
Held(p, n) ==
  LET q == Other(p) IN
  /\ n < Len(ledger[q])
  /\ Record("received", n, Msg("commit", n, ledger[q][n + 1], NoAct)) \in log[p]

(* The both-locked gate (D-58): when a plaintext action of turn n is on    *)
(* its way, each peer holds the other's h_commit of turn n, and so neither *)
(* can still choose.  turn_commit.py's order of sends and waits is there   *)
(* for this alone.                                                         *)
BothLocked ==
  \A p \in Peer : \A m \in Inbound(p) :
    m.type = "reveal" => Held("police", m.turn) /\ Held("thief", m.turn)

(* What travels is what was sealed: a COMMIT carries the ledgered h_commit *)
(* of its turn, a REVEAL the very action under that seal, and an ACK names *)
(* a commit its sender holds -- over retries and duplicates too, and since *)
(* the ledger is written before any send, after a crash too.               *)
WireMatchesLedger ==
  \A p \in Peer : \A m \in Inbound(Other(p)) :
    /\ m.type \in {"commit", "reveal"} => m.turn < Len(ledger[p])
    /\ m.type = "commit" => m.seal = ledger[p][m.turn + 1]
    /\ m.type = "reveal" => m.act = ledger[p][m.turn + 1].act
    /\ m.type = "ack" => Held(p, m.turn) /\ m.seal = ledger[Other(p)][m.turn + 1]

(* The two boards never diverge: what the police has resolved is what the  *)
(* thief has, the last joint turn at most excepted.  There is no referee   *)
(* to notice if maybe_resolve were fed a stale or a foreign action.        *)
Agreement ==
  LET hp == hist["police"]  ht == hist["thief"] IN
  /\ Len(ht) \in {Len(hp), Len(hp) + 1}
  /\ hp = SubSeq(ht, 1, Len(hp))

(* Every joint turn a peer resolved is made of the two actions sealed for  *)
(* that turn: nobody's board moves by anything but what was committed.     *)
ResolvesSealedActions ==
  \A p \in Peer : \A i \in 1 .. Len(hist[p]) :
    /\ \A q \in Peer : i <= Len(ledger[q])
    /\ hist[p][i] = <<ledger["police"][i].act, ledger["thief"][i].act>>

(* The evidence the audit will join on: each COMMIT and REVEAL a peer      *)
(* logged stands under the turn it belongs to and matches the opponent's   *)
(* ledger there, so an honest opponent's ledger passes the audit.          *)
EvidenceMatchesLedger ==
  \A p \in Peer : \A r \in log[p] :
    LET q == Other(p) IN
    r.dir = "received" =>
      /\ r.turn < Len(ledger[q])
      /\ r.msg.type \in {"commit", "reveal"}
      /\ r.msg.type = "commit" => r.msg.seal = ledger[q][r.turn + 1]
      /\ r.msg.type = "reveal" => r.msg.act = ledger[q][r.turn + 1].act

(* No peer rejects an action its opponent chose legally (rules 13 and 14): *)
(* the two validate it against the same position.                          *)
NoFalseRejection == \A p \in Peer : claim[p] # "illegal_action"

(* A board outcome is reported by the police only when the thief resolved  *)
(* the same final turn, and by the thief only when its last REVEAL is in   *)
(* the police's hands: read, still queued, or dropped by a police whose    *)
(* own loop has ended.                                                     *)
BoardOutcomes == {"capture", "survival"}
OutcomeIsShared ==
  /\ outcome["police"] \in BoardOutcomes => hist["police"] = hist["thief"]
  /\ outcome["thief"] \in BoardOutcomes =>
       \/ hist["police"] = hist["thief"]
       \/ \E m \in Inbound("police") :
            m.type = "reveal" /\ m.turn = Len(hist["police"])
       \/ outcome["police"] = "technical_loss" \/ pc["police"] = "gone"
  /\ \A p \in Peer : outcome[p] \in BoardOutcomes => outcome[p] = BoardOutcome(hist[p])

-----------------------------------------------------------------------------
(* What the exchange implements: a game of simultaneous sealed choices.    *)
SealedNow(p) ==
  IF Len(ledger[p]) > Len(hist["thief"])
  THEN ledger[p][Len(hist["thief"]) + 1].act ELSE NoAct

Joint == INSTANCE JointGame WITH
  played <- hist["thief"],
  sealed <- [p \in Peer |-> SealedNow(p)],
  seen <- Len(hist["police"])

(* Commit-reveal over lossy calls is a game in which each peer seals one   *)
(* legal action per turn knowing every earlier turn and not the other's    *)
(* present choice, and a turn is played from exactly the two sealed        *)
(* actions.                                                                *)
ImplementsJointGame == Joint!Spec
=============================================================================
