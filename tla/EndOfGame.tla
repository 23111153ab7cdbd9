------------------------------ MODULE EndOfGame ------------------------------
(***************************************************************************)
(* The end of a game: the mutual audit and the teardown of run_agent, put  *)
(* behind the turn loop of CommitReveal.                                   *)
(*                                                                         *)
(* When its loop has ended a peer publishes its ledger as FINAL_REVEAL     *)
(* (the "publish" call of CommitReveal), collects the opponent's, audits   *)
(* both directions, lingers so that the opponent's last calls still find   *)
(* its server, and exits.  A ledger is never written after the loop, so    *)
(* what a FINAL_REVEAL carries is its sender's ledger.                     *)
(***************************************************************************)
EXTENDS CommitReveal

VARIABLES
  stage,   \* stage[p]: "audit" or "linger", where run_agent stands after p's loop
  verdict, \* verdict[p]: "none", or what the final audit of p concluded
  result   \* result[p]: the outcome run_agent returns

endVars == <<vars, stage, verdict, result>>

EndInit ==
  /\ Init
  /\ stage = [p \in Peer |-> "audit"]
  /\ verdict = [p \in Peer |-> "none"]
  /\ result = [p \in Peer |-> "none"]

Verdicts == {"none", "matched", "mismatch", "incomplete", "unresponsive"}

EndTypeOK ==
  /\ TypeOK
  /\ stage \in [Peer -> {"audit", "linger"}]
  /\ verdict \in [Peer -> Verdicts]
  /\ result \in [Peer -> Outcomes]

-----------------------------------------------------------------------------
(* The audit: security/audit.py over agent_audit_observed.observed.        *)

(* The envelopes of a type that p logged in one direction for turn n.      *)
Observed(p, dir, type, n) ==
  {r.msg : r \in {x \in log[p] : x.dir = dir /\ x.turn = n /\ x.msg.type = type}}

(* Mutant: a turn without an observed REVEAL is a mismatch.                *)
EntryMatchesNoTrailing(p, dir, s) ==
  /\ \E m \in Observed(p, dir, "commit", s.turn) : m.seal = s
  /\ \E m \in Observed(p, dir, "reveal", s.turn) : m.act = s.act

(* verify_reveal: the entry re-hashes to a COMMIT that was observed.        *)
Rehashed(p, dir, s) == \E m \in Observed(p, dir, "commit", s.turn) : m.seal = s

(* state_binding_detail: the state record sealed into an entry names its   *)
(* writer, who must not be the side the entry is held against.             *)
ForbiddenRole(p, dir) == IF dir = "received" THEN p ELSE Other(p)
StateBound(p, dir, s) == s.by # ForbiddenRole(p, dir)

(* _audit_one: an observed COMMIT that re-hashes to the entry, a state      *)
(* record of the right writer, and no observed REVEAL of another action.   *)
(* A trailing entry, never revealed in the game, matches.                  *)
EntryMatches(p, dir, s) ==
  /\ Rehashed(p, dir, s)
  /\ StateBound(p, dir, s)
  /\ \A m \in Observed(p, dir, "reveal", s.turn) : m.act = s.act

(* The turns p saw fully exchanged: committed and revealed.                *)
Exchanged(p, dir) ==
  {n \in 0 .. SurvivalTurn :
     /\ Observed(p, dir, "commit", n) # {}
     /\ Observed(p, dir, "reveal", n) # {}}

(* join_key_turn over the entries: the turns a ledger reports.             *)
Reported(records) == {records[i].turn : i \in DOMAIN records}

(* _missing_turns: every exchanged turn is reported.                       *)
Covered(p, dir, records) == Exchanged(p, dir) \subseteq Reported(records)

AuditMatches(p, dir, records) ==
  /\ \A i \in DOMAIN records : EntryMatches(p, dir, records[i])
  /\ Covered(p, dir, records)

(* What a FINAL_REVEAL carries, and what its sender audits of itself: every *)
(* record of the nonce ledger, in the order written.                       *)
ReadAll(p) == ledger[p]

(* Both directions: the opponent's ledger against what p received, and p's *)
(* own against what p sent.                                                *)
SymmetricAudit(p) ==
  /\ AuditMatches(p, "received", ReadAll(Other(p)))
  /\ AuditMatches(p, "sent", ReadAll(p))

-----------------------------------------------------------------------------
(* Receiving the opponent's ledger.                                        *)

Collecting(p) == pc[p] = "over" /\ stage[p] = "audit"

(* p's own FINAL_REVEAL was answered: push_final_reveal returned None.     *)
Published(p) == \E r \in log[p] : r.dir = "sent" /\ r.msg.type = "final_reveal"

(* run_final_audit returns: an accusation overrides the board's outcome.   *)
Conclude(p, v) ==
  /\ verdict' = [verdict EXCEPT ![p] = v]
  /\ result' = [result EXCEPT ![p] =
       IF v \in {"mismatch", "unresponsive"} THEN "technical_loss" ELSE outcome[p]]
  /\ stage' = [stage EXCEPT ![p] = "linger"]

Audit(p) == Conclude(p, IF SymmetricAudit(p) THEN "matched" ELSE "mismatch")

(* A ledger that arrived while the turn loop still read the queue.         *)
CollectEarly(p) ==
  /\ Collecting(p) /\ early[p]
  /\ early' = [early EXCEPT ![p] = FALSE]
  /\ Audit(p)
  /\ UNCHANGED <<pc, machine, tries, inbox, ledger, hist, pending, ackd,
                 oppCommit, log, outcome, claim, faults>>

(* Mutant: the first envelope to arrive is taken for the ledger.           *)
CollectAny(p) ==
  /\ Collecting(p) /\ ~early[p] /\ inbox[p] # <<>>
  /\ Take(p)
  /\ IF Head(inbox[p]).type = "final_reveal" THEN Audit(p)
     ELSE Conclude(p, IF ledger[Other(p)] = <<>> THEN "matched" ELSE "mismatch")
  /\ UNCHANGED <<pc, machine, tries, ledger, hist, pending, ackd, oppCommit,
                 log, early, outcome, claim, faults>>

(* One pull of the receive leg.  A capture declaration is put on record,   *)
(* anything else but the ledger is dropped.                                *)
Collect(p) ==
  /\ Collecting(p) /\ ~early[p] /\ inbox[p] # <<>>
  /\ LET m == Head(inbox[p]) IN
     /\ Take(p)
     /\ log' = IF m.type = "game_over"
               THEN [log EXCEPT ![p] = @ \cup {Record("received", m.turn, m)}]
               ELSE log
     /\ IF m.type = "final_reveal" THEN Audit(p)
        ELSE UNCHANGED <<stage, verdict, result>>
  /\ UNCHANGED <<pc, machine, tries, ledger, hist, pending, ackd, oppCommit,
                 early, outcome, claim, faults>>

(* The ladder of the receive leg runs out.  The peer is accused only if    *)
(* p's own ledger reached it: otherwise p's transport is to blame.         *)
GiveUp(p) ==
  /\ Collecting(p) /\ ~early[p] /\ inbox[p] = <<>>
  /\ Conclude(p, IF outcome[p] # "none" /\ ~Published(p)
                 THEN "incomplete" ELSE "unresponsive")
  /\ UNCHANGED <<pc, machine, tries, inbox, ledger, hist, pending, ackd,
                 oppCommit, log, early, outcome, claim>>

CollectExpires(p) == Silent(Other(p)) /\ GiveUp(p) /\ UNCHANGED faults

CollectExpiresEarly(p) ==
  /\ ~Silent(Other(p)) /\ faults < MaxFaults
  /\ faults' = faults + 1
  /\ GiveUp(p)

-----------------------------------------------------------------------------
(* Teardown.                                                               *)

(* linger_for_peer drains the queue while it is not quiet...               *)
Linger(p) ==
  /\ pc[p] = "over" /\ stage[p] = "linger" /\ inbox[p] # <<>>
  /\ Take(p)
  /\ UNCHANGED <<pc, machine, tries, ledger, hist, pending, ackd, oppCommit,
                 log, early, outcome, claim, faults, stage, verdict, result>>

(* ... or until its total time is up: the server stops either way.         *)
Exit(p) ==
  /\ pc[p] = "over" /\ stage[p] = "linger"
  /\ pc' = [pc EXCEPT ![p] = "gone"]
  /\ UNCHANGED <<machine, tries, inbox, ledger, hist, pending, ackd, oppCommit,
                 log, early, outcome, claim, faults, stage, verdict, result>>

CrashInAudit(p) ==
  /\ Collecting(p) /\ faults < MaxFaults
  /\ faults' = faults + 1
  /\ pc' = [pc EXCEPT ![p] = "gone"]
  /\ UNCHANGED <<machine, tries, inbox, ledger, hist, pending, ackd, oppCommit,
                 log, early, outcome, claim, stage, verdict, result>>

-----------------------------------------------------------------------------
PlayStep(p) == Step(p) /\ UNCHANGED <<stage, verdict, result>>
PlayFault(p) == Fault(p) /\ UNCHANGED <<stage, verdict, result>>

EndStep(p) ==
  CollectEarly(p) \/ Collect(p) \/ CollectExpires(p) \/ Linger(p) \/ Exit(p)
EndFault(p) == CollectExpiresEarly(p) \/ CrashInAudit(p)

Exited == \A p \in Peer : pc[p] = "gone"
Stopped == Exited /\ UNCHANGED endVars

EndNext ==
  (\E p \in Peer : PlayStep(p) \/ PlayFault(p) \/ EndStep(p) \/ EndFault(p)) \/ Stopped

EndSpec == EndInit /\ [][EndNext]_endVars

(* The event loop of a running peer is never blocked for ever; no fault is *)
(* ever required to happen.                                                *)
EndFairSpec ==
  EndSpec /\ \A p \in Peer : WF_endVars(PlayStep(p)) /\ WF_endVars(EndStep(p))

-----------------------------------------------------------------------------
(* Safety.                                                                 *)

(* What the audit code says of itself (security/audit.py, module comment): *)
(* an abnormal ending can leave an honest peer with a sealed action it     *)
(* never revealed, and the audit must not hold that against it.  Both      *)
(* peers are honest here, so no audit may end in a mismatch.               *)
HonestLedgersMatch == \A p \in Peer : verdict[p] # "mismatch"

(* What does hold: of all the checks of the audit only one can fail        *)
(* between honest peers, and only for a sealed action whose COMMIT call    *)
(* never completed.  No hash, no played action and no coverage check ever  *)
(* fails, whatever was lost, repeated or late.                             *)
MismatchOnlyForUnseenCommit ==
  \A p \in Peer : verdict[p] = "mismatch" =>
    \/ \E i \in DOMAIN ledger[p] :
         Observed(p, "sent", "commit", ledger[p][i].turn) = {}
    \/ \E i \in DOMAIN ledger[Other(p)] :
         Observed(p, "received", "commit", ledger[Other(p)][i].turn) = {}

(* A game that ended on p's board is never taken back by a hash mismatch:  *)
(* the one failure above cannot meet a capture or a survival.  It is taken *)
(* back only from a peer that stays silent although p's own ledger reached *)
(* it (rule 36, and G1: a failed own push is no evidence against a peer).  *)
BoardOutcomeStands ==
  \A p \in Peer : outcome[p] \in BoardOutcomes /\ verdict[p] # "none" =>
    \/ result[p] = outcome[p]
    \/ verdict[p] = "unresponsive" /\ Published(p)

(* A ledger that reached p is never lost on the way to p's audit, be it    *)
(* read by a wait of the turn loop, duplicated, or overtaken by a capture  *)
(* declaration: once the opponent's publication was answered, p does not   *)
(* give up waiting for it.                                                 *)
PublishedIsHeard ==
  [][\A p \in Peer :
       Published(Other(p)) => (verdict'[p] = verdict[p]
                               \/ verdict'[p] \in {"matched", "mismatch"})]_endVars

-----------------------------------------------------------------------------
(* Auxiliary invariants: what a peer that has concluded remembers, and     *)
(* where the ledger it has not audited yet can be.                         *)

Concluded ==
  \A p \in Peer :
    /\ stage[p] = "audit" => verdict[p] = "none"
    /\ stage[p] = "linger" =>
         /\ pc[p] \in {"over", "gone"} /\ verdict[p] # "none"
         /\ result[p] = IF verdict[p] \in {"mismatch", "unresponsive"}
                        THEN "technical_loss" ELSE outcome[p]
    /\ verdict[p] = "unresponsive" /\ outcome[p] # "none" => Published(p)

Awaited(p) ==
  early[p] \/ \E i \in 1 .. Len(inbox[p]) : inbox[p][i].type = "final_reveal"

AtHand ==
  \A p \in Peer :
    Published(Other(p)) /\ pc[p] # "gone" /\ stage[p] = "audit" => Awaited(p)

-----------------------------------------------------------------------------
(* Liveness.                                                               *)

(* Both processes come to an end, whatever is lost, late or dead: a peer   *)
(* never waits for ever, neither in a turn nor in the audit (NET-06).      *)
BothExit == <>Exited

(* Without faults the game is played to its end on both boards, both       *)
(* audits match, and both processes return the outcome of that board: the  *)
(* waits of the two loops and of the two audits always fit together.       *)
CleanEnding ==
  [](faults = 0) =>
    <>[](/\ hist["police"] = hist["thief"]
        /\ \A p \in Peer : verdict[p] = "matched" /\ result[p] = BoardOutcome(hist[p]))

=============================================================================
