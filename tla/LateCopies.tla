----------------------------- MODULE LateCopies -----------------------------
(***************************************************************************)
(* CommitReveal over a network that may deliver an abandoned attempt late. *)
(*                                                                         *)
(* A client that times out closes its call, but a request already in a     *)
(* tunnel or a socket buffer may still reach the peer's server, at any     *)
(* later time.  CommitReveal delivers such a copy at the moment of its     *)
(* attempt or never, which keeps each inbox sorted; here it may overtake   *)
(* nothing and arrive turns later.                                         *)
(***************************************************************************)
EXTENDS CommitReveal

VARIABLE
  late \* late[p]: copies of abandoned attempts still on their way to p

lateVars == <<vars, late>>

LateInit == Init /\ late = [p \in Peer |-> {}]

(* The attempt times out while its request is still under way.             *)
PushDelayed(p) ==
  /\ pc[p] \in Sending /\ pc[Other(p)] # "gone"
  /\ faults < MaxFaults
  /\ faults' = faults + 1
  /\ late' = [late EXCEPT ![Other(p)] = @ \cup {Outgoing(p)}]
  /\ AttemptFailed(p)
  /\ UNCHANGED <<inbox, ledger, hist, ackd, oppCommit, log, early>>

(* ... and is served when it arrives, like any other.                      *)
Arrive(p) ==
  /\ pc[p] # "gone"
  /\ \E m \in late[p] :
       /\ inbox' = [inbox EXCEPT ![p] = Append(@, m)]
       /\ late' = [late EXCEPT ![p] = @ \ {m}]
  /\ UNCHANGED <<pc, machine, tries, ledger, hist, pending, ackd, oppCommit,
                 log, early, outcome, claim, faults>>

LateNext ==
  \/ \E p \in Peer : PushDelayed(p) \/ Arrive(p)
  \/ Next /\ UNCHANGED late

LateSpec == LateInit /\ [][LateNext]_lateVars

=============================================================================
