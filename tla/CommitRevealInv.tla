--------------------------- MODULE CommitRevealInv ---------------------------
(***************************************************************************)
(* The inductive invariant of CommitReveal: why two peers that only ever   *)
(* look at the type of an envelope never act on a stale one.               *)
(*                                                                         *)
(* The waits of the turn loop test no turn number.  They are safe because  *)
(* each inbox is sorted, but for its hints: a sender moves through COMMIT, *)
(* ACK, REVEAL of one turn before the next, and a retry repeats the        *)
(* message it stands at.  So reading one message of a leg proves every     *)
(* earlier leg read.                                                       *)
(***************************************************************************)
EXTENDS CommitReveal

N(p) == Len(hist[p])     \* joint turns p has resolved: its ctx.state.turn
L(p) == Len(ledger[p])   \* actions p has sealed

Ended == {"declare", "publish", "over", "gone"}
Active(p) == pc[p] \notin Ended

(* The turn of the messages p may send where it stands.                    *)
Behind == {"wait_ack", "send_reveal", "send_hint"}  \* the thief has resolved
TurnOf(p) == IF p = "thief" /\ pc[p] \in Behind THEN N(p) - 1 ELSE N(p)

Playing(p) == Active(p) /\ pc[p] \notin {"decide", "wait_commit"}

(***************************************************************************)
(* Each peer's ledger is one seal per turn, in order.                      *)
(***************************************************************************)
LedgerShape ==
  \A p \in Peer : \A i \in 1 .. L(p) :
    /\ ledger[p][i].act \in Act
    /\ ledger[p][i] = Seal(p, i - 1, ledger[p][i].act)

(***************************************************************************)
(* How far the peers can be apart.                                         *)
(***************************************************************************)
Together ==
  \/ pc["police"] \in {"decide", "send_commit", "wait_ack_commit", "send_ack"}
  \/ pc["thief"] \in {"send_commit", "send_ack", "wait_reveal"}

Counting ==
  /\ N("police") <= N("thief") /\ N("thief") <= N("police") + 1
  /\ \A p \in Peer : N("thief") <= L(p) /\ L(p) <= N("police") + 1
  /\ Together => N("police") = N("thief")

Standing ==
  /\ pc["police"] \notin {"wait_commit", "wait_ack"}
  /\ pc["thief"] \notin {"decide", "wait_ack_commit", "declare"}
  /\ \A p \in Peer :
       /\ Playing(p) =>
            /\ L(p) = TurnOf(p) + 1 /\ pending[p].turn = TurnOf(p)
            /\ TurnOf(p) >= 0
            /\ pending[p].act = ledger[p][L(p)].act
       /\ Active(p) /\ ~Playing(p) => L(p) = N(p)
  /\ pc["police"] = "send_commit" => oppCommit["police"] = NoSeal /\ ~ackd["police"]
  /\ Active("thief") /\ pc["thief"] # "wait_reveal" => ~ackd["thief"]

Binding ==
  \A p \in Peer : \A i \in 1 .. N(p) :
    hist[p][i] = <<ledger["police"][i].act, ledger["thief"][i].act>>

(***************************************************************************)
(* Who holds whose h_commit.                                               *)
(***************************************************************************)
HoldsOther(p) ==
  \/ p = "thief" /\ pc[p] \in {"send_commit", "send_ack", "wait_reveal",
                               "wait_ack", "send_reveal", "send_hint"}
  \/ p = "police" /\ pc[p] \in {"send_ack", "send_reveal", "send_hint", "wait_reveal"}
  \/ p = "police" /\ pc[p] = "wait_ack_commit" /\ oppCommit[p] # NoSeal

IsAcked(p) ==
  \/ p = "police" /\ pc[p] \in {"wait_ack_commit", "send_ack"} /\ ackd[p]
  \/ p = "thief" /\ pc[p] = "wait_reveal" /\ ackd[p]
  \/ pc[p] \in {"send_reveal", "send_hint"}
  \/ p = "police" /\ pc[p] = "wait_reveal"

Holding ==
  \A p \in Peer : \A n \in {TurnOf(p)} :
    /\ HoldsOther(p) =>
         Held(p, n) /\ oppCommit[p] = ledger[Other(p)][n + 1]
    /\ IsAcked(p) => Held(Other(p), n)

(***************************************************************************)
(* Messages in flight: facts that stay true while the sender moves on.     *)
(***************************************************************************)
(* The legs of a turn.  A hint is none: it is never waited for, and a copy *)
(* of it may come at any time.                                             *)
Protocol(m) == m.type \in {"commit", "ack", "reveal"}

(* Where the police may stand once it has sent the REVEAL of its turn.     *)
Revealed == {"send_reveal", "send_hint", "wait_reveal"} \cup Ended

Lasting(p, m) ==
  LET q == Other(p) IN
  /\ Protocol(m) => m.turn <= N(q)
  /\ m.type = "commit" =>
       m.turn < L(p) /\ m = Msg("commit", m.turn, ledger[p][m.turn + 1], NoAct)
  /\ m.type = "ack" => Held(p, m.turn) /\ m.seal = ledger[q][m.turn + 1]
  /\ m.type = "reveal" =>
       /\ m.turn < L(p) /\ m.act = ledger[p][m.turn + 1].act
       /\ Held("police", m.turn) /\ Held("thief", m.turn)
       /\ p = "thief" => m.turn < N(p)
       /\ p = "police" =>
            \/ m.turn < N(p)
            \/ m.turn = N(p) /\ pc[p] \in Revealed

Flight ==
  \A p \in Peer : \A i \in 1 .. Len(inbox[Other(p)]) :
    Lasting(p, inbox[Other(p)][i])

(***************************************************************************)
(* The order of each inbox.                                                *)
(***************************************************************************)
Rank(m) ==
  3 * m.turn + (IF m.type = "commit" THEN 0 ELSE IF m.type = "ack" THEN 1 ELSE 2)

(* Nothing p still reads is older than this.                               *)
Fresh(p) ==
  \/ pc[p] \in {"send_commit", "send_ack", "wait_reveal"} /\ p = "thief"
  \/ p = "police" /\ HoldsOther(p)
Floor(p) == IF Fresh(p) THEN 3 * N(p) ELSE 3 * N(p) - 1

(* Nothing p has sent is newer than this.                                  *)
Ceiling(p) ==
  3 * TurnOf(p) +
    (CASE pc[p] \in {"decide", "wait_commit"} -> -1
       [] pc[p] = "send_commit" -> 0
       [] pc[p] \in {"send_reveal", "send_hint"} -> 2
       [] pc[p] = "wait_reveal" /\ p = "police" -> 2
       [] OTHER -> 1)

Ordered ==
  \A p \in Peer :
    LET q == Other(p)  s == inbox[q] IN
    /\ Active(q) => \A i \in 1 .. Len(s) : Protocol(s[i]) => Rank(s[i]) >= Floor(q)
    /\ Active(p) => \A i \in 1 .. Len(s) : Protocol(s[i]) => Rank(s[i]) <= Ceiling(p)
    /\ Active(q) =>
         \A i, j \in 1 .. Len(s) :
           i < j /\ Protocol(s[i]) /\ Protocol(s[j]) => Rank(s[i]) <= Rank(s[j])

(***************************************************************************)
(* Evidence, and the legality of what has not been played yet.             *)
(***************************************************************************)
(* EvidenceMatchesLedger, of what the turn loop logs: the audit that may    *)
(* follow it puts GAME_OVER envelopes on record as well.                   *)
Evidence ==
  \A p \in Peer : \A r \in log[p] :
    LET q == Other(p) IN
    r.dir = "received" /\ r.msg.type # "game_over" =>
      /\ r.turn < L(q)
      /\ r.msg.type \in {"commit", "reveal"}
      /\ r.msg.type = "commit" => r.msg.seal = ledger[q][r.turn + 1]
      /\ r.msg.type = "reveal" => r.msg.act = ledger[q][r.turn + 1].act

StillLegal ==
  \A p, q \in Peer :
    N(q) < L(p) => Legal(hist[q], p, ledger[p][N(q) + 1].act)

StillOpen ==
  \A p \in Peer :
    Active(p) /\ ~(p = "thief" /\ pc[p] \in Behind) => BoardOutcome(hist[p]) = "none"

IInv ==
  /\ TypeOK
  /\ LedgerShape
  /\ Counting
  /\ Standing
  /\ Binding
  /\ Holding
  /\ Flight
  /\ Ordered
  /\ Evidence
  /\ StillLegal
  /\ StillOpen
  /\ NoFalseRejection

(***************************************************************************)
(* The close of the loop: what an outcome says of the two boards.          *)
(***************************************************************************)
Reports ==
  \A p \in Peer :
    /\ Active(p) => outcome[p] = "none"
    /\ pc[p] \in Ended \ {"gone"} => outcome[p] # "none"
    /\ outcome[p] \in BoardOutcomes => outcome[p] = BoardOutcome(hist[p])
    /\ pc[p] = "declare" => outcome[p] = "capture"

(* Nothing is sealed on a board on which the game is over.                 *)
Closed == \A p \in Peer : BoardOutcome(hist[p]) # "none" => L(p) = N(p)

(* The thief's REVEAL call was answered: the police has it, or will read   *)
(* it, if it is still in its loop.                                         *)
Queued(type, n) ==
  \E i \in 1 .. Len(inbox["police"]) :
    inbox["police"][i].type = type /\ inbox["police"][i].turn = n

Delivered ==
  /\ N("police") < N("thief")
  /\ \/ pc["thief"] \in {"send_hint", "wait_commit"}
     \/ outcome["thief"] \in BoardOutcomes
  /\ Active("police")
  => Queued("reveal", N("police"))

(***************************************************************************)
(* The two journals: what each log says, and that it says everything.      *)
(***************************************************************************)
Sincere ==
  \A p \in Peer : \A r \in log[p] :
    r.dir = "sent" => r.turn = r.msg.turn /\ Lasting(p, r.msg)

(* A capture is declared by a police that has one.                         *)
Claimed(p) ==
  \/ \E i \in 1 .. Len(inbox[Other(p)]) : inbox[Other(p)][i].type = "game_over"
  \/ \E r \in log[p] : r.dir = "sent" /\ r.msg.type = "game_over"
  \/ \E r \in log[Other(p)] : r.dir = "received" /\ r.msg.type = "game_over"

Backed == \A p \in Peer : Claimed(p) => p = "police" /\ outcome[p] = "capture"

Logged(p, dir, type, n) ==
  \E r \in log[p] : r.dir = dir /\ r.turn = n /\ r.msg.type = type

(* The COMMIT of the turn in progress has been sent.                       *)
AfterCommit(p) == Playing(p) /\ pc[p] # "send_commit"

Recorded ==
  \A p \in Peer :
    /\ \A n \in 0 .. N(p) - 1 :
         /\ Held(p, n)
         /\ Logged(p, "sent", "commit", n)
         /\ Logged(p, "received", "reveal", n)
    /\ AfterCommit(p) => Logged(p, "sent", "commit", TurnOf(p))

CInv ==
  /\ IInv
  /\ Reports
  /\ Closed
  /\ Delivered
  /\ Sincere
  /\ Backed
  /\ Recorded
=============================================================================
