------------------------------ MODULE GameLog ------------------------------
(***************************************************************************)
(* The journal of a finished game, log_<game_id>_g<NN>.json.  It is built  *)
(* once, after the audit, from two files of its owner alone: the wire log  *)
(* and the nonce ledger, joined on the turn the owner stamped.             *)
(* Source: services/reporting/log_join.py, log_turn_fields.py, log_read.py *)
(* and artifact_log.py.  Nothing writes either file once the audit is      *)
(* over, so the journal is an operator over the state of EndOfGame.        *)
(*                                                                         *)
(* A seal is the payload and its hash in one value: that an entry of the   *)
(* ledger re-hashes to its own h_commit, which is all the replay verifier  *)
(* recomputes per turn (replay_verify.py, check_turn), is not modelled.    *)
(***************************************************************************)
EXTENDS EndOfGame

-----------------------------------------------------------------------------
(* The join.                                                               *)

Claim(r) == r.msg.turn   \* stamped by the sender: evidence, never a key
JoinKey(r) == r.turn      \* stamped by the owner of the log

Filed(p, dir, n) == { r \in log[p] : r.dir = dir /\ JoinKey(r) = n }

Wire(p, dir, type, n) == { r.msg : r \in { x \in Filed(p, dir, n) : x.msg.type = type } }

LedgerEntries(p, n) == { ledger[p][i] : i \in { j \in DOMAIN ledger[p] : ledger[p][j].turn = n } }

JournalTurns(p) ==
  { ledger[p][i].turn : i \in DOMAIN ledger[p] } \cup { JoinKey(r) : r \in log[p] }

\* One turn: the opening of the own commitment, both directions of the wire,
\* and the turns the peer claimed for what it sent.  Nothing of the board.
TurnRecord(p, n) ==
  [opened   |-> LedgerEntries(p, n),
   sent     |-> [c \in {"commit", "ack", "reveal", "hint"} |-> Wire(p, "sent", c, n)],
   received |-> [c \in {"commit", "reveal", "hint"} |-> Wire(p, "received", c, n)],
   claimed  |-> { Claim(r) : r \in Filed(p, "received", n) }]

Journal(p) == [n \in JournalTurns(p) |-> TurnRecord(p, n)]

-----------------------------------------------------------------------------
(* The journal of p is written by report_game_end, after the audit, and    *)
(* only for a game that produced an outcome.                               *)

Written(p) == verdict[p] # "none" /\ outcome[p] # "none"

\* Every commitment p put on record as sent is one its journal opens: the
\* opening is ledgered before the COMMIT is pushed, in one file, and the envelope
\* recorded once the push is answered, in the other.
OpensWhatItSent(p) ==
  \A n \in JournalTurns(p) :
    { m.seal : m \in TurnRecord(p, n).sent["commit"] } \subseteq LedgerEntries(p, n)

\* The action the journal gives the opponent in turn n: the received REVEAL.
Told(p, n) == { m.act : m \in TurnRecord(p, n).received["reveal"] }

\* For every turn its owner resolved a journal holds one opening, and the one
\* revealed move it holds makes up, with the opened one, the joint turn the
\* owner's engine resolved.
TellsTheGame(p) ==
  \A n \in 0 .. Len(hist[p]) - 1 :
    \E s \in LedgerEntries(p, n), a \in Told(p, n) :
      /\ LedgerEntries(p, n) = {s} /\ Told(p, n) = {a}
      /\ JointTurn(p, s.act, a) = hist[p][n + 1]

\* In a turn both peers resolved, the commitment p received is the one the
\* other journal opens, it is the one p acknowledged, and the move p heard is
\* the move that opening holds.
Corroborates(p) ==
  \A n \in 0 .. Len(hist[p]) - 1 :
    LET rec    == TurnRecord(p, n)
        opened == LedgerEntries(Other(p), n)
    IN  n < Len(hist[Other(p)]) =>
          /\ { m.seal : m \in rec.received["commit"] } = opened
          /\ { m.seal : m \in rec.sent["ack"] } \subseteq opened
          /\ Told(p, n) = { s.act : s \in opened }

-----------------------------------------------------------------------------
(* The capture declaration, and what the report makes of the opponent's    *)
(* word (capture_declaration.py, result_agreement.py).                     *)

\* The side that lands on the other owes the declaration.
DeclaresCapture(p) == p = "police" /\ outcome[p] = "capture"

\* What p put on record as declared: a push that was answered.
Declared(p) == \E r \in log[p] : r.dir = "sent" /\ r.msg.type = "game_over"

\* Every GAME_OVER p put on record as received.
PeerClaims(p) == { r.msg : r \in { x \in log[p] : x.dir = "received" /\ x.msg.type = "game_over" } }

\* Three values: no claim is neither agreement nor contradiction.
Agreed(p) ==
  IF PeerClaims(p) = {} THEN "no_claim"
  ELSE IF result[p] = "capture" THEN "matched" ELSE "contradicted"

-----------------------------------------------------------------------------
\* A journal alone tells the game its owner played, and opens every commitment
\* it has as sent, whatever was lost, repeated or late (artifact_log.py: built
\* from two files with no access to the board); and where both peers filed one,
\* each corroborates the other turn by turn.  A claim a report holds is one its
\* sender's board backs (rule 22), and a report contradicts it only where the
\* audit has taken the game from the sender.
JournalsTellTheGame ==
  \A p \in Peer : Written(p) =>
    /\ OpensWhatItSent(p)
    /\ TellsTheGame(p)
    /\ Written(Other(p)) => Corroborates(p)
    /\ PeerClaims(p) # {} \/ Declared(Other(p)) => DeclaresCapture(Other(p))
    /\ Agreed(p) = "contradicted" => result[p] = "technical_loss"

=============================================================================
