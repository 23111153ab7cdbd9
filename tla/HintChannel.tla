----------------------------- MODULE HintChannel -----------------------------
(***************************************************************************)
(* The inbound half of the hint channel, beside the turn loop.             *)
(*                                                                         *)
(* A hint for turn n is the last thing its sender does in that turn, and   *)
(* is never waited for: the receiver meets it in whatever wait it stands   *)
(* at (turn_hint_buffer.record_hint) or right behind a REVEAL              *)
(* (turn_buffer_queue.drain_trailing_hint), and spends at most one hint    *)
(* per decision (turn_hint_store.consume_hint).  A copy of a hint may be   *)
(* repeated, or arrive turns late, as in LateCopies; copies of the other   *)
(* messages are not late here, so that the two loops stay in the lockstep  *)
(* the receive window was derived from.  A hint is its turn stamp.         *)
(***************************************************************************)
EXTENDS LateCopies, FiniteSetsExt

VARIABLES
  hints,  \* hints[p]: the stamps in p's pending_hints and incoming_hints
  heard,  \* heard[p]: p's message_received records of hints <<turn, stamp>>
  decoded \* decoded[p]: what p's decisions spent, oldest first <<turn, stamp>>

hintVars == <<lateVars, hints, heard, decoded>>
buffers == <<hints, heard, decoded>>

NoHint == -1

Lookback == 1

HintInit ==
  /\ LateInit
  /\ hints = [p \in Peer |-> [pending |-> NoHint, incoming |-> NoHint]]
  /\ heard = [p \in Peer |-> {}]
  /\ decoded = [p \in Peer |-> <<>>]

-----------------------------------------------------------------------------
(* The two buffers.                                                        *)

(* buffer_if_not_older.                                                    *)
NotOlder(old, stamp) == IF stamp >= old THEN stamp ELSE old

(* Mutant: an equal stamp re-enters.                                       *)
IsReplayStrict(b, stamp) ==
  b.incoming = NoHint /\ b.pending # NoHint /\ stamp < b.pending

(* Spent already: consumed and still marked, unless strictly newer.        *)
IsReplay(b, stamp) ==
  b.incoming = NoHint /\ b.pending # NoHint /\ stamp <= b.pending

(* record_hint, after the receipt was logged.                              *)
Buffered(b, turn, stamp) ==
  IF stamp < turn - Lookback \/ IsReplay(b, stamp) THEN b
  ELSE [pending |-> NotOlder(b.pending, stamp),
        incoming |-> NotOlder(b.incoming, stamp)]

LoggedHint(p, stamp) ==
  heard' = [heard EXCEPT ![p] = @ \cup {<<Len(hist[p]), stamp>>}]

-----------------------------------------------------------------------------
(* Steps.                                                                  *)

(* next_protocol_message meets a hint in one of the waits.                 *)
HearHint(p) ==
  /\ inbox[p] # <<>> /\ Head(inbox[p]).type = "hint"
  /\ LET m == Head(inbox[p]) IN
     /\ DropJitter(p, m)
     /\ LoggedHint(p, m.turn)
     /\ hints' = [hints EXCEPT ![p] = Buffered(@, Len(hist[p]), m.turn)]
  /\ UNCHANGED decoded

(* Mutant: both buffers are cleared when the turn resolves.                *)
ResolvedAll(b) == [pending |-> NoHint, incoming |-> NoHint]

(* maybe_resolve: pending_hints belonged to the turn that just ended.      *)
Resolved(b) == [b EXCEPT !.pending = NoHint]

(* The opponent's REVEAL, with a hint right behind it or not.              *)
HearReveal(p) ==
  /\ inbox[p] # <<>>
  /\ TakeReveal(p, Head(inbox[p]))
  /\ LET q == Tail(inbox[p])
         trailing == q # <<>> /\ Head(q).type = "hint"
         b == IF trailing THEN Buffered(hints[p], Len(hist[p]), Head(q).turn)
              ELSE hints[p]
     IN /\ IF trailing THEN LoggedHint(p, Head(q).turn) ELSE UNCHANGED heard
        /\ hints' = [hints EXCEPT ![p] =
             IF hist'[p] # hist[p] THEN Resolved(b) ELSE b]
  /\ UNCHANGED decoded

(* decode_turn_hint takes what is buffered and leaves it as the marker of  *)
(* what has been spent.                                                    *)
ConsumeHint(p) ==
  LET b == hints[p] IN
  IF Hints /\ b.incoming # NoHint
  THEN /\ hints' = [hints EXCEPT ![p] = [pending |-> b.incoming, incoming |-> NoHint]]
       /\ decoded' = [decoded EXCEPT ![p] = Append(@, <<Len(hist[p]), b.incoming>>)]
  ELSE UNCHANGED <<hints, decoded>>

(* The decisions: the police's, and the thief's at the police's COMMIT.    *)
DecideWithHint(p) ==
  /\ \/ p = "police" /\ Decide
     \/ p = "thief" /\ inbox[p] # <<>> /\ TakeCommit(Head(inbox[p]))
  /\ ConsumeHint(p)
  /\ UNCHANGED heard

(* Every other envelope a wait reads.                                      *)
HearOther(p) ==
  /\ inbox[p] # <<>>
  /\ LET m == Head(inbox[p]) IN
     \/ p = "thief" /\ (CaptureEarlyAck(m) \/ TakeMatchingAck(m))
     \/ p = "police" /\ (AcceptAck(m) \/ AcceptCommit(m))
     \/ m.type # "hint" /\ DropJitter(p, m)
  /\ UNCHANGED buffers

(* A REVEAL or a hint may be repeated; only hints are lost or late here,   *)
(* and nobody dies.                                                        *)
PlayOn(p) ==
  /\ \/ PushAnswered(p) \/ WaitExpires(p)
     \/ pc[p] \in {"send_reveal", "send_hint"} /\ PushUnanswered(p)
  /\ UNCHANGED buffers

(* What is left of a hint's ladder is lost, in one step and as one fault.  *)
HintLost(p) ==
  /\ pc[p] = "send_hint" /\ faults < MaxFaults
  /\ faults' = faults + 1
  /\ tries' = [tries EXCEPT ![p] = 0]
  /\ Proceed(p)
  /\ UNCHANGED <<inbox, ledger, hist, ackd, oppCommit, log, early, claim, buffers>>

(* A copy that comes after the turn loop has ended is never read by it.    *)
Straggle(p) ==
  /\ \/ pc[p] = "send_hint" /\ PushDelayed(p)
     \/ outcome[p] = "none" /\ Arrive(p)
  /\ UNCHANGED buffers

HintNext ==
  \/ \E p \in Peer :
       \/ (HearHint(p) \/ HearReveal(p) \/ DecideWithHint(p)) /\ UNCHANGED late
       \/ (HearOther(p) \/ PlayOn(p) \/ HintLost(p)) /\ UNCHANGED late
       \/ Straggle(p)
  \/ Terminated /\ UNCHANGED <<late, buffers>>

HintSpec == HintInit /\ [][HintNext]_hintVars

-----------------------------------------------------------------------------
(* Safety.                                                                 *)

LastDecoded(p) ==
  IF decoded[p] = <<>> THEN NoHint ELSE decoded[p][Len(decoded[p])][2]

(* The stamps p heard inside the window and that would be news to it.      *)
News(p) ==
  {x[2] : x \in {y \in heard[p] : y[2] >= y[1] - 1 /\ y[2] > LastDecoded(p)}}

(* Each decision spends the newest hint heard since the last one, and      *)
(* nothing else: an older copy that arrives after it does not displace it, *)
(* resolving a turn does not lose it, one inbound hint is decoded at most  *)
(* once whatever copies of it arrive and whenever (turn_hint_buffer.py,    *)
(* 05-14), and none that was heard outside the window is decoded at all.   *)
DecodesNewest ==
  [][\A p \in Peer :
       Hints /\ ledger'[p] # ledger[p] =>
         decoded'[p] = IF News(p) = {} THEN decoded[p]
                       ELSE Append(decoded[p], <<Len(hist[p]), Max(News(p))>>)]_hintVars

(* One turn of lookback is enough (turn_hint_buffer.py's derivation): a    *)
(* hint whose call was answered is heard inside the window, whichever wait *)
(* meets it.  And the channel works at all: with nothing lost or late the  *)
(* thief decides knowing the police's hint of the previous turn, and the   *)
(* police, whose opponent hints after it has resolved, the one before at   *)
(* the latest.                                                             *)
HeardInTime(p, stamp) == \E y \in heard[p] : y[2] = stamp /\ y[2] >= y[1] - 1
HintsKeepUp ==
  \A p \in Peer :
    /\ \A x \in heard[p] :
         (\E r \in log[Other(p)] : r.dir = "sent" /\ r.msg.type = "hint" /\ r.msg.turn = x[2])
           => HeardInTime(p, x[2])
    /\ Hints /\ faults = 0 =>
         LastDecoded(p) >= Len(ledger[p]) - (IF p = "police" THEN 3 ELSE 2)
=============================================================================
